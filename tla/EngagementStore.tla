---------------------------- MODULE EngagementStore ----------------------------
(***************************************************************************)
(* What imports, automations, delivery webhooks, tracking, the contact     *)
(* book, the public API and card payments share: the Contact rows of an    *)
(* account with their tags and consent, its credit, and the events they    *)
(* emit to each other (@nestjs/event-emitter).                             *)
(*                                                                         *)
(* The processes are in Automations, ContactImport, DeliveryEvents,        *)
(* ContactBook, PublicApi and CardPayments; Engagement composes them.  As  *)
(* in the campaign modules one action is one statement sent to the         *)
(* database, to Redis or to a provider, with what the handler does before  *)
(* it awaits again.                                                        *)
(*                                                                         *)
(* A contact stands for what a row of a file says: its e-mail address and  *)
(* phone number are its keys, and two contacts may share one.              *)
(***************************************************************************)
EXTENDS Integers, FiniteSets, Sequences, FiniteSetsExt, SequencesExt

CONSTANTS
  Contacts,    \* the contacts files and forms speak of
  EmailOf, PhoneOf,  \* contact -> its keys, None if it has none
  None,
  Tags,        \* the tags a contact may have
  Executions,  \* how many executions an automation may get, 1..n
  Workers,     \* executions that may be processed at the same time
  Backends,    \* backend processes, each with its crons
  Runs,        \* runs of their crons that may be under way at the same time, 1..n
  Files,       \* files being imported
  Clients,     \* requests on the automation being served at the same time
  Lanes,       \* webhooks and tracking links being served at the same time
  BatchSize,   \* rows of a file read against the table at once (500 in the code)
  Attempts,    \* how often BullMQ runs a job that throws (3)
  UnitCost,    \* what an automation pays for one message
  CardAmount,  \* what one card payment adds to the credit
  Callers,     \* requests on contacts, keys, the public API and card payments served
               \* at the same time
  Keys,        \* the API keys that may be made
  MaxKeys,     \* keys an account may have in use (10)
  MaxTo,       \* numbers one call may write to (500)
  ApiCost,     \* what the API charges for one message
  MaxDay,      \* the last day
  Worlds       \* the accounts and events considered

(* What reaches the account from outside: the webhooks of the mail and SMS
   providers, links, and the webhook of card payments. *)
Messages ==
  [src : {"email", "resend", "sms", "link", "card"},
   kind : {"sent", "open", "click", "hard", "soft", "bounce", "unsubscribe", "stop", "failed",
           "succeeded"}]

(* A row of a file that has neither an address nor a number says None. *)
Keyed == {c \in Contacts : EmailOf[c] # None \/ PhoneOf[c] # None}

(* A world: what one behaviour is about, and how often each thing that is not
   the code's doing may happen in it. *)
ASSUME StoreAssumption ==
  /\ IsFiniteSet(Contacts) /\ Executions \subseteq Nat \ {0} /\ IsFiniteSet(Executions)
  /\ BatchSize \in Nat \ {0} /\ Attempts \in Nat \ {0}
  /\ UnitCost \in Nat /\ CardAmount \in Nat /\ MaxDay \in Nat /\ Workers \in Nat
  /\ IsFiniteSet(Callers) /\ Callers # {} /\ IsFiniteSet(Keys) /\ IsFiniteSet(Lanes)
  /\ {MaxKeys, MaxTo, ApiCost} \subseteq Nat \ {0}
  /\ IsFiniteSet(Files) /\ IsFiniteSet(Backends)
  /\ IsFiniteSet(Runs) /\ Runs \subseteq Nat
  /\ \A w \in Worlds :
       /\ Len(w.workflow.nodes) \in Nat
       /\ w.present \subseteq Contacts /\ w.credit \in Nat
       /\ w.keys \subseteq Keys /\ Cardinality(w.keys) <= MaxKeys
       /\ \A f \in DOMAIN w.files :
            w.files[f] \in Seq([contact : Keyed \cup {None}, tags : SUBSET Tags])
       /\ w.messages \subseteq Messages
       /\ {w.faults, w.crashes, w.requests, w.deliveries} \subseteq Nat

(* Contacts are numbered: the first one stands where nobody looks.  Forms say
   which tags they know, and a world is over before the last day is. *)
ASSUME ContactsAssumption ==
  /\ Contacts # {} /\ Contacts \subseteq Nat
  /\ \A w \in Worlds : w.lists \subseteq SUBSET Tags /\ w.lastDay \in 0..MaxDay

VARIABLES
  world,     \* which of the worlds it is: never changes
  present,   \* contacts that have a row
  tags,      \* contact -> Contact.tags
  optOut,    \* contact -> Contact.optOut
  balance,   \* Account.creditBalance
  analytic,  \* contacts with an Analytic row of action Open
  events,    \* events emitted whose listener has not read anything yet
  day,       \* the date
  left,      \* how much of the world's bounds is left
  \* Of ContactImport:
  imp,       \* file -> its job and what the worker remembers
  reports,   \* file -> the ImportReport rows written for it
  \* Of DeliveryEvents:
  send,      \* contact -> Send.status
  opened,    \* contacts whose Send.openedAt is set
  clicked,   \* contacts whose Send.clickedAt is set
  counts,    \* the campaign's sentCount, openedCount, clickedCount, failedCount
  cards,     \* Validated Transaction rows that the webhook of card payments wrote
  lane,      \* lane -> what is being served
  \* Of ContactBook:
  form,      \* caller -> its request on a contact
  recalc,    \* jobs of the queue segment-recalculation: being added, waiting, put back
  counting,  \* backend -> its worker of that queue
  segment,   \* Segment.contactCount
  \* Of PublicApi:
  apiKeys,   \* key -> its ApiKey row
  call,      \* caller -> its request on keys, or its call of the API
  apiTried,  \* numbers that calls of the API handed to a provider
  apiPaid,   \* those that were paid for
  \* Of CardPayments:
  visa,      \* caller -> where its payment by card is
  purchases  \* payments by card: the provider has the money of, have a Transaction
             \* row, wait for the payer's bank, and were confirmed by it

importVars == <<imp, reports>>
deliveryVars == <<send, opened, clicked, counts, cards, lane>>
bookVars == <<form, recalc, counting, segment>>
apiVars == <<apiKeys, call, apiTried, apiPaid>>
visaVars == <<visa, purchases>>
others == <<importVars, deliveryVars, bookVars, apiVars, visaVars>>
store == <<world, present, tags, optOut, balance, analytic, events, day, left>>

EventKinds == {"contact_added", "segment_joined", "tag_added", "campaign_opened", "link_clicked"}
Events == [kind : EventKinds, contact : Contacts]

-----------------------------------------------------------------------------

(* Something outside the code goes wrong: a call throws, or a process dies. *)
Fault == left.faults > 0 /\ left' = [left EXCEPT !.faults = @ - 1]
Crash == left.crashes > 0 /\ left' = [left EXCEPT !.crashes = @ - 1]
Failures == (world.faults - left.faults) + (world.crashes - left.crashes)

(* A client, a provider or a payer does something. *)
Request == left.requests > 0 /\ left' = [left EXCEPT !.requests = @ - 1]
Delivery == left.deliveries > 0 /\ left' = [left EXCEPT !.deliveries = @ - 1]

(* EventEmitter2.emit: a listener is started for each event, and runs on its
   own. *)
Event(kind, c) == [kind |-> kind, contact |-> c]
Emit(kind, c) == events' = Append(events, Event(kind, c))

(* @@unique([accountId, email]) and @@unique([accountId, phone]) *)
KeysOf(c) == {EmailOf[c], PhoneOf[c]} \ {None}
Taken(c) == \E d \in present : KeysOf(c) \cap KeysOf(d) # {}

StoreInit ==
  /\ world \in Worlds
  /\ present = world.present
  /\ tags = [c \in Contacts |-> {}]
  /\ optOut = [c \in Contacts |-> FALSE]
  /\ balance = world.credit
  /\ analytic = {}
  /\ events = <<>>
  /\ day = 0
  /\ left = [faults |-> world.faults, crashes |-> world.crashes,
             requests |-> world.requests, deliveries |-> world.deliveries]

StoreTypeOK ==
  /\ world \in Worlds
  /\ present \subseteq Contacts
  /\ tags \in [Contacts -> SUBSET Tags] /\ optOut \in [Contacts -> BOOLEAN]
  /\ balance \in Int
  /\ analytic \subseteq Contacts
  /\ events \in Seq(Events)
  /\ day \in 0..MaxDay
  /\ left \in [faults : Nat, crashes : Nat, requests : Nat, deliveries : Nat]

=============================================================================
