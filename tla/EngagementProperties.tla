------------------------- MODULE EngagementProperties -------------------------
(***************************************************************************)
(* What should be true of imports, automations, delivery events, card      *)
(* payments, the contact book and the public API.                          *)
(***************************************************************************)
EXTENDS Engagement

(* Where the processes may be. *)
AtNode == {"send", "pay", "record", "caught", "tag", "condition", "wait"}
MemoryPC ==
  AtNode \cup {"idle", "found", "add", "load", "enter", "requeue", "finish", "return", "throw",
               "mark"}
CronPC == {"idle", "create", "add"}
LaneAt == {"idle", "write", "count", "log", "mark"}
FormOp == {"none", "create", "update", "addTags", "optIn", "optOut"}
FormAt == {"idle", "write", "announce", "match", "before"}
CountPC == {"idle", "count", "write"}
CallAt == {"idle", "create", "revoke", "balance", "send"}

(* The values of the variables of each component. *)
AutomationsTypeOK ==
  LET configs == [date : 0..MaxDay, fired : 0..MaxDay \cup {Never}] IN
  /\ status \in AutomationStatus \cup {"gone"}
  /\ config \in configs
  /\ sendCount \in Nat
  /\ exec \in [Executions -> [st : ExecutionStatus, contact : Contacts,
                              node : Nat \cup {Done}, tries : 0..4]]
  /\ job \in [Executions -> [st : JobState, made : 0..Attempts - 1, stalled : BOOLEAN]]
  /\ mem \in [Executions -> [pc : MemoryPC, at : Nat, tags : SUBSET Tags]]
  /\ \A e \in Executions : mem[e].pc \in AtNode => mem[e].at \in Nodes
  /\ cron \in [Runs -> [pc : CronPC, todo : SUBSET Contacts, cur : Executions \cup {0},
                        seen : configs, by : Backends \cup {None}, now : 0..MaxDay]]
  /\ ran \in [Backends -> 0..MaxDay \cup {Never}] /\ laps \in Nat
  /\ req \in [Clients -> [op : {"idle", "toggle", "delete"}, seen : AutomationStatus]]
  /\ handed \in [Executions -> [Nodes -> Nat]] /\ charged \in [Executions -> [Nodes -> Nat]]
  /\ late \in [Executions -> Nat]

ImportTypeOK ==
  LET tallies == [success : Nat, duplicates : Nat, errors : Nat] IN
  /\ imp \in [Files -> [st : ImportJob, made : 0..Attempts, stalled : BOOLEAN, pc : ImportPC,
                        pos : Nat, known : SUBSET UNION {KeysOf(c) : c \in Contacts},
                        tally : tallies]]
  /\ \A f \in Files : imp[f].pos <= Total(f)
  /\ reports \in [Files -> Seq(tallies)]

DeliveryTypeOK ==
  /\ send \in [Contacts -> SendStatus]
  /\ opened \subseteq Contacts /\ clicked \subseteq Contacts
  /\ counts \in [sent : Nat, opened : Nat, clicked : Nat, failed : Nat]
  /\ cards \in Nat
  /\ lane \in [Lanes -> [at : LaneAt, src : {m.src : m \in Messages} \cup {"none"},
                         kind : {m.kind : m \in Messages} \cup {"none"},
                         contact : Contacts, seen : SendStatus]]

BookTypeOK ==
  /\ form \in [Callers -> [op : FormOp, at : FormAt, contact : Contacts, tags : SUBSET Tags,
                           added : SUBSET Tags, hit : BOOLEAN]]
  /\ recalc \in [adds : Nat, waiting : Nat, again : Nat]
  /\ counting \in [Backends -> [pc : CountPC, n : 0..Cardinality(Contacts), again : BOOLEAN]]
  /\ segment \in 0..Cardinality(Contacts)

ApiTypeOK ==
  /\ apiKeys \in [Keys -> KeyStatus]
  /\ call \in [Callers -> [at : CallAt, key : Keys \cup {None}, todo : 0..MaxTo, took : 0..MaxTo]]
  /\ apiTried \in Nat /\ apiPaid \in Nat

VisaTypeOK ==
  /\ visa \in [Callers -> VisaSteps]
  /\ purchases \in [taken : Nat, bought : Nat, waiting : Nat, confirmed : Nat]

(* Every variable holds a value of its kind: a worker that sends, pays or
   counts is at a node that the workflow has, whatever the nodes and edges name;
   a job never runs once more than it may; no row is read after a file's last. *)
EngagementTypeOK ==
  /\ StoreTypeOK
  /\ AutomationsTypeOK /\ ImportTypeOK /\ DeliveryTypeOK
  /\ BookTypeOK /\ ApiTypeOK /\ VisaTypeOK

-----------------------------------------------------------------------------
(* Automations *)

(* What may come after a node.  A wait at the end of a workflow stores null, and
   a job that is run again then starts over. *)
Steps == Nodes \ {0}
Follows(n) ==
  Steps \cap
    CASE Node(n).type = "condition" -> {NextTrue(n), NextFalse(n)}
      [] Node(n).type = "wait" -> {Or(Next1(n), StartNode)}
      [] Node(n).type = "end" -> {}
      [] OTHER -> {Next1(n)}

(* Some nodes follow each other around. *)
Cyclic == \E S \in SUBSET Steps : S # {} /\ \A n \in S : Follows(n) \cap S # {}

(* What an execution that is at p may come to: what every set contains that has
   p and what follows its nodes.  Without a workflow there is one message. *)
Ahead(p) ==
  IF ~Flow.isFlow THEN {0}
  ELSE {n \in Steps : p \in Steps /\ \A S \in SUBSET Steps :
                         p \in S /\ (\A m \in S : Follows(m) \subseteq S) => n \in S}

(* However often the job of an execution is run again, each failure repeats at
   most one message of its workflow, unless that is one that comes back to where
   it was.  A message is paid for at most as often as it went out. *)
Repeated(e) == SumFunction([n \in Nodes |-> Max({0, handed[e][n] - 1})])
MessagesBounded ==
  \A e \in Executions :
    /\ Repeated(e) > Failures => Flow.isFlow /\ Cyclic
    /\ \A n \in Nodes : charged[e][n] <= handed[e][n]

(* A Completed execution of a workflow without conditions left no message out
   that the start leads to: what is stored before a node is executed never makes
   a later run skip one. *)
LeftOut(e) == {n \in Steps : Node(n).type = "action" /\ handed[e][n] = 0}
CompletedMeansDelivered ==
  \A e \in Executions :
    exec[e].st = "Completed" =>
      IF Flow.isFlow
        THEN \A n \in LeftOut(e) :
               n \in Ahead(StartNode) => \E m \in Steps : Node(m).type = "condition"
        ELSE handed[e][0] > 0

(* After an automation is deleted an execution under way sends at most the
   message it was about to send, whatever follows in its workflow, and however
   often BullMQ runs its job again. *)
DeletedStops == \A e \in Executions : late[e] <= 1

(* The subsystem does what ExecutionPromise says and nothing else to executions
   and their messages: one that ended sends nothing more and is not taken up
   again, although BullMQ may run its job again and each node writes that it is
   Running. *)
Outcomes == [e \in Executions |-> exec[e].st]
SentBy == [e \in Executions |-> SumFunction(handed[e])]
Parted == {e \in Executions : late[e] > 0}
Executing == INSTANCE ExecutionPromise WITH
  outcome <- Outcomes, sent <- SentBy, deleted <- (status = "gone"), parted <- Parted
KeepsExecutionPromise == Executing!Spec

(* How many executions a contact got. *)
Fires(c) ==
  Cardinality({e \in Executions :
    /\ exec[e].contact = c
    /\ exec[e].st # "none" \/ mem[e].pc # "idle"})

(* An automation with a date reaches each contact once per backend process and
   date, one for every day once per process and day, unless a client starts it
   by hand.  A run that fails half way is repeated; and an automation with a date
   reaches everyone once more for each run that begins while one of its process
   is under way, since the mark comes last.  The mark is only left when every
   contact of the account has an execution, but for those that opted out, whom
   only automations with a date write to. *)
Overtaken == IF world.trigger = "date_based" THEN laps ELSE 0
Passes == IF world.trigger = "date_based" THEN 1 + world.requests - left.requests ELSE day + 1
FiresOnce ==
  world.trigger \in Daily \cup {"date_based"} =>
    /\ "trigger" \notin world.operations =>
         \A c \in Contacts :
           Fires(c) <= Cardinality(Backends) * Passes + Failures + Overtaken
    /\ world.trigger = "date_based" \/ "optIn" \notin world.operations =>
         \A c \in world.present :
           config.fired # Never => Fires(c) > 0 \/ (world.trigger # "date_based" /\ optOut[c])

(* An execution of a workflow without waits and retries ends: Completed, or
   Failed after three attempts.  When calls throw it may also stay behind
   without a job, or with a job that failed. *)
Straight ==
  Flow.isFlow =>
    \A n \in Nodes \ {0} :
      Node(n).type # "wait" /\ (Node(n).type = "action" => Retries(n) = 1)
Ended(e) ==
  \/ exec[e].st # "Running"
  \/ Failures > 0 /\ job[e].st \in {"none", "failed"}
ExecutionsEnd == Straight ~> \A e \in Executions : Ended(e)

(* Neither a wait node nor a retry loses the execution: while it is Running
   and nothing failed, there is a job for it (automations.service.ts:1010
   "schedule continuation after delaySeconds"). *)
ContinuationIsScheduled ==
  \A e \in Executions :
    exec[e].st = "Running" /\ Failures = 0 =>
      \/ job[e].st # "none"
      \/ mem[e].pc = "add" \/ \E k \in Runs : cron[k].cur = e

-----------------------------------------------------------------------------
(* Import *)

(* A contact is new once: two files with the same contacts, and the second
   attempt of a file, start no automation again. *)
WelcomedOnce ==
  world.trigger = "contact_added" =>
    \A c \in Contacts :
      Fires(c) + Cardinality({i \in DOMAIN events : events[i] = Event("contact_added", c)})
        <= 1 + world.requests - left.requests

(* A report accounts for every row of its file.  No contact is counted as new
   by two rows, of whatever files; and unless a call threw every valid row of
   a reported file has its contact, or one with the same address or number. *)
Reports == UNION {{f} \X DOMAIN reports[f] : f \in Files}
NewReported == SumFunction([r \in Reports |-> reports[r[1]][r[2]].success])
ImportAccounted ==
  /\ \A f \in Files : \A i \in DOMAIN reports[f] :
       LET r == reports[f][i] IN r.success + r.duplicates + r.errors = Total(f)
  /\ NewReported <= Cardinality(present \ world.present)
  /\ \A f \in Files :
       reports[f] # <<>> /\ world.faults = left.faults =>
         \A i \in DOMAIN Rows(f) : Rows(f)[i].contact # None => Taken(Rows(f)[i].contact)

-----------------------------------------------------------------------------
(* Delivery events *)

InFlight(kind) == Cardinality({d \in Lanes : lane[d].at = "count" /\ lane[d].kind = kind})

(* Resend may repeat an event, and repeat it at the same time: each send is
   counted as opened and as clicked once, and missed only when a handler died. *)
Missed == Cardinality(opened) - counts.opened - InFlight("open")
MissedClicks == Cardinality(clicked) - counts.clicked - InFlight("click")
ResendOnly == \A m \in world.messages : m.src \in {"resend", "sms", "card"}
CountedOnce ==
  ResendOnly =>
    /\ Missed >= 0 /\ MissedClicks >= 0
    /\ Missed + MissedClicks <= Failures

(* receiveWebhook and the links count an event that is repeated again.  But
   whatever the source, however statuses were overwritten meanwhile, a counter
   is below the number of sends that are opened, or clicked, by no more than the
   handlers that failed and those that have yet to count; and nothing is counted
   that did not arrive.  (It is a sum: where events are counted twice, a send
   counted once too often may make up for one that is missed.) *)
Arrived == world.deliveries - left.deliveries
EventsCounted ==
  /\ Missed <= Failures /\ MissedClicks <= Failures
  /\ counts.opened + InFlight("open") + counts.clicked + InFlight("click") <= Arrived

(* A send that is UNSUBSCRIBED belongs to a contact that withdrew consent,
   even when the webhook is cut short between its two writes: the row is never
   marked first.  (Unless consent is given again by a request.) *)
UnsubscribedIsOptedOut ==
  "optIn" \notin world.operations =>
    \A c \in Contacts : send[c] = "UNSUBSCRIBED" => optOut[c]

(* The credit is what it was, plus the card payments that are Validated, minus
   the messages paid for, those of the API included: no interleaving of debits
   and payments loses one.  A payment is missing only between its row and its
   credit, or when a failure came between the two. *)
Paid(e) == SumFunction(charged[e])
VisaAt(at) == Cardinality({a \in Callers : visa[a] = at})
BooksBalance ==
  LET missing == world.credit + CardAmount * (cards + purchases.bought)
                 - UnitCost * SumFunction([e \in Executions |-> Paid(e)]) - ApiCost * apiPaid
                 - balance IN
  /\ missing >= CardAmount * VisaAt("credit")
  /\ missing <= CardAmount * (VisaAt("credit") + Failures)

(* Nothing is booked that the provider does not have the money of, and what it
   has is booked, unless a failure came in between, or the payer's bank was
   asked first: those payments are never booked. *)
Unbooked == purchases.taken - purchases.bought - VisaAt("record")
PurchasesBooked ==
  /\ Unbooked >= purchases.confirmed
  /\ Unbooked <= purchases.confirmed + Failures

-----------------------------------------------------------------------------
(* The contact book *)

(* Only the requests of the contact book add a recalculation after a write. *)
BookOnly ==
  /\ DOMAIN world.files = {} /\ world.messages = {}
  /\ \A n \in Nodes \ {0} : Node(n).type # "tag"

(* With one worker and no failure, a segment whose recalculations are all done
   counts the contacts that match it: no write falls between a count and the
   next job.  (Two workers may write their counts in the wrong order.) *)
OneCounter == \A b, d \in Backends : b = d
SegmentCountFresh ==
  (/\ BookOnly /\ OneCounter /\ Failures = 0
   /\ recalc.adds + recalc.waiting = 0
   /\ \A b \in Backends : counting[b].pc = "idle")
    => segment = Cardinality(Matching)

-----------------------------------------------------------------------------
(* API keys and the public API *)

(* However many requests count at the same time, an account has at most one key
   too many for each of them but one. *)
KeysBounded ==
  Cardinality(InUse) + Cardinality({a \in Callers : call[a].at = "create"})
    <= MaxKeys - 1 + Cardinality(Callers)

(* The credit goes below zero only by what calls of the API that overlap may
   cost, and not at all as long as the API charged nothing. *)
Sending == {a \in Callers : call[a].at = "send"}
OverdraftBounded ==
  /\ balance >= -(ApiCost * MaxTo * (Cardinality(Callers) - Cardinality(Sending)))
  /\ apiPaid = 0 => balance >= 0

(* A number that a call of the API handed to a provider is paid for once, or its
   call is still going on, or failed, however calls overlap: no message goes out
   free of charge otherwise.  (One that the provider refused is paid for as well.) *)
Taking == SumFunction([a \in Callers |-> call[a].took])
ApiMessagesPaid ==
  /\ apiPaid + Taking <= apiTried
  /\ apiTried - apiPaid - Taking <= MaxTo * Failures

=============================================================================
