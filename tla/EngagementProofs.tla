---------------------------- MODULE EngagementProofs ----------------------------
(***************************************************************************)
(* For any accounts, contacts, files, messages, workers and failures: what *)
(* the parts of Engagement leave to each other, and from it what holds of  *)
(* the API keys, of the credit that calls of the API overdraw, of consent, *)
(* of the executions of an automation that is deleted, of payments by      *)
(* card, of what is counted of openings and clicks, and of the cached      *)
(* count of a segment.                                                     *)
(***************************************************************************)
EXTENDS EngagementProperties, FiniteSetTheorems, TLAPS

-----------------------------------------------------------------------------
(* What each part leaves alone *)

(* Automations write tags, take from the credit what it has, and take events;
   everything else of the others they only read. *)
LEMMA AutomationsFrame ==
  AutomationsNext =>
    /\ UNCHANGED <<others, world, present, optOut, analytic, day>>
    /\ \/ UNCHANGED balance
       \/ balance >= UnitCost /\ balance' = balance - UnitCost
<1> DEFINE Frame == /\ UNCHANGED <<others, world, present, optOut, analytic, day>>
                    /\ \/ UNCHANGED balance
                       \/ balance >= UnitCost /\ balance' = balance - UnitCost
<1>1. ASSUME NEW e \in Executions, NEW i \in DOMAIN events, Listen(e, i) PROVE Frame
  BY <1>1 DEF Listen
<1>2. ASSUME NEW e \in Executions, NEW c \in Contacts, Trigger(e, c) PROVE Frame
  BY <1>2 DEF Trigger
<1>3. ASSUME NEW e \in Executions, CreateRow(e) \/ AddJob(e) \/ FiringDies(e) PROVE Frame
  BY <1>3 DEF CreateRow, AddJob, FiringDies
<1>4. ASSUME NEW e \in Executions, TakeJob(e) \/ WorkerDies(e) PROVE Frame
  BY <1>4 DEF TakeJob, WorkerDies, store
<1>5. ASSUME NEW e \in Executions, WorkerStep(e) PROVE Frame
  <2>1. CASE Pay(e)
    BY <2>1 DEF Pay, Debit, Elsewhere
  <2>2. CASE Load(e) \/ Enter(e) \/ Send(e) \/ RecordNode(e) \/ RecordMessage(e)
    BY <2>2 DEF Load, Enter, Send, RecordNode, RecordMessage, Elsewhere
  <2>3. CASE ScheduleRetry(e) \/ Requeue(e) \/ TagContact(e) \/ Branch(e) \/ Wait(e)
    BY <2>3 DEF ScheduleRetry, Requeue, TagContact, Branch, Wait, Elsewhere
  <2>4. CASE Finish(e) \/ Return(e) \/ Throw(e) \/ MarkFailed(e)
    BY <2>4 DEF Finish, Return, Throw, MarkFailed, Elsewhere, store
  <2> QED BY <1>5, <2>1, <2>2, <2>3, <2>4 DEF WorkerStep
<1>6. ASSUME NEW k \in Runs, CronFires(k) \/ CronStep(k) \/ CronDies(k) PROVE Frame
  BY <1>6 DEF CronFires, CronStep, CronCreates, CronAdds, CronMarks, CronDies, store
<1>7. ASSUME NEW r \in Clients, Toggle(r) \/ Delete(r) \/ RequestStep(r) PROVE Frame
  BY <1>7 DEF Toggle, Delete, Ask, RequestStep, WriteToggle, WriteDelete, store
<1>8. ASSUME NEW d \in 0..MaxDay, SetDate(d) PROVE Frame
  BY <1>8 DEF SetDate
<1> HIDE DEF Frame
<1>9. AutomationsNext => Frame
  BY <1>1, <1>2, <1>3, <1>4, <1>5, <1>6, <1>7, <1>8 DEF AutomationsNext
<1> QED BY <1>9 DEF Frame

(* Imports write contacts, tags and events. *)
LEMMA ImportFrame == ImportNext => UNCHANGED Apart
  BY DEF ImportNext, TakeFile, ImportStep, ReadBatch, InvalidRow, DuplicateRow, NewRow,
         GenerateReport, ImportEnds, ImportThrows, ImportDies

(* Webhooks and links write consent, openings and events; only the webhook of
   card payments touches the credit, and adds to it. *)
LEMMA DeliveryFrame ==
  DeliveryNext =>
    /\ UNCHANGED Beside
    /\ balance' \in {balance, balance + CardAmount}
<1> DEFINE Frame == UNCHANGED Beside /\ balance' \in {balance, balance + CardAmount}
<1>1. ASSUME NEW m \in world.messages, ReceiveCard(m) PROVE Frame
  BY <1>1 DEF ReceiveCard
<1>2. ASSUME NEW m \in world.messages, NEW d \in Lanes, NEW c \in Contacts, Receive(d, m, c) PROVE Frame
  BY <1>2 DEF Receive
<1>3. ASSUME NEW d \in Lanes, LaneStep(d) PROVE Frame
  <2>1. CASE EmailWrite(d) \/ BouncedOptOut(d) \/ ResendOpen(d) \/ ResendClick(d) \/ ResendBounce(d)
    BY <2>1 DEF EmailWrite, BouncedOptOut, ResendOpen, ResendClick, ResendBounce
  <2>2. CASE ResendUnsubscribe(d) \/ ResendMark(d) \/ Count(d) \/ Log(d)
    BY <2>2 DEF ResendUnsubscribe, ResendMark, Count, Log
  <2>3. CASE Sms(d) \/ TrackOpen(d) \/ TrackClick(d) \/ TrackUnsubscribe(d)
    BY <2>3 DEF Sms, TrackOpen, TrackClick, TrackUnsubscribe
  <2> QED BY <1>3, <2>1, <2>2, <2>3 DEF LaneStep
<1>4. ASSUME NEW d \in Lanes, LaneFails(d) PROVE Frame
  BY <1>4 DEF LaneFails
<1> HIDE DEF Frame
<1>5. DeliveryNext => Frame
  BY <1>1, <1>2, <1>3, <1>4 DEF DeliveryNext
<1> QED BY <1>5 DEF Frame

(* Requests on contacts, and the recalculations they ask for. *)
LEMMA BookFrame == BookNext => UNCHANGED Around
<1>1. ASSUME NEW a \in Callers, FormStep(a) \/ FormFails(a) PROVE UNCHANGED Around
  BY <1>1 DEF FormStep, FormFails, CreateContact, UpdateContact, OptOut, Announce, MatchNext,
              MatchBefore
<1>2. ASSUME NEW a \in Callers, NEW op, NEW c, NEW T, AskContact(a, op, c, T)
      PROVE UNCHANGED Around
  BY <1>2 DEF AskContact
<1>3. ASSUME NEW b \in Backends, CountStep(b) \/ CountThrows(b) \/ CountDies(b)
      PROVE UNCHANGED Around
  BY <1>3 DEF CountStep, CountThrows, CountDies, TakeRecalculation, CountMatching, WriteCount
<1>4. CASE JobArrives \/ JobIsLost
  BY <1>4 DEF JobArrives, JobIsLost
<1> QED BY <1>1, <1>2, <1>3, <1>4 DEF BookNext

(* Requests on keys and calls of the API. *)
LEMMA ApiFrame == ApiNext => UNCHANGED Aside
<1>1. ASSUME NEW a \in Callers, AskKey(a) \/ CallStep(a) \/ CallFails(a) PROVE UNCHANGED Aside
  BY <1>1 DEF AskKey, CallStep, CallFails, CreateKey, RevokeKey, CheckBalance, SendNext, Charge
<1>2. ASSUME NEW a \in Callers, NEW k \in Keys, AskRevoke(a, k) PROVE UNCHANGED Aside
  BY <1>2 DEF AskRevoke
<1>3. ASSUME NEW a \in Callers, NEW k \in Keys, NEW n \in 1..MaxTo, CallSms(a, k, n)
      PROVE UNCHANGED Aside
  BY <1>3 DEF CallSms
<1> QED BY <1>1, <1>2, <1>3 DEF ApiNext

(* Payments by card add to the credit, and touch nothing else. *)
LEMMA VisaFrame == VisaNext => UNCHANGED Away /\ balance' \in {balance, balance + CardAmount}
<1> DEFINE Frame == UNCHANGED Away /\ balance' \in {balance, balance + CardAmount}
<1>1. ASSUME NEW a \in Callers, AskVisa(a) \/ VisaStep(a) \/ VisaFails(a) PROVE Frame
  BY <1>1 DEF AskVisa, VisaStep, VisaFails, ChargeCard, RecordPayment, CreditPayment, Invoice
<1>2. CASE BankConfirms
  BY <1>2 DEF BankConfirms
<1> QED BY <1>1, <1>2 DEF VisaNext

-----------------------------------------------------------------------------
(* Failures are counted *)

(* A step uses up at most one of the bounds of its world. *)
Spends == UNCHANGED left \/ Fault \/ Crash \/ Request \/ Delivery

(* Automations, with their crons and the requests on them. *)
LEMMA AutomationsSpend == AutomationsNext => Spends
<1>1. ASSUME NEW e \in Executions, NEW i \in DOMAIN events, Listen(e, i) PROVE Spends
  BY <1>1 DEF Listen, Spends
<1>2. ASSUME NEW e \in Executions, NEW c \in Contacts, Trigger(e, c) PROVE Spends
  BY <1>2 DEF Trigger, Spends
<1>3. ASSUME NEW e \in Executions, CreateRow(e) \/ AddJob(e) \/ FiringDies(e) PROVE Spends
  BY <1>3 DEF CreateRow, AddJob, FiringDies, Spends
<1>4. ASSUME NEW e \in Executions, TakeJob(e) \/ WorkerDies(e) PROVE Spends
  BY <1>4 DEF TakeJob, WorkerDies, store, Spends
<1>5. ASSUME NEW e \in Executions, WorkerStep(e) PROVE Spends
  <2>1. CASE Pay(e) \/ Load(e) \/ Enter(e)
    BY <2>1 DEF Pay, Load, Enter, Spends
  <2>2. CASE Send(e)
    BY <2>2 DEF Send, Spends
  <2>3. CASE RecordNode(e) \/ RecordMessage(e) \/ ScheduleRetry(e) \/ Requeue(e)
    BY <2>3 DEF RecordNode, RecordMessage, ScheduleRetry, Requeue, Spends
  <2>4. CASE TagContact(e) \/ Branch(e) \/ Wait(e)
    BY <2>4 DEF TagContact, Branch, Wait, Spends
  <2>5. CASE Finish(e) \/ Return(e) \/ Throw(e) \/ MarkFailed(e)
    BY <2>5 DEF Finish, Return, Throw, MarkFailed, store, Spends
  <2> QED BY <1>5, <2>1, <2>2, <2>3, <2>4, <2>5 DEF WorkerStep
<1>6. ASSUME NEW k \in Runs, CronFires(k) \/ CronStep(k) \/ CronDies(k) PROVE Spends
  BY <1>6 DEF CronFires, CronStep, CronCreates, CronAdds, CronMarks, CronDies, store, Spends
<1>7. ASSUME NEW r \in Clients, Toggle(r) \/ Delete(r) \/ RequestStep(r) PROVE Spends
  BY <1>7 DEF Toggle, Delete, Ask, RequestStep, WriteToggle, WriteDelete, store, Spends
<1>8. ASSUME NEW d \in 0..MaxDay, SetDate(d) PROVE Spends
  BY <1>8 DEF SetDate, Spends
<1> QED BY <1>1, <1>2, <1>3, <1>4, <1>5, <1>6, <1>7, <1>8 DEF AutomationsNext

(* Imports. *)
LEMMA ImportSpends == ImportNext => Spends
  BY DEF ImportNext, TakeFile, ImportStep, ReadBatch, InvalidRow, DuplicateRow, NewRow,
         GenerateReport, ImportEnds, ImportThrows, ImportDies, Spends

(* Webhooks and links. *)
LEMMA DeliverySpends == DeliveryNext => Spends
<1>1. ASSUME NEW m \in world.messages, ReceiveCard(m) PROVE Spends
  BY <1>1 DEF ReceiveCard, Spends
<1>2. ASSUME NEW m \in world.messages, NEW d \in Lanes, NEW c \in Contacts, Receive(d, m, c) PROVE Spends
  BY <1>2 DEF Receive, Spends
<1>3. ASSUME NEW d \in Lanes, LaneStep(d) PROVE Spends
  <2>1. CASE EmailWrite(d) \/ BouncedOptOut(d) \/ ResendOpen(d) \/ ResendClick(d) \/ ResendBounce(d)
    BY <2>1 DEF EmailWrite, BouncedOptOut, ResendOpen, ResendClick, ResendBounce, Spends
  <2>2. CASE ResendUnsubscribe(d) \/ ResendMark(d) \/ Count(d) \/ Log(d)
    BY <2>2 DEF ResendUnsubscribe, ResendMark, Count, Log, Spends
  <2>3. CASE Sms(d) \/ TrackOpen(d) \/ TrackClick(d) \/ TrackUnsubscribe(d)
    BY <2>3 DEF Sms, TrackOpen, TrackClick, TrackUnsubscribe, Spends
  <2> QED BY <1>3, <2>1, <2>2, <2>3 DEF LaneStep
<1>4. ASSUME NEW d \in Lanes, LaneFails(d) PROVE Spends
  BY <1>4 DEF LaneFails, Spends
<1> QED BY <1>1, <1>2, <1>3, <1>4 DEF DeliveryNext

(* Requests on contacts, and recalculations. *)
LEMMA BookSpends == BookNext => Spends
<1>1. ASSUME NEW a \in Callers, FormStep(a) \/ FormFails(a) PROVE Spends
  <2>1. CASE CreateContact(a) \/ UpdateContact(a) \/ OptOut(a) \/ Announce(a)
    BY <2>1 DEF CreateContact, UpdateContact, OptOut, Announce, Spends
  <2>2. CASE MatchNext(a) \/ MatchBefore(a)
    <3>1. \E found \in BOOLEAN : Found(form[a].contact, found)
      BY <2>2 DEF MatchNext, MatchBefore
    <3> QED BY <3>1 DEF Found, Spends
  <2>3. CASE FormFails(a)
    BY <2>3 DEF FormFails, Spends
  <2> QED BY <1>1, <2>1, <2>2, <2>3 DEF FormStep
<1>2. ASSUME NEW a \in Callers, NEW op, NEW c, NEW T, AskContact(a, op, c, T) PROVE Spends
  BY <1>2 DEF AskContact, Spends
<1>3. ASSUME NEW b \in Backends, CountStep(b) \/ CountThrows(b) \/ CountDies(b) PROVE Spends
  BY <1>3 DEF CountStep, CountThrows, CountDies, TakeRecalculation, CountMatching, WriteCount, Spends
<1>4. CASE JobArrives \/ JobIsLost
  BY <1>4 DEF JobArrives, JobIsLost, Spends
<1> QED BY <1>1, <1>2, <1>3, <1>4 DEF BookNext

(* Requests on keys, and calls of the API. *)
LEMMA ApiSpends == ApiNext => Spends
<1>1. ASSUME NEW a \in Callers, AskKey(a) \/ CallStep(a) \/ CallFails(a) PROVE Spends
  BY <1>1 DEF AskKey, CallStep, CallFails, CreateKey, RevokeKey, CheckBalance, SendNext, Charge,
              Spends
<1>2. ASSUME NEW a \in Callers, NEW k \in Keys, AskRevoke(a, k) PROVE Spends
  BY <1>2 DEF AskRevoke, Spends
<1>3. ASSUME NEW a \in Callers, NEW k \in Keys, NEW n \in 1..MaxTo, CallSms(a, k, n)
      PROVE Spends
  BY <1>3 DEF CallSms, Spends
<1> QED BY <1>1, <1>2, <1>3 DEF ApiNext

(* Payments by card. *)
LEMMA VisaSpends == VisaNext => Spends
  BY DEF VisaNext, BankConfirms, AskVisa, VisaStep, VisaFails, ChargeCard, RecordPayment,
         CreditPayment, Invoice, Spends

(* What is left of the bounds. *)
Bounds ==
  /\ world \in Worlds
  /\ left \in [faults : Nat, crashes : Nat, requests : Nat, deliveries : Nat]

(* Failures are counted. *)
LEMMA FailuresAreInt == Bounds => Failures \in Int
<1> SUFFICES ASSUME Bounds PROVE Failures \in Int
  OBVIOUS
<1>1. world.faults \in Nat /\ world.crashes \in Nat
  BY StoreAssumption DEF Bounds
<1>2. left.faults \in Nat /\ left.crashes \in Nat
  BY DEF Bounds
<1> QED BY <1>1, <1>2 DEF Failures

(* The count of failures is a number, and using up a bound never lowers it. *)
LEMMA FailuresGrow ==
  ASSUME Bounds, UNCHANGED world, Spends
  PROVE  /\ Bounds' /\ Failures \in Int /\ Failures' \in Int /\ Failures' >= Failures
         /\ Fault \/ Crash => Failures' = Failures + 1
<1>1. world.faults \in Nat /\ world.crashes \in Nat
  BY StoreAssumption DEF Bounds
<1>2. /\ left' \in [faults : Nat, crashes : Nat, requests : Nat, deliveries : Nat]
      /\ left'.faults + left'.crashes <= left.faults + left.crashes
      /\ Fault \/ Crash => left'.faults + left'.crashes = left.faults + left.crashes - 1
  BY DEF Bounds, Spends, Fault, Crash, Request, Delivery
<1>3. {left.faults, left.crashes, left'.faults, left'.crashes} \subseteq Nat
  BY <1>2 DEF Bounds
<1> QED BY <1>1, <1>2, <1>3 DEF Bounds, Failures

-----------------------------------------------------------------------------
(* API keys and the credit *)

(* What a call remembers; its numbers are those it was given, or less. *)
CallSteps == {"idle", "create", "revoke", "balance", "send"}
CallRecord ==
  [at : CallSteps, key : Keys \cup {None},
   todo : 0..MaxTo, took : 0..MaxTo]
ApiTypes ==
  /\ apiKeys \in [Keys -> KeyStatus]
  /\ call \in [Callers -> CallRecord]
  /\ \A a \in Callers : call[a].todo + call[a].took <= MaxTo
  /\ apiTried \in Nat /\ apiPaid \in Nat
  /\ balance \in Int

(* How many callers are at a step of what f remembers. *)
AtStep(f, p) == Cardinality({x \in Callers : f[x].at = p})

(* One of them, a, goes on and remembers r: f becomes g. *)
OneGoes(f, g, a, r, p) ==
  /\ AtStep(f, p) \in 0..Cardinality(Callers)
  /\ AtStep(g, p) \in 0..Cardinality(Callers)
  /\ r.at = p /\ f[a].at # p => AtStep(g, p) = AtStep(f, p) + 1
  /\ r.at # p /\ f[a].at = p => AtStep(g, p) = AtStep(f, p) - 1
  /\ (r.at = p) = (f[a].at = p) => AtStep(g, p) = AtStep(f, p)

(* Callers at a place are counted one by one. *)
LEMMA CallersAt ==
  ASSUME NEW f \in [Callers -> CallRecord], NEW g \in [Callers -> CallRecord],
         NEW a \in Callers, NEW r \in CallRecord, NEW p \in CallSteps, g = [f EXCEPT ![a] = r]
  PROVE  OneGoes(f, g, a, r, p)
<1> DEFINE before == {x \in Callers : f[x].at = p}
           after == {x \in Callers : g[x].at = p}
           rest == {x \in Callers \ {a} : f[x].at = p}
<1>1. IsFiniteSet(rest) /\ IsFiniteSet(before) /\ IsFiniteSet(after)
  BY StoreAssumption, FS_Subset
<1>2. /\ before = IF f[a].at = p THEN rest \cup {a} ELSE rest
      /\ after = IF r.at = p THEN rest \cup {a} ELSE rest
      /\ a \notin rest
  OBVIOUS
<1>3. /\ Cardinality(rest \cup {a}) = Cardinality(rest) + 1
      /\ Cardinality(rest) \in Nat /\ Cardinality(Callers) \in Nat
  BY <1>1, <1>2, FS_AddElement, FS_CardinalityType, StoreAssumption
<1>4. Cardinality(before) <= Cardinality(Callers) /\ Cardinality(after) <= Cardinality(Callers)
  BY StoreAssumption, FS_Subset
<1> HIDE DEF before, after, rest
<1>5. /\ r.at = p /\ f[a].at # p => Cardinality(after) = Cardinality(before) + 1
      /\ r.at # p /\ f[a].at = p => Cardinality(after) = Cardinality(before) - 1
      /\ (r.at = p) = (f[a].at = p) => Cardinality(after) = Cardinality(before)
  BY <1>2, <1>3
<1>6. Cardinality(before) \in Nat /\ Cardinality(after) \in Nat
  BY <1>2, <1>3
<1>7. /\ Cardinality(before) \in 0..Cardinality(Callers)
      /\ Cardinality(after) \in 0..Cardinality(Callers)
  BY <1>3, <1>4, <1>6
<1> QED BY <1>5, <1>7 DEF before, after, AtStep, OneGoes

(* The same for one place: a caller that goes on enters or leaves it once. *)
LEMMA CallerGoes ==
  ASSUME call \in [Callers -> CallRecord], NEW a \in Callers, NEW r \in CallRecord,
         call' = [call EXCEPT ![a] = r], NEW p \in CallSteps
  PROVE  OneGoes(call, call', a, r, p)
<1>1. call' \in [Callers -> CallRecord]
  OBVIOUS
<1> QED BY <1>1, CallersAt

(* One key more, or one less. *)
LEMMA KeysInUse ==
  ASSUME NEW f \in [Keys -> KeyStatus], NEW k \in Keys, NEW st \in KeyStatus
  PROVE  LET before == {x \in Keys : f[x] = "active"}
             after == {x \in Keys : [f EXCEPT ![k] = st][x] = "active"} IN
         /\ Cardinality(before) \in Nat /\ Cardinality(after) \in Nat
         /\ Cardinality(after) <= Cardinality(before) + 1
         /\ st # "active" => Cardinality(after) <= Cardinality(before)
<1> DEFINE before == {x \in Keys : f[x] = "active"}
           after == {x \in Keys : [f EXCEPT ![k] = st][x] = "active"}
<1>1. IsFiniteSet(before) /\ IsFiniteSet(after) /\ IsFiniteSet(before \cup {k})
  BY StoreAssumption, FS_Subset, FS_AddElement
<1>2. after \subseteq before \cup {k} /\ (st # "active" => after \subseteq before)
  OBVIOUS
<1>3. /\ Cardinality(before) \in Nat /\ Cardinality(after) \in Nat
      /\ Cardinality(before \cup {k}) <= Cardinality(before) + 1
  <2> HIDE DEF before, after
  <2>1. Cardinality(before) \in Nat /\ Cardinality(after) \in Nat
    BY <1>1, FS_CardinalityType
  <2>2. Cardinality(before \cup {k}) \in {Cardinality(before), Cardinality(before) + 1}
    BY <1>1, FS_AddElement
  <2> QED BY <2>1, <2>2
<1>4. /\ Cardinality(after) <= Cardinality(before \cup {k})
      /\ st # "active" => Cardinality(after) <= Cardinality(before)
  BY <1>1, <1>2, FS_Subset
<1>5. Cardinality(before \cup {k}) \in Nat
  BY <1>1, FS_CardinalityType
<1> HIDE DEF before, after
<1>6. Cardinality(after) <= Cardinality(before) + 1
  BY <1>3, <1>4, <1>5
<1> QED BY <1>3, <1>4, <1>6 DEF before, after

ApiInv == ApiTypes /\ KeysBounded /\ OverdraftBounded

(* What overlapping calls may cost grows with each that does not send yet. *)
LEMMA Costs ==
  ASSUME NEW c \in Nat, NEW m \in Nat
  PROVE  /\ c * m \in Nat
         /\ \A n \in 0..m : c * n \in Nat /\ c * n <= c * m
         /\ \A n \in Nat : c * m * n \in Nat /\ c * m * (n + 1) = c * m * n + c * m
<1>1. c * m \in Nat
  OBVIOUS
<1>2. \A n \in 0..m : c * n \in Nat /\ c * n <= c * m
  <2> TAKE n \in 0..m
  <2>1. c * m = c * n + c * (m - n) /\ m - n \in Nat
    OBVIOUS
  <2>2. c * (m - n) \in Nat /\ c * n \in Nat
    BY <2>1
  <2> QED BY <2>1, <2>2
<1>3. ASSUME NEW d \in Nat, NEW n \in Nat PROVE d * n \in Nat /\ d * (n + 1) = d * n + d
  OBVIOUS
<1> QED BY <1>1, <1>2, <1>3

(* A caller goes on.  It starts to make a key only while there is one left, and
   to send only while the credit is not overdrawn; a key more is the end of
   making one, credit less the end of sending. *)
LEMMA CallMoves ==
  ASSUME ApiInv, NEW a \in Callers, NEW r \in CallRecord, r.todo + r.took <= MaxTo,
         call' = [call EXCEPT ![a] = r],
         apiKeys' \in [Keys -> KeyStatus], balance' \in Int, apiPaid' \in Nat, apiTried' \in Nat,
         r.at = "create" => Cardinality(InUse) < MaxKeys,
         r.at = "send" => call[a].at = "send" \/ balance >= 0,
         \/ Cardinality(InUse') <= Cardinality(InUse)
         \/ call[a].at = "create" /\ r.at # "create" /\ Cardinality(InUse') <= Cardinality(InUse) + 1,
         \/ balance' = balance /\ apiPaid' = apiPaid
         \/ /\ call[a].at = "send" /\ r.at # "send" /\ balance' >= balance - ApiCost * MaxTo
            /\ apiPaid' = 0 => balance' >= 0
  PROVE  ApiInv'
<1>0. call \in [Callers -> CallRecord]
  BY DEF ApiInv, ApiTypes
<1>01. OneGoes(call, call', a, r, "create") /\ OneGoes(call, call', a, r, "send")
  <2>1. "create" \in CallSteps /\ "send" \in CallSteps
    BY DEF CallSteps
  <2> QED BY <1>0, <2>1, CallerGoes
<1> USE DEF ApiInv, ApiTypes
<1>1. ApiTypes'
  BY DEF CallRecord, CallSteps
<1>2. KeysBounded'
  <2> DEFINE before == AtStep(call, "create")
             after == AtStep(call', "create")
             keys == Cardinality(InUse)
             keysAfter == Cardinality(InUse')
  <2>1. /\ before \in Nat /\ after \in 0..Cardinality(Callers)
        /\ r.at # "create" /\ call[a].at = "create" => after = before - 1
        /\ r.at # "create" => after <= before
        /\ Cardinality(Callers) \in Nat
    <3>1. Cardinality(Callers) \in Nat
      BY FS_CardinalityType, StoreAssumption
    <3> HIDE DEF ApiInv, ApiTypes
    <3> QED BY <1>01, <3>1 DEF OneGoes
  <2>2. keys \in Nat /\ keysAfter \in Nat /\ MaxKeys \in Nat
    BY FS_Subset, FS_CardinalityType, StoreAssumption DEF InUse
  <2>3. keys + before <= MaxKeys - 1 + Cardinality(Callers)
    BY DEF KeysBounded, AtStep
  <2>4. /\ r.at = "create" => keys < MaxKeys
        /\ \/ keysAfter <= keys
           \/ call[a].at = "create" /\ r.at # "create" /\ keysAfter <= keys + 1
    OBVIOUS
  <2> HIDE DEF before, after, keys, keysAfter
  <2>5. keysAfter + after <= MaxKeys - 1 + Cardinality(Callers)
    BY <2>1, <2>2, <2>3, <2>4
  <2> QED BY <2>5 DEF KeysBounded, after, keysAfter, AtStep
<1>3. OverdraftBounded'
  <2> DEFINE before == AtStep(call, "send")
             after == AtStep(call', "send")
             n == Cardinality(Callers)
             D == ApiCost * MaxTo
  <2>1. /\ before \in 0..n /\ after \in 0..n /\ n \in Nat
        /\ r.at = "send" /\ call[a].at # "send" => after = before + 1
        /\ r.at # "send" /\ call[a].at = "send" => after = before - 1
        /\ (r.at = "send") = (call[a].at = "send") => after = before
    BY <1>01, FS_CardinalityType, StoreAssumption DEF OneGoes
  <2>2. balance >= -(D * (n - before)) /\ (apiPaid = 0 => balance >= 0)
    BY DEF OverdraftBounded, Sending, AtStep
  <2>3. D \in Nat /\ \A k \in Nat : D * k \in Nat /\ D * (k + 1) = D * k + D
    BY Costs, StoreAssumption
  <2>4. \/ balance' = balance /\ apiPaid' = apiPaid
        \/ /\ call[a].at = "send" /\ r.at # "send" /\ balance' >= balance - D
           /\ apiPaid' = 0 => balance' >= 0
    OBVIOUS
  <2> HIDE DEF before, after, n, D
  <2>5. balance' >= -(D * (n - after))
    <3>1. CASE after = before
      BY <3>1, <2>1, <2>2, <2>4
    <3>2. CASE after = before - 1
      <4>1. n - before \in Nat /\ n - after = (n - before) + 1
        BY <2>1, <3>2
      <4>2. D * (n - after) = D * (n - before) + D
        BY <4>1, <2>3
      <4> QED BY <4>1, <4>2, <2>2, <2>3, <2>4
    <3>3. CASE after = before + 1
      <4>1. balance' >= 0
        BY <2>1, <2>4, <3>3
      <4>2. n - after \in Nat
        BY <2>1
      <4> QED BY <4>1, <4>2, <2>3
    <3> QED BY <2>1, <3>1, <3>2, <3>3
  <2>6. apiPaid' = 0 => balance' >= 0
    BY <2>2, <2>4
  <2> QED BY <2>5, <2>6 DEF OverdraftBounded, Sending, after, n, D, AtStep
<1> QED BY <1>1, <1>2, <1>3

(* A caller that goes on without making a key or paying. *)
LEMMA CallOnly ==
  ASSUME ApiInv, NEW a \in Callers, NEW r \in CallRecord, r.todo + r.took <= MaxTo,
         call' = [call EXCEPT ![a] = r],
         UNCHANGED <<apiKeys, balance, apiPaid>>, apiTried' \in Nat,
         r.at = "create" => Cardinality(InUse) < MaxKeys,
         r.at = "send" => call[a].at = "send" \/ balance >= 0
  PROVE  ApiInv'
<1>1. /\ apiKeys' \in [Keys -> KeyStatus] /\ balance' \in Int /\ apiPaid' \in Nat
      /\ balance' = balance /\ apiPaid' = apiPaid
  BY DEF ApiInv, ApiTypes
<1>2. InUse' = InUse
  BY DEF InUse
<1>3. Cardinality(InUse) \in Nat
  BY FS_Subset, FS_CardinalityType, StoreAssumption DEF InUse
<1>4. Cardinality(InUse') <= Cardinality(InUse)
  BY <1>2, <1>3
<1> QED BY <1>1, <1>4, CallMoves

(* Requests on keys, and calls of the API. *)
LEMMA ApiStep == ApiInv /\ ApiNext => ApiInv'
<1> SUFFICES ASSUME ApiInv, ApiNext PROVE ApiInv'
  OBVIOUS
<1>0. /\ call \in [Callers -> CallRecord] /\ apiKeys \in [Keys -> KeyStatus]
      /\ \A a \in Callers : call[a] \in CallRecord /\ call[a].todo + call[a].took <= MaxTo
      /\ apiTried \in Nat /\ apiPaid \in Nat /\ balance \in Int
  BY DEF ApiInv, ApiTypes
<1>1. NoCall \in CallRecord /\ NoCall.at = "idle" /\ NoCall.todo + NoCall.took <= MaxTo
  BY StoreAssumption DEF NoCall, CallRecord, CallSteps
<1>2. ASSUME NEW a \in Callers, AskKey(a) PROVE ApiInv'
  <2> DEFINE r == [call[a] EXCEPT !.at = "create"]
  <2>1. r \in CallRecord /\ r.todo + r.took <= MaxTo /\ r.at = "create"
    BY <1>0 DEF CallRecord, CallSteps
  <2>2. call' = [call EXCEPT ![a] = r] /\ UNCHANGED <<apiKeys, balance, apiPaid>>
    BY <1>0, <1>2 DEF AskKey, CallGoes
  <2>3. Cardinality(InUse) < MaxKeys /\ apiTried' \in Nat
    BY <1>0, <1>2 DEF AskKey
  <2> HIDE DEF r
  <2> QED BY <2>1, <2>2, <2>3, CallOnly
<1>3. ASSUME NEW a \in Callers, NEW k \in Keys, AskRevoke(a, k) PROVE ApiInv'
  <2> DEFINE r == [call[a] EXCEPT !.at = "revoke", !.key = k]
  <2>1. r \in CallRecord /\ r.todo + r.took <= MaxTo /\ r.at = "revoke"
    BY <1>0 DEF CallRecord, CallSteps
  <2>2. /\ call' = [call EXCEPT ![a] = r] /\ UNCHANGED <<apiKeys, balance, apiPaid>>
        /\ apiTried' \in Nat
    BY <1>0, <1>3 DEF AskRevoke
  <2> HIDE DEF r
  <2> QED BY <2>1, <2>2, CallOnly
<1>4. ASSUME NEW a \in Callers, NEW k \in Keys, NEW n \in 1..MaxTo, CallSms(a, k, n) PROVE ApiInv'
  <2> DEFINE r == [at |-> "balance", key |-> k, todo |-> n, took |-> 0]
  <2>1. r \in CallRecord /\ r.todo + r.took <= MaxTo /\ r.at = "balance"
    BY StoreAssumption DEF CallRecord, CallSteps
  <2>2. /\ call' = [call EXCEPT ![a] = r] /\ UNCHANGED <<apiKeys, balance, apiPaid>>
        /\ apiTried' \in Nat
    BY <1>0, <1>4 DEF CallSms
  <2> HIDE DEF r
  <2> QED BY <2>1, <2>2, CallOnly
<1>5. ASSUME NEW a \in Callers, CheckBalance(a) PROVE ApiInv'
  <2>1. UNCHANGED <<apiKeys, balance, apiPaid>> /\ apiTried' \in Nat
    BY <1>0, <1>5 DEF CheckBalance
  <2>2. CASE balance >= ApiCost * call[a].todo
    <3> DEFINE r == [call[a] EXCEPT !.at = "send"]
    <3>1. r \in CallRecord /\ r.todo + r.took <= MaxTo /\ r.at = "send"
      BY <1>0 DEF CallRecord, CallSteps
    <3>2. call' = [call EXCEPT ![a] = r]
      BY <1>0, <1>5, <2>2 DEF CheckBalance, CallGoes
    <3>3. call[a].todo \in 0..MaxTo /\ ApiCost \in Nat /\ MaxTo \in Nat
      BY <1>0, StoreAssumption DEF CallRecord
    <3>4. ApiCost * call[a].todo \in Nat
      BY <3>3, Costs
    <3>5. balance >= 0
      BY <1>0, <2>2, <3>4
    <3> HIDE DEF r
    <3> QED BY <2>1, <3>1, <3>2, <3>5, CallOnly
  <2>3. CASE ~(balance >= ApiCost * call[a].todo)
    <3>1. call' = [call EXCEPT ![a] = NoCall]
      BY <1>5, <2>3 DEF CheckBalance, CallEnds
    <3> QED BY <1>1, <2>1, <3>1, CallOnly
  <2> QED BY <2>2, <2>3
<1>6. ASSUME NEW a \in Callers, SendNext(a) PROVE ApiInv'
  <2>1. PICK counted \in {0, 1} :
          /\ apiTried' = apiTried + 1
          /\ call' = [call EXCEPT ![a].todo = @ - 1, ![a].took = @ + counted]
    BY <1>6 DEF SendNext
  <2> DEFINE r == [call[a] EXCEPT !.todo = @ - 1, !.took = @ + counted]
  <2>2. call[a].todo > 0 /\ call[a].at = "send" /\ UNCHANGED <<apiKeys, balance, apiPaid>>
    BY <1>6 DEF SendNext
  <2>3. r \in CallRecord /\ r.todo + r.took <= MaxTo /\ r.at = "send"
    <3> DEFINE c == call[a]
    <3>1. c \in CallRecord /\ c.todo > 0 /\ c.todo + c.took <= MaxTo /\ MaxTo \in Nat
      BY <1>0, <2>2, StoreAssumption
    <3>2. c.todo - 1 \in 0..MaxTo /\ c.took + counted \in 0..MaxTo
          /\ (c.todo - 1) + (c.took + counted) <= MaxTo
      BY <3>1 DEF CallRecord
    <3>3. c.at = "send"
      BY <2>2
    <3> HIDE DEF c
    <3>4. LET q == [c EXCEPT !.todo = @ - 1, !.took = @ + counted] IN
          q \in CallRecord /\ q.todo = c.todo - 1 /\ q.took = c.took + counted /\ q.at = c.at
      BY <3>1, <3>2 DEF CallRecord
    <3> QED BY <3>2, <3>3, <3>4 DEF c
  <2>4. call' = [call EXCEPT ![a] = r]
    BY <1>0, <2>1
  <2>5. apiTried' \in Nat
    BY <1>0, <2>1
  <2> HIDE DEF r
  <2> QED BY <2>2, <2>3, <2>4, <2>5, CallOnly
<1>7. ASSUME NEW a \in Callers, CallFails(a) PROVE ApiInv'
  <2>1. /\ call' = [call EXCEPT ![a] = NoCall] /\ UNCHANGED <<apiKeys, balance, apiPaid>>
        /\ apiTried' \in Nat
    BY <1>0, <1>7 DEF CallFails, CallEnds
  <2> QED BY <1>1, <2>1, CallOnly
<1>8. ASSUME NEW a \in Callers, NEW k \in Keys, CreateKey(a, k) PROVE ApiInv'
  <2>1. /\ call' = [call EXCEPT ![a] = NoCall] /\ call[a].at = "create"
        /\ apiKeys' = [apiKeys EXCEPT ![k] = "active"]
        /\ balance' = balance /\ apiPaid' = apiPaid /\ apiTried' \in Nat
    BY <1>0, <1>8 DEF CreateKey, CallEnds
  <2>2. apiKeys' \in [Keys -> KeyStatus]
    BY <1>0, <2>1 DEF KeyStatus
  <2>3. Cardinality(InUse') <= Cardinality(InUse) + 1
    BY <1>0, <2>1, KeysInUse DEF InUse, KeyStatus
  <2> QED BY <1>0, <1>1, <2>1, <2>2, <2>3, CallMoves
<1>10. ASSUME NEW a \in Callers, RevokeKey(a) PROVE ApiInv'
  <2>1. /\ call' = [call EXCEPT ![a] = NoCall]
        /\ apiKeys' = [apiKeys EXCEPT ![call[a].key] = "revoked"]
        /\ balance' = balance /\ apiPaid' = apiPaid /\ apiTried' \in Nat
    BY <1>0, <1>10 DEF RevokeKey, CallEnds
  <2>2. apiKeys' \in [Keys -> KeyStatus]
    BY <1>0, <2>1 DEF KeyStatus
  <2>3. Cardinality(InUse') <= Cardinality(InUse)
    <3>1. InUse' \subseteq InUse
      BY <1>0, <2>1 DEF InUse
    <3> QED BY <3>1, FS_Subset, StoreAssumption DEF InUse
  <2> QED BY <1>0, <1>1, <2>1, <2>2, <2>3, CallMoves
<1>9. ASSUME NEW a \in Callers, Charge(a) PROVE ApiInv'
  <2> DEFINE k == call[a].took
             paid == ApiCost * k
  <2>1. /\ call' = [call EXCEPT ![a] = NoCall] /\ call[a].at = "send"
        /\ apiKeys' = apiKeys /\ apiTried' \in Nat
        /\ balance' = balance - paid /\ apiPaid' = apiPaid + k
    BY <1>0, <1>9 DEF Charge, CallEnds
  <2>2. k \in 0..MaxTo /\ ApiCost \in Nat /\ MaxTo \in Nat
    BY <1>0, StoreAssumption DEF CallRecord
  <2>3. paid \in Nat /\ paid <= ApiCost * MaxTo /\ ApiCost * MaxTo \in Nat /\ (k = 0 => paid = 0)
    BY <2>2, Costs
  <2>4. apiPaid = 0 => balance >= 0
    BY DEF ApiInv, OverdraftBounded
  <2>5. InUse' = InUse
    BY <2>1 DEF InUse
  <2>6. Cardinality(InUse) \in Nat
    BY FS_Subset, FS_CardinalityType, StoreAssumption DEF InUse
  <2> HIDE DEF k, paid
  <2>7. /\ balance' \in Int /\ apiPaid' \in Nat
        /\ balance' >= balance - ApiCost * MaxTo
        /\ apiPaid' = 0 => balance' >= 0
    BY <1>0, <2>1, <2>2, <2>3, <2>4
  <2>8. /\ apiKeys' \in [Keys -> KeyStatus] /\ Cardinality(InUse') <= Cardinality(InUse)
        /\ NoCall.at # "send" /\ NoCall.at # "create"
    BY <1>0, <1>1, <2>1, <2>5, <2>6
  <2> QED BY <1>1, <2>1, <2>7, <2>8, CallMoves
<1> QED BY <1>2, <1>3, <1>4, <1>5, <1>6, <1>7, <1>8, <1>9, <1>10 DEF ApiNext, CallStep

(* What the others do: they leave keys and calls alone, debits stop at zero, and
   payments add. *)
LEMMA CreditOnly ==
  ASSUME ApiInv, UNCHANGED apiVars, balance' \in Int, balance' >= balance \/ balance' >= 0
  PROVE  ApiInv'
<1> DEFINE idle == Cardinality(Callers) - Cardinality(Sending)
           D == ApiCost * MaxTo
<1>1. ApiTypes' /\ KeysBounded'
  BY DEF ApiInv, ApiTypes, KeysBounded, InUse, apiVars
<1>2. Sending' = Sending /\ apiPaid' = apiPaid
  BY DEF Sending, apiVars
<1>3. D * idle \in Nat
  <2>1. idle \in Nat
    BY FS_Subset, FS_CardinalityType, StoreAssumption DEF Sending
  <2>2. D \in Nat
    BY Costs, StoreAssumption
  <2> HIDE DEF D, idle
  <2> QED BY <2>1, <2>2, Costs
<1>4. balance >= -(D * idle) /\ (apiPaid = 0 => balance >= 0) /\ balance \in Int
  BY DEF ApiInv, ApiTypes, OverdraftBounded
<1>5. balance' >= -(D * idle) /\ (apiPaid = 0 => balance' >= 0)
  <2> HIDE DEF D, idle
  <2> QED BY <1>3, <1>4
<1>6. OverdraftBounded'
  BY <1>2, <1>5 DEF OverdraftBounded
<1> QED BY <1>1, <1>6 DEF ApiInv

(* The invariant of keys and calls holds initially: nobody calls. *)
LEMMA ApiInit0 == Init => ApiInv
<1> SUFFICES ASSUME Init PROVE ApiInv
  OBVIOUS
<1>1. world \in Worlds /\ balance = world.credit /\ balance \in Nat
  BY StoreAssumption DEF Init, StoreInit
<1>2. /\ apiKeys = [k \in Keys |-> IF k \in world.keys THEN "active" ELSE "none"]
      /\ call = [a \in Callers |-> NoCall] /\ apiTried = 0 /\ apiPaid = 0
  BY DEF Init, ApiInit
<1>3. NoCall \in CallRecord /\ NoCall.at = "idle" /\ NoCall.todo + NoCall.took <= MaxTo
  BY StoreAssumption DEF NoCall, CallRecord, CallSteps
<1>4. ApiTypes
  BY <1>1, <1>2, <1>3 DEF ApiTypes, KeyStatus
<1>5. KeysBounded
  <2>1. InUse = world.keys
    BY <1>1, <1>2, StoreAssumption DEF InUse
  <2>2. {a \in Callers : call[a].at = "create"} = {}
    BY <1>2, <1>3
  <2>3. Cardinality({}) = 0 /\ Cardinality(Callers) \in Nat /\ Cardinality(Callers) # 0
    BY FS_EmptySet, FS_CardinalityType, StoreAssumption
  <2>4. Cardinality(world.keys) \in Nat /\ Cardinality(world.keys) <= MaxKeys /\ MaxKeys \in Nat
    BY <1>1, FS_Subset, FS_CardinalityType, StoreAssumption
  <2> QED BY <2>1, <2>2, <2>3, <2>4 DEF KeysBounded
<1>6. OverdraftBounded
  <2>1. Sending = {} /\ Cardinality({}) = 0 /\ Cardinality(Callers) \in Nat
    BY <1>2, <1>3, FS_EmptySet, FS_CardinalityType, StoreAssumption DEF Sending
  <2>2. ApiCost * MaxTo \in Nat
    BY Costs, StoreAssumption
  <2>3. ApiCost * MaxTo * Cardinality(Callers) \in Nat
    BY <2>1, <2>2, Costs
  <2> QED BY <1>1, <2>1, <2>3 DEF OverdraftBounded
<1> QED BY <1>4, <1>5, <1>6 DEF ApiInv

(* Every step of the account keeps it. *)
LEMMA ApiInductive == ApiInv /\ [Next]_vars => ApiInv'
<1> SUFFICES ASSUME ApiInv, [Next]_vars PROVE ApiInv'
  OBVIOUS
<1>0. balance \in Int /\ UnitCost \in Nat /\ CardAmount \in Nat
  BY StoreAssumption DEF ApiInv, ApiTypes
<1>1. CASE AutomationsNext
  <2>1. UNCHANGED apiVars /\ balance' \in Int /\ (balance' >= balance \/ balance' >= 0)
    BY <1>0, <1>1, AutomationsFrame DEF others, apiVars
  <2> QED BY <2>1, CreditOnly
<1>2. CASE ImportNext
  <2>1. UNCHANGED apiVars /\ balance' \in Int /\ balance' >= balance
    BY <1>0, <1>2, ImportFrame DEF Apart, apiVars
  <2> QED BY <2>1, CreditOnly
<1>3. CASE DeliveryNext
  <2>1. UNCHANGED apiVars /\ balance' \in Int /\ balance' >= balance
    BY <1>0, <1>3, DeliveryFrame DEF Beside, apiVars
  <2> QED BY <2>1, CreditOnly
<1>4. CASE BookNext
  <2>1. UNCHANGED apiVars /\ balance' \in Int /\ balance' >= balance
    BY <1>0, <1>4, BookFrame DEF Around, apiVars
  <2> QED BY <2>1, CreditOnly
<1>5. CASE ApiNext
  BY <1>5, ApiStep
<1>6. CASE VisaNext
  <2>1. UNCHANGED apiVars /\ balance' \in Int /\ balance' >= balance
    BY <1>0, <1>6, VisaFrame DEF Away, apiVars
  <2> QED BY <2>1, CreditOnly
<1>7. CASE Tick \/ UNCHANGED vars
  <2>1. UNCHANGED apiVars /\ balance' \in Int /\ balance' >= balance
    BY <1>0, <1>7 DEF Tick, vars, others, store, apiVars
  <2> QED BY <2>1, CreditOnly
<1> QED BY <1>1, <1>2, <1>3, <1>4, <1>5, <1>6, <1>7 DEF Next

(* createKey counts and creates in two statements, without a transaction: of n
   requests that count at the same time all may pass, but one of them was
   counted by the limit.  An account never has MaxKeys + n keys. *)
THEOREM KeysStayBounded == Spec => []KeysBounded
<1>1. Spec => []ApiInv
  BY ApiInit0, ApiInductive, PTL DEF Spec
<1>2. ApiInv => KeysBounded
  BY DEF ApiInv
<1> QED BY <1>1, <1>2, PTL

(* sendSms compares the credit before it sends and debits it after, whatever it
   is by then: each call may overdraw by its own cost, and only such calls
   overdraw at all, however debits of automations and payments fall between. *)
THEOREM OverdraftStaysBounded == Spec => []OverdraftBounded
<1>1. Spec => []ApiInv
  BY ApiInit0, ApiInductive, PTL DEF Spec
<1>2. ApiInv => OverdraftBounded
  BY DEF ApiInv
<1> QED BY <1>1, <1>2, PTL

-----------------------------------------------------------------------------
(* Consent *)

LaneRecord ==
  [at : {"idle", "write", "count", "log", "mark"}, src : {"none", "email", "resend", "sms", "link"},
   kind : {"none", "sent", "open", "click", "hard", "soft", "bounce", "unsubscribe", "stop",
           "failed", "succeeded"},
   contact : Contacts \cup {Min(Contacts)}, seen : SendStatus]

(* What a request on a contact remembers has these parts. *)
IsForm(f) ==
  f = [op |-> f.op, at |-> f.at, contact |-> f.contact, tags |-> f.tags, added |-> f.added,
       hit |-> f.hit]

(* A row is only marked by a handler that wrote the consent before, and without
   the request that gives consent nothing takes that back. *)
ConsentTypes ==
  /\ optOut \in [Contacts -> BOOLEAN]
  /\ send \in [Contacts -> SendStatus]
  /\ lane \in [Lanes -> LaneRecord]
  /\ \A d \in Lanes : lane[d].at # "idle" => lane[d].contact \in Contacts
  /\ DOMAIN form = Callers
  /\ \A a \in Callers : IsForm(form[a])
Marked == \A d \in Lanes : lane[d].at = "mark" => optOut[lane[d].contact]
NotAsked == \A a \in Callers : form[a].op # "optIn"
ConsentInv ==
  /\ world \in Worlds /\ "optIn" \notin world.operations
  /\ ConsentTypes /\ NotAsked /\ Marked /\ UnsubscribedIsOptedOut

(* What is neither a webhook nor a request on a contact leaves this alone. *)
LEMMA ConsentFrame ==
  ASSUME ConsentInv, UNCHANGED <<world, optOut, send, lane, form>>
  PROVE  ConsentInv'
BY DEF ConsentInv, ConsentTypes, Marked, NotAsked, UnsubscribedIsOptedOut

(* A lane goes on: consent is only given up, and a row becomes UNSUBSCRIBED, or
   is about to be, when it was. *)
LEMMA LaneGoes ==
  ASSUME ConsentInv, UNCHANGED <<world, form>>, NEW d \in Lanes, NEW r \in LaneRecord,
         r.at # "idle" => r.contact \in Contacts,
         lane' = [lane EXCEPT ![d] = r],
         optOut' \in [Contacts -> BOOLEAN], send' \in [Contacts -> SendStatus],
         \A c \in Contacts : optOut[c] => optOut'[c],
         r.at = "mark" => optOut'[r.contact],
         \A c \in Contacts : send'[c] = "UNSUBSCRIBED" => send[c] = "UNSUBSCRIBED" \/ optOut'[c]
  PROVE  ConsentInv'
<1>1. ConsentTypes' /\ NotAsked'
  BY DEF ConsentInv, ConsentTypes, NotAsked
<1>2. Marked'
  BY DEF ConsentInv, ConsentTypes, Marked
<1>3. UnsubscribedIsOptedOut'
  BY DEF ConsentInv, ConsentTypes, UnsubscribedIsOptedOut
<1> QED BY <1>1, <1>2, <1>3 DEF ConsentInv

(* The same, when its next statement is at x or it has answered. *)
LEMMA LaneStepsOn ==
  ASSUME ConsentInv, UNCHANGED <<world, form>>, NEW d \in Lanes, lane[d].at # "idle",
         NEW x \in {"count", "log", "mark"},
         Step(d, x) \/ Served(d),
         optOut' \in [Contacts -> BOOLEAN], send' \in [Contacts -> SendStatus],
         \A c \in Contacts : optOut[c] => optOut'[c],
         x = "mark" => optOut'[To(d)],
         \A c \in Contacts : send'[c] = "UNSUBSCRIBED" => send[c] = "UNSUBSCRIBED" \/ optOut'[c]
  PROVE  ConsentInv'
<1> DEFINE r == [lane[d] EXCEPT !.at = x]
<1>1. lane \in [Lanes -> LaneRecord] /\ lane[d] \in LaneRecord /\ lane[d].contact \in Contacts
  BY DEF ConsentInv, ConsentTypes
<1>2. r \in LaneRecord /\ r.at = x /\ r.contact = lane[d].contact
  BY <1>1 DEF LaneRecord
<1>3. NoLane \in LaneRecord /\ NoLane.at = "idle"
  BY DEF NoLane, LaneRecord, SendStatus
<1>4. Step(d, x) => lane' = [lane EXCEPT ![d] = r]
  BY <1>1 DEF Step
<1>5. CASE Step(d, x)
  <2> HIDE DEF r
  <2> QED BY <1>1, <1>2, <1>4, <1>5, LaneGoes DEF To
<1>6. CASE Served(d)
  BY <1>3, <1>6, LaneGoes DEF Served
<1> QED BY <1>5, <1>6

(* What a webhook writes into one row. *)
LEMMA RowWritten ==
  ASSUME ConsentInv, NEW c \in Contacts, NEW st \in SendStatus, send' = [send EXCEPT ![c] = st],
         st = "UNSUBSCRIBED" => send[c] = "UNSUBSCRIBED" \/ optOut'[c]
  PROVE  /\ send' \in [Contacts -> SendStatus]
         /\ \A b \in Contacts : send'[b] = "UNSUBSCRIBED" => send[b] = "UNSUBSCRIBED" \/ optOut'[b]
BY DEF ConsentInv, ConsentTypes

(* Consent withdrawn: no contact gets it back by that. *)
LEMMA OptedOut ==
  ASSUME ConsentInv, NEW c \in Contacts, NEW v \in BOOLEAN, optOut[c] => v,
         optOut' = [optOut EXCEPT ![c] = v]
  PROVE  /\ optOut' \in [Contacts -> BOOLEAN] /\ optOut'[c] = v
         /\ \A b \in Contacts : optOut[b] => optOut'[b]
BY DEF ConsentInv, ConsentTypes

(* Webhooks and links: whoever marks a row UNSUBSCRIBED opted its contact out
   first. *)
LEMMA DeliveryConsent ==
  ASSUME ConsentInv, DeliveryNext
  PROVE  ConsentInv'
<1>0. /\ optOut \in [Contacts -> BOOLEAN] /\ send \in [Contacts -> SendStatus]
      /\ lane \in [Lanes -> LaneRecord]
      /\ \A d \in Lanes : lane[d] \in LaneRecord
      /\ \A d \in Lanes : lane[d].at # "idle" => To(d) \in Contacts
      /\ \A d \in Lanes : lane[d].at = "mark" => optOut[To(d)]
  BY DEF ConsentInv, ConsentTypes, Marked, To
<1>1. UNCHANGED <<world, form>>
  BY DeliveryFrame DEF Beside, bookVars
<1>2. NoLane \in LaneRecord /\ NoLane.at = "idle"
  BY DEF NoLane, LaneRecord, SendStatus
<1>4. ASSUME NEW m \in world.messages, ReceiveCard(m) PROVE ConsentInv'
  BY <1>1, <1>4, ConsentFrame DEF ReceiveCard
<1>5. ASSUME NEW m \in world.messages, NEW d \in Lanes, NEW c \in Contacts, Receive(d, m, c)
      PROVE  ConsentInv'
  <2> DEFINE r == IF FollowedBefore(m.src, m.kind, c) THEN NoLane
                  ELSE [at |-> "write", src |-> m.src, kind |-> m.kind, contact |-> c, seen |-> send[c]]
  <2>1. m \in Messages /\ m.src # "card"
    <3>1. world \in Worlds
      BY DEF ConsentInv
    <3> QED BY <1>5, <3>1, StoreAssumption DEF Receive
  <2>2. r \in LaneRecord /\ (r.at # "idle" => r.contact \in Contacts) /\ r.at # "mark"
    BY <1>0, <1>2, <2>1 DEF LaneRecord, Messages
  <2>3. lane' = [lane EXCEPT ![d] = r] /\ UNCHANGED <<optOut, send>>
    BY <1>5 DEF Receive
  <2> HIDE DEF r
  <2> QED BY <1>0, <1>1, <2>2, <2>3, LaneGoes
<1>6. ASSUME NEW d \in Lanes, LaneStep(d) PROVE ConsentInv'
  <2> DEFINE Facts(x) == /\ lane[d].at # "idle" /\ (Step(d, x) \/ Served(d))
                         /\ optOut' \in [Contacts -> BOOLEAN] /\ send' \in [Contacts -> SendStatus]
                         /\ \A c \in Contacts : optOut[c] => optOut'[c]
                         /\ x = "mark" => optOut'[To(d)]
                         /\ \A c \in Contacts :
                              send'[c] = "UNSUBSCRIBED" => send[c] = "UNSUBSCRIBED" \/ optOut'[c]
  <2>0. ASSUME NEW x \in {"count", "log", "mark"}, Facts(x) PROVE ConsentInv'
    BY <1>1, <2>0, LaneStepsOn
  <2>1. CASE EmailWrite(d)
    <3>1. /\ lane[d].at # "idle" /\ Step(d, "count") /\ optOut' = optOut /\ To(d) \in Contacts
          /\ lane[d].kind \in DOMAIN EmailStatus
          /\ send' = [send EXCEPT ![To(d)] = EmailStatus[lane[d].kind]]
      BY <1>0, <2>1 DEF EmailWrite, At
    <3>2. EmailStatus[lane[d].kind] \in SendStatus /\ EmailStatus[lane[d].kind] # "UNSUBSCRIBED"
      BY <3>1 DEF EmailStatus, SendStatus
    <3>3. /\ send' \in [Contacts -> SendStatus]
          /\ \A c \in Contacts : send'[c] = "UNSUBSCRIBED" => send[c] = "UNSUBSCRIBED" \/ optOut'[c]
      BY <3>1, <3>2, RowWritten
    <3>4. Facts("count")
      BY <1>0, <3>1, <3>3
    <3> HIDE DEF Facts
    <3> QED BY <3>4, <2>0
  <2>2. CASE BouncedOptOut(d) \/ TrackUnsubscribe(d)
    <3>1. /\ lane[d].at # "idle" /\ Served(d) /\ send' = send /\ To(d) \in Contacts
          /\ optOut' = [optOut EXCEPT ![To(d)] = TRUE]
      BY <1>0, <2>2 DEF BouncedOptOut, TrackUnsubscribe, At
    <3>2. /\ optOut' \in [Contacts -> BOOLEAN]
          /\ \A c \in Contacts : optOut[c] => optOut'[c]
      BY <3>1, OptedOut
    <3>4. Facts("log")
      BY <1>0, <3>1, <3>2
    <3> HIDE DEF Facts
    <3> QED BY <3>4, <2>0
  <2>3. CASE ResendUnsubscribe(d)
    <3>1. /\ lane[d].at # "idle" /\ Step(d, "mark") /\ send' = send /\ To(d) \in Contacts
          /\ optOut' = [optOut EXCEPT ![To(d)] = TRUE]
      BY <1>0, <2>3 DEF ResendUnsubscribe, At
    <3>2. /\ optOut' \in [Contacts -> BOOLEAN] /\ optOut'[To(d)]
          /\ \A c \in Contacts : optOut[c] => optOut'[c]
      BY <3>1, OptedOut
    <3>4. Facts("mark")
      BY <1>0, <3>1, <3>2
    <3> HIDE DEF Facts
    <3> QED BY <3>4, <2>0
  <2>4. CASE ResendMark(d)
    <3>1. /\ lane[d].at = "mark" /\ Served(d) /\ optOut' = optOut /\ To(d) \in Contacts
          /\ send' = [send EXCEPT ![To(d)] = "UNSUBSCRIBED"]
      BY <1>0, <2>4 DEF ResendMark, At
    <3>3. /\ send' \in [Contacts -> SendStatus]
          /\ \A c \in Contacts : send'[c] = "UNSUBSCRIBED" => send[c] = "UNSUBSCRIBED" \/ optOut'[c]
      BY <1>0, <3>1, RowWritten DEF SendStatus
    <3>4. Facts("log")
      BY <1>0, <3>1, <3>3
    <3> HIDE DEF Facts
    <3> QED BY <3>4, <2>0
  <2>5. CASE ResendOpen(d) \/ ResendClick(d) \/ ResendBounce(d) \/ TrackOpen(d) \/ TrackClick(d)
    <3>1. /\ lane[d].at # "idle" /\ (Step(d, "count") \/ Served(d)) /\ optOut' = optOut
          /\ To(d) \in Contacts
          /\ \/ send' = send
             \/ \E st \in SendStatus :
                  st # "UNSUBSCRIBED" /\ send' = [send EXCEPT ![To(d)] = st]
      BY <1>0, <2>5 DEF ResendOpen, ResendClick, ResendBounce, TrackOpen, TrackClick, At, SendStatus
    <3>3. /\ send' \in [Contacts -> SendStatus]
          /\ \A c \in Contacts : send'[c] = "UNSUBSCRIBED" => send[c] = "UNSUBSCRIBED" \/ optOut'[c]
      BY <1>0, <3>1, RowWritten
    <3>4. Facts("count")
      BY <1>0, <3>1, <3>3
    <3> HIDE DEF Facts
    <3> QED BY <3>4, <2>0
  <2>6. CASE Count(d) \/ Log(d)
    <3>1. /\ lane[d].at # "idle" /\ (Step(d, "log") \/ Served(d)) /\ optOut' = optOut /\ send' = send
      BY <2>6 DEF Count, Log
    <3>4. Facts("log")
      BY <1>0, <3>1
    <3> HIDE DEF Facts
    <3> QED BY <3>4, <2>0
  <2>7. CASE Sms(d)
    <3> DEFINE stop == lane[d].kind = "stop"
               st == IF stop /\ send[To(d)] \in {"SENT", "OPENED", "CLICKED"} THEN "UNSUBSCRIBED"
                     ELSE IF ~stop /\ send[To(d)] \in {"PENDING", "SENT"} THEN "BOUNCED"
                     ELSE send[To(d)]
    <3>1. /\ lane[d].at # "idle" /\ Served(d) /\ To(d) \in Contacts
          /\ optOut' = [optOut EXCEPT ![To(d)] = optOut[To(d)] \/ stop]
          /\ send' = [send EXCEPT ![To(d)] = st]
      BY <1>0, <2>7 DEF Sms, At
    <3>2. /\ optOut' \in [Contacts -> BOOLEAN] /\ optOut'[To(d)] = (optOut[To(d)] \/ stop)
          /\ \A c \in Contacts : optOut[c] => optOut'[c]
      BY <3>1, OptedOut
    <3>3. st \in SendStatus /\ (st = "UNSUBSCRIBED" => stop \/ send[To(d)] = "UNSUBSCRIBED")
      BY <1>0, <3>1 DEF SendStatus
    <3> HIDE DEF stop, st
    <3>4. /\ send' \in [Contacts -> SendStatus]
          /\ \A c \in Contacts : send'[c] = "UNSUBSCRIBED" => send[c] = "UNSUBSCRIBED" \/ optOut'[c]
      BY <3>1, <3>2, <3>3, RowWritten
    <3>5. Facts("log")
      BY <1>0, <3>1, <3>2, <3>4
    <3> HIDE DEF Facts
    <3> QED BY <3>5, <2>0
  <2> QED BY <1>6, <2>1, <2>2, <2>3, <2>4, <2>5, <2>6, <2>7 DEF LaneStep
<1>7. ASSUME NEW d \in Lanes, LaneFails(d) PROVE ConsentInv'
  BY <1>0, <1>1, <1>2, <1>7, LaneGoes DEF LaneFails, Served
<1> QED BY <1>4, <1>5, <1>6, <1>7 DEF DeliveryNext

(* Requests on contacts: without optIn they only withdraw consent. *)
LEMMA BookConsent ==
  ASSUME ConsentInv, BookNext
  PROVE  ConsentInv'
<1>0. /\ optOut \in [Contacts -> BOOLEAN] /\ DOMAIN form = Callers
      /\ \A a \in Callers : IsForm(form[a]) /\ form[a].op # "optIn"
      /\ "optIn" \notin world.operations
  BY DEF ConsentInv, ConsentTypes, NotAsked
<1>1. UNCHANGED <<world, send, lane>>
  BY BookFrame DEF Around, deliveryVars
<1>2. ASSUME NEW a \in Callers, NEW f, form' = [form EXCEPT ![a] = f], IsForm(f), f.op # "optIn",
             \/ UNCHANGED optOut
             \/ \E c : optOut' = [optOut EXCEPT ![c] = TRUE]
      PROVE  ConsentInv'
  <2>1. optOut' \in [Contacts -> BOOLEAN] /\ \A c \in Contacts : optOut[c] => optOut'[c]
    BY <1>0, <1>2
  <2>2. DOMAIN form' = Callers /\ \A b \in Callers : IsForm(form'[b]) /\ form'[b].op # "optIn"
    BY <1>0, <1>2
  <2> HIDE DEF IsForm
  <2> QED BY <1>1, <2>1, <2>2
       DEF ConsentInv, ConsentTypes, NotAsked, Marked, UnsubscribedIsOptedOut
<1>3. IsForm(NoForm) /\ NoForm.op # "optIn"
  BY DEF IsForm, NoForm
<1>4. ASSUME NEW a \in Callers, NEW x
      PROVE  /\ IsForm([form[a] EXCEPT !.at = x]) /\ [form[a] EXCEPT !.at = x].op = form[a].op
             /\ [form EXCEPT ![a].at = x] = [form EXCEPT ![a] = [form[a] EXCEPT !.at = x]]
  BY <1>0 DEF IsForm
<1>5. ASSUME NEW a \in Callers, FormEnds(a) \/ \E x : FormGoes(a, x),
             UNCHANGED optOut \/ \E c : optOut' = [optOut EXCEPT ![c] = TRUE]
      PROVE  ConsentInv'
  <2>1. CASE FormEnds(a)
    BY <1>2, <1>3, <1>5, <2>1 DEF FormEnds
  <2>2. ASSUME NEW x, FormGoes(a, x) PROVE ConsentInv'
    <3> DEFINE f == [form[a] EXCEPT !.at = x]
    <3>1. form' = [form EXCEPT ![a] = f] /\ IsForm(f) /\ f.op # "optIn"
      BY <1>0, <1>4, <2>2 DEF FormGoes
    <3> HIDE DEF f
    <3> QED BY <1>2, <1>5, <3>1
  <2> QED BY <1>5, <2>1, <2>2
<1>6. ASSUME NEW a \in Callers, NEW op \in world.operations, NEW c, NEW T, AskContact(a, op, c, T)
      PROVE  ConsentInv'
  <2> DEFINE f == [op |-> op, at |-> "write", contact |-> c, hit |-> FALSE,
                   tags |-> CASE op = "addTags" -> tags[c] \cup T [] op = "optIn" -> {} [] OTHER -> T,
                   added |-> IF op = "addTags" THEN T \ tags[c] ELSE {}]
  <2>1. form' = [form EXCEPT ![a] = f] /\ UNCHANGED optOut
    BY <1>6 DEF AskContact
  <2>2. IsForm(f) /\ f.op # "optIn"
    BY <1>0 DEF IsForm
  <2> HIDE DEF f
  <2> QED BY <1>2, <2>1, <2>2
<1>7. ASSUME NEW a \in Callers, FormStep(a) PROVE ConsentInv'
  <2>1. CASE CreateContact(a) \/ Announce(a) \/ MatchBefore(a)
    BY <1>5, <2>1 DEF CreateContact, Announce, MatchBefore
  <2>2. CASE UpdateContact(a)
    BY <1>0, <1>5, <2>2 DEF UpdateContact
  <2>3. CASE OptOut(a)
    BY <1>5, <2>3 DEF OptOut
  <2>4. CASE MatchNext(a)
    <3>1. PICK found \in BOOLEAN :
            FormEnds(a) \/ form' = [form EXCEPT ![a].at = "before", ![a].hit = found]
      BY <2>4 DEF MatchNext
    <3>2. UNCHANGED optOut
      BY <2>4 DEF MatchNext
    <3> DEFINE f == [form[a] EXCEPT !.at = "before", !.hit = found]
    <3>3. form' = [form EXCEPT ![a].at = "before", ![a].hit = found] => form' = [form EXCEPT ![a] = f]
      BY <1>0
    <3>4. IsForm(f) /\ f.op # "optIn"
      <4> DEFINE g == [form[a] EXCEPT !.at = "before"]
      <4>1. IsForm(g) /\ g.op # "optIn"
        BY <1>0, <1>4
      <4>2. f = [g EXCEPT !.hit = found]
        OBVIOUS
      <4> HIDE DEF g, f
      <4> QED BY <4>1, <4>2 DEF IsForm
    <3> HIDE DEF f
    <3> QED BY <1>2, <1>5, <3>1, <3>2, <3>3, <3>4
  <2> QED BY <1>7, <2>1, <2>2, <2>3, <2>4 DEF FormStep
<1>8. ASSUME NEW a \in Callers, FormFails(a) PROVE ConsentInv'
  BY <1>5, <1>8 DEF FormFails
<1>9. ASSUME NEW b \in Backends, CountStep(b) \/ CountThrows(b) \/ CountDies(b) PROVE ConsentInv'
  BY <1>1, <1>9, ConsentFrame
     DEF CountStep, CountThrows, CountDies, TakeRecalculation, CountMatching, WriteCount
<1>10. CASE JobArrives \/ JobIsLost
  BY <1>1, <1>10, ConsentFrame DEF JobArrives, JobIsLost
<1> QED BY <1>6, <1>7, <1>8, <1>9, <1>10 DEF BookNext

(* The invariant of consent holds initially: no row is UNSUBSCRIBED. *)
LEMMA ConsentInit ==
  ASSUME Init, "optIn" \notin world.operations
  PROVE  ConsentInv
<1>1. NoLane \in LaneRecord /\ NoLane.at = "idle"
  BY DEF NoLane, LaneRecord, SendStatus
<1>2. IsForm(NoForm) /\ NoForm.op # "optIn"
  BY DEF IsForm, NoForm
<1>3. /\ world \in Worlds /\ optOut = [c \in Contacts |-> FALSE] /\ send = [c \in Contacts |-> "SENT"]
      /\ lane = [d \in Lanes |-> NoLane] /\ form = [a \in Callers |-> NoForm]
  BY DEF Init, StoreInit, DeliveryInit, BookInit
<1> HIDE DEF IsForm
<1>4. ConsentTypes
  BY <1>1, <1>2, <1>3 DEF ConsentTypes, SendStatus
<1>5. NotAsked /\ Marked /\ UnsubscribedIsOptedOut
  BY <1>1, <1>2, <1>3 DEF NotAsked, Marked, UnsubscribedIsOptedOut
<1> QED BY <1>3, <1>4, <1>5 DEF ConsentInv

(* Every step of the account keeps it, in worlds without optIn. *)
LEMMA ConsentInductive ==
  ASSUME ConsentInv, [Next]_vars
  PROVE  ConsentInv'
<1>1. CASE AutomationsNext
  BY <1>1, AutomationsFrame, ConsentFrame DEF others, deliveryVars, bookVars
<1>2. CASE ImportNext
  BY <1>2, ImportFrame, ConsentFrame DEF Apart, deliveryVars, bookVars
<1>3. CASE DeliveryNext
  BY <1>3, DeliveryConsent
<1>4. CASE BookNext
  BY <1>4, BookConsent
<1>5. CASE ApiNext
  BY <1>5, ApiFrame, ConsentFrame DEF Aside, deliveryVars, bookVars
<1>6. CASE VisaNext
  BY <1>6, VisaFrame, ConsentFrame DEF Away, deliveryVars, bookVars
<1>7. CASE Tick \/ UNCHANGED vars
  BY <1>7, ConsentFrame DEF Tick, vars, store, others, deliveryVars, bookVars
<1> QED BY <1>1, <1>2, <1>3, <1>4, <1>5, <1>6, <1>7 DEF Next

(* What a behaviour is about does not change. *)
LEMMA WorldStays == [Next]_vars => UNCHANGED world
<1> SUFFICES ASSUME [Next]_vars PROVE UNCHANGED world
  OBVIOUS
<1>1. CASE AutomationsNext
  BY <1>1, AutomationsFrame
<1>2. CASE ImportNext
  BY <1>2, ImportFrame DEF Apart
<1>3. CASE DeliveryNext
  BY <1>3, DeliveryFrame DEF Beside
<1>4. CASE BookNext
  BY <1>4, BookFrame DEF Around
<1>5. CASE ApiNext
  BY <1>5, ApiFrame DEF Aside
<1>6. CASE VisaNext
  BY <1>6, VisaFrame DEF Away
<1>7. CASE Tick \/ UNCHANGED vars
  BY <1>7 DEF Tick, vars, store
<1> QED BY <1>1, <1>2, <1>3, <1>4, <1>5, <1>6, <1>7 DEF Next

(* receiveResendWebhook writes the consent, then the row; receiveSmsWebhook both
   at once; nothing else writes UNSUBSCRIBED, and without the request that gives
   consent nothing takes back that it was withdrawn.  So wherever a handler is
   cut short, whatever other handlers, imports and requests do in between, a
   send that is UNSUBSCRIBED belongs to a contact that is opted out. *)
THEOREM UnsubscribedStaysOptedOut == Spec => []UnsubscribedIsOptedOut
<1> DEFINE I == "optIn" \notin world.operations => ConsentInv
<1>1. Init => I
  BY ConsentInit
<1>2. I /\ [Next]_vars => I'
  BY ConsentInductive, WorldStays
<1>3. I => UnsubscribedIsOptedOut
  BY DEF ConsentInv, UnsubscribedIsOptedOut
<1> HIDE DEF I
<1> QED BY <1>1, <1>2, <1>3, PTL DEF Spec

-----------------------------------------------------------------------------
(* Deleted automations *)

(* The parts of an execution: its row, what its process remembers, its job. *)
IsRow(x) == x = [st |-> x.st, contact |-> x.contact, node |-> x.node, tries |-> x.tries]
IsMem(m) == m = [pc |-> m.pc, at |-> m.at, tags |-> m.tags]
IsJob(j) == j = [st |-> j.st, made |-> j.made, stalled |-> j.stalled]
IsCron(k) ==
  k = [pc |-> k.pc, todo |-> k.todo, cur |-> k.cur, seen |-> k.seen, by |-> k.by, now |-> k.now]

(* Where an execution may be whose message left after the deletion: it has no
   row, and whatever it does next leads to an error. *)
Leaving == {"idle", "load", "pay", "record", "caught", "throw", "mark"}

(* The rows of a deleted automation are gone; what has a job or a worker had a
   row; and an execution that sent after the deletion is on its way out. *)
Late(e) ==
  /\ IsRow(exec[e]) /\ IsMem(mem[e]) /\ IsJob(job[e]) /\ late[e] \in Nat
  /\ status = "gone" => exec[e].st \in {"none", "gone"}
  /\ mem[e].pc \notin {"idle", "found"} => exec[e].st # "none"
  /\ job[e].st # "none" => exec[e].st # "none"
  /\ late[e] <= 1
  /\ late[e] = 1 => status = "gone" /\ exec[e].st = "gone" /\ mem[e].pc \in Leaving
LateCron(k) ==
  /\ IsCron(cron[k])
  /\ cron[k].pc = "add" => cron[k].cur \in Executions /\ exec[cron[k].cur].st # "none"
Domains ==
  /\ DOMAIN exec = Executions /\ DOMAIN mem = Executions /\ DOMAIN job = Executions
  /\ DOMAIN late = Executions /\ DOMAIN cron = Runs
LateInv ==
  Domains /\ (\A e \in Executions : Late(e)) /\ (\A k \in Runs : LateCron(k))

(* Only e changes. *)
Only(e) ==
  /\ UNCHANGED <<status, cron>> /\ Domains'
  /\ \A f \in Executions \ {e} :
       exec'[f] = exec[f] /\ mem'[f] = mem[f] /\ job'[f] = job[f] /\ late'[f] = late[f]

(* A step about one execution keeps the invariant if that one does. *)
LEMMA LateOne ==
  ASSUME LateInv, NEW e \in Executions, Only(e), Late(e)',
         exec[e].st # "none" => exec'[e].st # "none"
  PROVE  LateInv'
<1>1. Domains'
  BY DEF Only
<1>2. ASSUME NEW f \in Executions PROVE Late(f)'
  <2>1. CASE f = e
    BY <2>1
  <2>2. CASE f # e
    BY <2>2 DEF LateInv, Only, Late, IsRow, IsMem, IsJob
  <2> QED BY <2>1, <2>2
<1>3. ASSUME NEW k \in Runs PROVE LateCron(k)'
  BY DEF LateInv, Only, LateCron, IsCron
<1> QED BY <1>1, <1>2, <1>3 DEF LateInv

(* The listener, the request and the worker. *)
LEMMA LateExecution ==
  ASSUME LateInv, NEW e \in Executions,
         \/ \E i \in DOMAIN events : Listen(e, i)
         \/ \E c \in Contacts : Trigger(e, c)
         \/ CreateRow(e) \/ AddJob(e) \/ FiringDies(e) \/ TakeJob(e) \/ WorkerDies(e)
         \/ WorkerStep(e)
  PROVE  LateInv'
<1>0. Late(e) /\ Domains
  BY DEF LateInv
<1> DEFINE Ok == Only(e) /\ Late(e)' /\ (exec[e].st # "none" => exec'[e].st # "none")
<1> USE DEF IsRow, IsMem, IsJob, Only, Late, Domains, Goto, Rest, Leaving, HasRow
<1>1. ASSUME NEW i \in DOMAIN events, Listen(e, i) PROVE Ok
  BY <1>0, <1>1 DEF Listen, Unused, automation, firing, history
<1>2. ASSUME NEW c \in Contacts, Trigger(e, c) PROVE Ok
  BY <1>0, <1>2 DEF Trigger, Unused, automation, firing, history
<1>3. CASE CreateRow(e)
  <2>1. Ok
    BY <1>0, <1>3 DEF CreateRow, Row, automation, firing, history
  <2> QED BY <2>1, LateOne
<1>4. CASE AddJob(e)
  <2>1. Ok
    BY <1>0, <1>4 DEF AddJob, Added, automation, firing, history
  <2> QED BY <2>1, LateOne
<1>5. CASE FiringDies(e)
  <2>1. Ok
    BY <1>0, <1>5 DEF FiringDies, automation, firing, history
  <2> QED BY <2>1, LateOne
<1>6. CASE TakeJob(e)
  <2>1. Ok
    BY <1>0, <1>6 DEF TakeJob, automation, firing, history
  <2> QED BY <2>1, LateOne
<1>7. CASE WorkerDies(e)
  <2>1. Ok
    BY <1>0, <1>7 DEF WorkerDies, automation, firing, history
  <2> QED BY <2>1, LateOne
<1>8. ASSUME WorkerStep(e) PROVE Ok
  <2>1. CASE Load(e)
    BY <1>0, <2>1 DEF Load, Loaded, Elsewhere, firing, history
  <2>2. CASE Enter(e)
    BY <1>0, <2>2 DEF Enter, Stored, StepOf, Elsewhere, firing, history
  <2>3. CASE Send(e)
    BY <1>0, <2>3 DEF Send, Hand, Thrown, Elsewhere, firing
  <2>4. CASE Pay(e)
    BY <1>0, <2>4 DEF Pay, Debit, Thrown, Elsewhere, firing
  <2>5. CASE RecordNode(e)
    BY <1>0, <2>5 DEF RecordNode, Thrown, Elsewhere, firing, history
  <2>6. CASE RecordMessage(e)
    BY <1>0, <2>6 DEF RecordMessage, Thrown, Elsewhere, firing, history
  <2>7. CASE ScheduleRetry(e)
    BY <1>0, <2>7 DEF ScheduleRetry, Elsewhere, firing, history
  <2>8. CASE Requeue(e)
    BY <1>0, <2>8 DEF Requeue, Added, Elsewhere, firing, history
  <2>9. CASE TagContact(e)
    BY <1>0, <2>9 DEF TagContact, Elsewhere, firing, history
  <2>10. CASE Branch(e)
    BY <1>0, <2>10 DEF Branch, Elsewhere, firing, history
  <2>11. CASE Wait(e)
    BY <1>0, <2>11 DEF Wait, Stored, Elsewhere, firing, history
  <2>12. CASE Finish(e)
    BY <1>0, <2>12 DEF Finish, Elsewhere, firing, history
  <2>13. CASE Return(e)
    BY <1>0, <2>13 DEF Return, NoJob, automation, firing, history
  <2>14. CASE Throw(e)
    BY <1>0, <2>14 DEF Throw, automation, firing, history
  <2>15. CASE MarkFailed(e)
    BY <1>0, <2>15 DEF MarkFailed, Elsewhere, firing, history
  <2> QED BY <1>8, <2>1, <2>2, <2>3, <2>4, <2>5, <2>6, <2>7, <2>8, <2>9, <2>10, <2>11, <2>12, <2>13, <2>14, <2>15 DEF WorkerStep
<1> HIDE DEF IsRow, IsMem, IsJob, Only, Late, Domains, Goto, Rest, Leaving, HasRow
<1> QED BY <1>1, <1>2, <1>3, <1>4, <1>5, <1>6, <1>7, <1>8, LateOne

(* The crons make rows, and add their jobs afterwards. *)
LEMMA LateCrons ==
  ASSUME LateInv, NEW k \in Runs, CronFires(k) \/ CronStep(k) \/ CronDies(k)
  PROVE  LateInv'
<1>0. /\ Domains /\ LateCron(k) /\ \A e \in Executions : Late(e)
      /\ \A m \in Runs : LateCron(m)
  BY DEF LateInv
<1>1. ASSUME DOMAIN cron' = Runs, UNCHANGED <<status, exec, mem, job, late>>,
             \A r \in Runs : cron'[r] = cron[r] \/ (IsCron(cron'[r]) /\ cron'[r].pc # "add")
      PROVE  LateInv'
  <2>1. Domains'
    BY <1>0, <1>1 DEF Domains
  <2>2. \A e \in Executions : Late(e)'
    BY <1>0, <1>1 DEF Late, IsRow, IsMem, IsJob
  <2>3. \A c \in Runs : LateCron(c)'
    BY <1>0, <1>1 DEF LateCron, IsCron, Domains
  <2> QED BY <2>1, <2>2, <2>3 DEF LateInv
<1>2. IsCron(NoCron) /\ NoCron.pc # "add"
  BY DEF IsCron, NoCron
<1>3. ASSUME NEW m, IsCron(m), m.pc # "add", cron' = [cron EXCEPT ![k] = m],
             UNCHANGED <<status, exec, mem, job, late>>
      PROVE  LateInv'
  BY <1>0, <1>1, <1>3 DEF Domains
<1>4. CASE CronFires(k)
  <2>1. PICK b \in Backends :
          cron' = [cron EXCEPT ![k] = [pc |-> "create", todo |-> Targets, cur |-> 0,
                                       seen |-> config, by |-> b, now |-> day]]
    BY <1>4 DEF CronFires
  <2> DEFINE m == [pc |-> "create", todo |-> Targets, cur |-> 0, seen |-> config,
                   by |-> b, now |-> day]
  <2>2. cron' = [cron EXCEPT ![k] = m] /\ UNCHANGED <<status, exec, mem, job, late>>
    BY <1>4, <2>1 DEF CronFires, automation, executions, history
  <2>3. IsCron(m) /\ m.pc # "add"
    BY DEF IsCron
  <2> HIDE DEF m
  <2> QED BY <1>3, <2>2, <2>3
<1>7. CASE CronMarks(k)
  BY <1>2, <1>3, <1>7 DEF CronMarks, CronStops, automation, executions, history
<1>8. CASE CronDies(k)
  <2>1. UNCHANGED <<status, exec, mem, job, late>>
    BY <1>8 DEF CronDies, automation, executions, history
  <2>2. /\ DOMAIN cron' = Runs
        /\ \A r \in Runs : cron'[r] = cron[r] \/ cron'[r] = NoCron
    BY <1>8 DEF CronDies
  <2> QED BY <1>1, <1>2, <2>1, <2>2
<1>5. ASSUME NEW e \in Executions, CronCreates(k, e) PROVE LateInv'
  <2>1. CASE cron' = [cron EXCEPT ![k] = NoCron] /\ UNCHANGED exec
    BY <1>2, <1>3, <1>5, <2>1 DEF CronCreates, automation, history
  <2>2. CASE ~(cron' = [cron EXCEPT ![k] = NoCron] /\ UNCHANGED exec)
    <3>1. PICK c \in cron[k].todo :
            /\ status # "gone" /\ exec' = [exec EXCEPT ![e] = Row("Running", c)]
            /\ cron' = [cron EXCEPT ![k].pc = "add", ![k].cur = e, ![k].todo = @ \ {c}]
      BY <1>5, <2>2 DEF CronCreates, CronStops
    <3>2. UNCHANGED <<status, mem, job, late>> /\ exec[e].st = "none" /\ mem[e].pc = "idle"
      BY <1>5 DEF CronCreates, Unused, automation, history
    <3>3. Domains'
      BY <1>0, <3>1, <3>2 DEF Domains
    <3>4. \A f \in Executions : Late(f)' /\ (exec[f].st # "none" => exec'[f].st # "none")
      BY <1>0, <3>1, <3>2 DEF Late, IsRow, IsMem, IsJob, Domains, Row, Leaving
    <3>5. exec'[e].st # "none"
      BY <1>0, <3>1 DEF Domains, Row
    <3>6. \A m \in Runs : LateCron(m)'
      BY <1>0, <3>1, <3>4, <3>5 DEF LateCron, IsCron, Domains
    <3> QED BY <3>3, <3>4, <3>6 DEF LateInv
  <2> QED BY <2>1, <2>2
<1>6. CASE CronAdds(k)
  <2>1. CASE cron' = [cron EXCEPT ![k] = NoCron] /\ UNCHANGED job
    BY <1>2, <1>3, <1>6, <2>1 DEF CronAdds, automation, history
  <2>2. CASE ~(cron' = [cron EXCEPT ![k] = NoCron] /\ UNCHANGED job)
    <3> DEFINE e == cron[k].cur
    <3>1. /\ job' = Added(e) /\ cron' = [cron EXCEPT ![k].pc = "create", ![k].cur = 0]
          /\ UNCHANGED <<status, exec, mem, late>>
          /\ e \in Executions /\ exec[e].st # "none"
      BY <1>0, <1>6, <2>2 DEF CronAdds, CronStops, automation, history, LateCron
    <3> HIDE DEF e
    <3>2. Domains'
      BY <1>0, <3>1 DEF Domains, Added
    <3>3. \A f \in Executions : Late(f)'
      BY <1>0, <3>1 DEF Late, IsRow, IsMem, IsJob, Domains, Added
    <3>4. \A m \in Runs : LateCron(m)'
      BY <1>0, <3>1 DEF LateCron, IsCron, Domains
    <3> QED BY <3>2, <3>3, <3>4 DEF LateInv
  <2> QED BY <2>1, <2>2
<1> QED BY <1>4, <1>5, <1>6, <1>7, <1>8 DEF CronStep

(* Requests on the automation: deleting it takes every row, and nothing brings
   it back. *)
LEMMA LateRequests ==
  ASSUME LateInv,
         \/ \E r \in Clients : Toggle(r) \/ Delete(r) \/ RequestStep(r)
         \/ \E d \in 0..MaxDay : SetDate(d)
  PROVE  LateInv'
<1>0. /\ Domains /\ (\A e \in Executions : Late(e)) /\ \A k \in Runs : LateCron(k)
  BY DEF LateInv
<1>1. ASSUME UNCHANGED <<exec, mem, job, late, cron>>, status' = status \/ (status # "gone" /\ status' # "gone")
      PROVE  LateInv'
  <2>1. Domains' /\ \A k \in Runs : LateCron(k)'
    BY <1>0, <1>1 DEF Domains, LateCron, IsCron
  <2>2. \A e \in Executions : Late(e)'
    BY <1>0, <1>1 DEF Late, IsRow, IsMem, IsJob
  <2> QED BY <2>1, <2>2 DEF LateInv
<1>2. ASSUME NEW r \in Clients, Toggle(r) \/ Delete(r) PROVE LateInv'
  BY <1>1, <1>2 DEF Toggle, Delete, Ask, automation, executions, history
<1>3. ASSUME NEW d \in 0..MaxDay, SetDate(d) PROVE LateInv'
  BY <1>1, <1>3 DEF SetDate, executions, firing, history
<1>4. ASSUME NEW r \in Clients, WriteToggle(r) PROVE LateInv'
  <2>1. UNCHANGED <<exec, mem, job, late, cron>>
    BY <1>4 DEF WriteToggle, executions, history
  <2>2. status' = status \/ (status # "gone" /\ status' # "gone")
    BY <1>4 DEF WriteToggle
  <2> QED BY <1>1, <2>1, <2>2
<1>5. ASSUME NEW r \in Clients, WriteDelete(r) PROVE LateInv'
  <2>1. /\ status' = "gone" /\ UNCHANGED <<mem, job, late, cron>>
        /\ exec' = [e \in Executions |->
                      IF HasRow(e) THEN [exec[e] EXCEPT !.st = "gone"] ELSE exec[e]]
    BY <1>5 DEF WriteDelete, history
  <2>2. Domains'
    BY <1>0, <2>1 DEF Domains
  <2>3. ASSUME NEW e \in Executions
        PROVE  Late(e)' /\ (exec[e].st # "none" => exec'[e].st # "none")
    <3>1. Late(e) /\ UNCHANGED <<mem, job, late>> /\ status' = "gone"
      BY <1>0, <2>1
    <3>2. CASE HasRow(e)
      <4>1. exec'[e] = [exec[e] EXCEPT !.st = "gone"]
        BY <2>1, <3>2
      <4>2. IsRow(exec'[e]) /\ exec'[e].st = "gone"
        BY <3>1, <4>1 DEF Late, IsRow
      <4> QED BY <3>1, <4>2 DEF Late, IsMem, IsJob
    <3>3. CASE ~HasRow(e)
      <4>1. exec'[e] = exec[e] /\ exec[e].st \in {"none", "gone"}
        BY <2>1, <3>3 DEF HasRow
      <4> QED BY <3>1, <4>1 DEF Late, IsRow, IsMem, IsJob
    <3> QED BY <3>2, <3>3
  <2>4. \A k \in Runs : LateCron(k)'
    BY <1>0, <2>1, <2>3 DEF LateCron, IsCron
  <2> QED BY <2>2, <2>3, <2>4 DEF LateInv
<1> QED BY <1>2, <1>3, <1>4, <1>5 DEF RequestStep

(* The invariant of deletion holds initially: there are no executions. *)
LEMMA LateInit == Init => LateInv
<1> SUFFICES ASSUME Init PROVE LateInv
  OBVIOUS
<1>1. /\ exec = [e \in Executions |-> Row("none", Min(Contacts))]
      /\ job = [e \in Executions |-> NoJob]
      /\ mem = [e \in Executions |-> [pc |-> "idle", at |-> 0, tags |-> {}]]
      /\ cron = [k \in Runs |-> NoCron]
      /\ late = [e \in Executions |-> 0]
  BY DEF Init, AutomationsInit
<1>2. Domains /\ \A k \in Runs : LateCron(k)
  BY <1>1 DEF Domains, LateCron, IsCron, NoCron
<1>3. \A e \in Executions : Late(e)
  BY <1>1 DEF Late, IsRow, IsMem, IsJob, NoJob, Row, Leaving
<1> QED BY <1>2, <1>3 DEF LateInv

(* Every step of the account keeps it. *)
LEMMA LateInductive ==
  ASSUME LateInv, [Next]_vars
  PROVE  LateInv'
<1>1. CASE AutomationsNext
  BY <1>1, LateExecution, LateCrons, LateRequests DEF AutomationsNext
<1>2. ASSUME UNCHANGED automationVars PROVE LateInv'
  BY <1>2 DEF LateInv, Late, LateCron, Domains, IsRow, IsMem, IsJob, IsCron,
              automationVars, automation, executions, firing, history
<1>3. CASE ImportNext
  BY <1>2, <1>3, ImportFrame DEF Apart
<1>4. CASE DeliveryNext
  BY <1>2, <1>4, DeliveryFrame DEF Beside
<1>5. CASE BookNext
  BY <1>2, <1>5, BookFrame DEF Around
<1>6. CASE ApiNext
  BY <1>2, <1>6, ApiFrame DEF Aside
<1>7. CASE VisaNext
  BY <1>2, <1>7, VisaFrame DEF Away
<1>8. CASE Tick \/ UNCHANGED vars
  BY <1>2, <1>8 DEF Tick, vars
<1> QED BY <1>1, <1>3, <1>4, <1>5, <1>6, <1>7, <1>8 DEF Next

(* deleteAutomation takes the rows of the executions with it and leaves their
   jobs: a worker that is about to send still sends that one message, then
   finds no automation to count for and no row to go on from, and whoever runs
   the job again finds no row either. *)
THEOREM DeletedStaysStopped == Spec => []DeletedStops
<1>1. LateInv => DeletedStops
  BY DEF LateInv, Late, DeletedStops
<1> QED BY <1>1, LateInit, LateInductive, PTL DEF Spec

-----------------------------------------------------------------------------
(* Payments by card *)

Tally == [taken : Nat, bought : Nat, waiting : Nat, confirmed : Nat]
PurchasesInv ==
  /\ Bounds
  /\ visa \in [Callers -> VisaSteps]
  /\ purchases \in Tally
  /\ PurchasesBooked

(* Callers at a place are counted one by one here too. *)
LEMMA VisaMoves ==
  ASSUME visa \in [Callers -> VisaSteps], NEW a \in Callers, NEW at \in VisaSteps,
         VisaGoes(a, at), NEW p
  PROVE  /\ VisaAt(p) \in Nat /\ VisaAt(p)' \in Nat
         /\ at = p /\ visa[a] # p => VisaAt(p)' = VisaAt(p) + 1
         /\ at # p /\ visa[a] = p => VisaAt(p)' = VisaAt(p) - 1
         /\ (at = p) = (visa[a] = p) => VisaAt(p)' = VisaAt(p)
<1> DEFINE before == {x \in Callers : visa[x] = p}
           after == {x \in Callers : visa'[x] = p}
           rest == {x \in Callers \ {a} : visa[x] = p}
<1>1. IsFiniteSet(rest) /\ IsFiniteSet(before) /\ IsFiniteSet(after)
  BY StoreAssumption, FS_Subset
<1>2. /\ before = IF visa[a] = p THEN rest \cup {a} ELSE rest
      /\ after = IF at = p THEN rest \cup {a} ELSE rest
      /\ a \notin rest
  BY DEF VisaGoes
<1>3. Cardinality(rest \cup {a}) = Cardinality(rest) + 1 /\ Cardinality(rest) \in Nat
  BY <1>1, <1>2, FS_AddElement, FS_CardinalityType
<1> HIDE DEF before, after, rest
<1>4. /\ Cardinality(before) \in Nat /\ Cardinality(after) \in Nat
      /\ at = p /\ visa[a] # p => Cardinality(after) = Cardinality(before) + 1
      /\ at # p /\ visa[a] = p => Cardinality(after) = Cardinality(before) - 1
      /\ (at = p) = (visa[a] = p) => Cardinality(after) = Cardinality(before)
  BY <1>2, <1>3
<1> QED BY <1>4 DEF before, after, VisaAt

(* A payment goes on: what it leaves unbooked is a failure, or is asked of the
   payer's bank. *)
LEMMA VisaBooks == PurchasesInv /\ VisaNext => PurchasesInv'
<1> SUFFICES ASSUME PurchasesInv, VisaNext PROVE PurchasesInv'
  OBVIOUS
<1> USE DEF PurchasesInv
<1>0. /\ UNCHANGED world /\ Failures \in Int
      /\ visa \in [Callers -> VisaSteps] /\ \A a \in Callers : visa[a] \in VisaSteps
      /\ purchases \in Tally
      /\ Unbooked >= purchases.confirmed /\ Unbooked <= purchases.confirmed + Failures
  <2>1. Failures \in Int
    BY FailuresAreInt
  <2> QED BY <2>1, VisaFrame DEF Away, PurchasesBooked
<1>1. ASSUME Spends, visa' \in [Callers -> VisaSteps], purchases' \in Tally,
             Unbooked \in Int, Unbooked' \in Int, Unbooked' >= purchases'.confirmed,
             \/ Unbooked' - purchases'.confirmed <= Unbooked - purchases.confirmed
             \/ /\ Fault \/ Crash
                /\ Unbooked' - purchases'.confirmed <= Unbooked - purchases.confirmed + 1
      PROVE  PurchasesInv'
  <2>1. /\ Bounds' /\ Failures \in Int /\ Failures' \in Int /\ Failures' >= Failures
        /\ Fault \/ Crash => Failures' = Failures + 1
    BY <1>0, <1>1, FailuresGrow
  <2>2. purchases.confirmed \in Nat /\ purchases'.confirmed \in Nat
    BY <1>0, <1>1 DEF Tally
  <2>3. Unbooked' <= purchases'.confirmed + Failures'
    BY <1>0, <1>1, <2>1, <2>2
  <2> QED BY <1>1, <2>1, <2>3 DEF PurchasesBooked
<1>2. ASSUME NEW a \in Callers, NEW at \in VisaSteps, VisaGoes(a, at),
             Spends, purchases' \in Tally,
             LET more == (purchases'.taken - purchases'.bought)
                         - (purchases.taken - purchases.bought)
                         - (IF at = "record" THEN 1 ELSE 0)
                         + (IF visa[a] = "record" THEN 1 ELSE 0)
             IN /\ purchases'.confirmed = purchases.confirmed
                /\ more = 0 \/ (more = 1 /\ (Fault \/ Crash))
      PROVE  PurchasesInv'
  <2>1. /\ VisaAt("record") \in Nat /\ VisaAt("record")' \in Nat
        /\ VisaAt("record")' = VisaAt("record") + (IF at = "record" THEN 1 ELSE 0)
                                                - (IF visa[a] = "record" THEN 1 ELSE 0)
    BY <1>0, <1>2, VisaMoves
  <2>2. visa' \in [Callers -> VisaSteps]
    BY <1>0, <1>2 DEF VisaGoes
  <2>3. /\ {purchases.taken, purchases.bought, purchases.confirmed} \subseteq Nat
        /\ {purchases'.taken, purchases'.bought, purchases'.confirmed} \subseteq Nat
    BY <1>0, <1>2 DEF Tally
  <2>4. /\ Unbooked = purchases.taken - purchases.bought - VisaAt("record")
        /\ Unbooked' = purchases'.taken - purchases'.bought - VisaAt("record")'
    BY DEF Unbooked
  <2>5. /\ Unbooked \in Int /\ Unbooked' \in Int
        /\ \/ Unbooked' = Unbooked
           \/ Unbooked' = Unbooked + 1 /\ (Fault \/ Crash)
    BY <1>2, <2>1, <2>3, <2>4
  <2>6. Unbooked' >= purchases'.confirmed
    BY <1>0, <1>2, <2>3, <2>5
  <2>7. \/ Unbooked' - purchases'.confirmed <= Unbooked - purchases.confirmed
        \/ /\ Fault \/ Crash
           /\ Unbooked' - purchases'.confirmed <= Unbooked - purchases.confirmed + 1
    BY <1>2, <2>3, <2>5
  <2> QED BY <1>1, <1>2, <2>2, <2>5, <2>6, <2>7
<1>3. /\ [purchases EXCEPT !.taken = @ + 1] \in Tally
      /\ [purchases EXCEPT !.bought = @ + 1] \in Tally
      /\ [purchases EXCEPT !.waiting = @ + 1] \in Tally
      /\ {purchases.taken, purchases.bought, purchases.confirmed} \subseteq Nat
  BY <1>0 DEF Tally
<1>4. ASSUME NEW a \in Callers, AskVisa(a) \/ Invoice(a) \/ CreditPayment(a) PROVE PurchasesInv'
  <2>1. PICK at \in {"charge", "invoice", "idle"} :
          VisaGoes(a, at) /\ Spends /\ UNCHANGED purchases /\ visa[a] # "record"
    BY <1>4 DEF AskVisa, Invoice, CreditPayment, Spends
  <2> QED BY <1>0, <1>2, <1>3, <2>1 DEF VisaSteps
<1>5. ASSUME NEW a \in Callers, RecordPayment(a) PROVE PurchasesInv'
  <2>1. /\ visa[a] = "record" /\ VisaGoes(a, "credit") /\ Spends
        /\ purchases' = [purchases EXCEPT !.bought = @ + 1]
    BY <1>5 DEF RecordPayment, Spends
  <2>2. /\ purchases'.taken = purchases.taken /\ purchases'.bought = purchases.bought + 1
        /\ purchases'.confirmed = purchases.confirmed
    BY <1>0, <2>1 DEF Tally
  <2> QED BY <1>2, <1>3, <2>1, <2>2 DEF VisaSteps
<1>6. ASSUME NEW a \in Callers, VisaFails(a) PROVE PurchasesInv'
  <2>1. VisaGoes(a, "idle") /\ (Fault \/ Crash) /\ UNCHANGED purchases
    BY <1>6 DEF VisaFails
  <2>2. Spends
    BY <2>1 DEF Spends
  <2> QED BY <1>0, <1>2, <1>3, <2>1, <2>2 DEF VisaSteps
<1>7. ASSUME NEW a \in Callers, ChargeCard(a) PROVE PurchasesInv'
  <2>1. visa[a] = "charge"
    BY <1>7 DEF ChargeCard
  <2>2. CASE MoneyTaken
    <3>1. /\ purchases' \in Tally /\ purchases'.taken = purchases.taken + 1
          /\ purchases'.bought = purchases.bought /\ purchases'.confirmed = purchases.confirmed
      BY <1>0, <1>3, <2>2 DEF MoneyTaken, Tally
    <3>2. CASE VisaGoes(a, "record") /\ UNCHANGED left
      BY <1>2, <1>3, <2>1, <3>1, <3>2 DEF VisaSteps, Spends
    <3>3. CASE VisaGoes(a, "idle") /\ Fault
      BY <1>2, <1>3, <2>1, <3>1, <3>3 DEF VisaSteps, Spends
    <3>4. purchases' # [purchases EXCEPT !.waiting = @ + 1] /\ purchases' # purchases
      BY <1>0, <1>3, <3>1 DEF Tally
    <3> QED BY <1>7, <3>2, <3>3, <3>4 DEF ChargeCard
  <2>3. CASE purchases' = [purchases EXCEPT !.waiting = @ + 1] /\ VisaGoes(a, "idle") /\ UNCHANGED left
    <3>1. /\ purchases'.taken = purchases.taken
          /\ purchases'.bought = purchases.bought /\ purchases'.confirmed = purchases.confirmed
      BY <1>0, <2>3 DEF Tally
    <3> QED BY <1>2, <1>3, <2>1, <2>3, <3>1 DEF VisaSteps, Spends
  <2>4. CASE VisaGoes(a, "idle") /\ UNCHANGED <<left, purchases>>
    BY <1>0, <1>2, <1>3, <2>1, <2>4 DEF VisaSteps, Spends
  <2> QED BY <1>7, <2>2, <2>3, <2>4 DEF ChargeCard
<1>8. CASE BankConfirms
  <2>1. /\ purchases.waiting > 0 /\ Delivery /\ UNCHANGED visa
        /\ purchases' = [purchases EXCEPT !.waiting = @ - 1, !.taken = @ + 1, !.confirmed = @ + 1]
    BY <1>8 DEF BankConfirms
  <2>2. /\ purchases' \in Tally /\ purchases'.taken = purchases.taken + 1
        /\ purchases'.bought = purchases.bought
        /\ purchases'.confirmed = purchases.confirmed + 1
    <3>1. {purchases.waiting - 1, purchases.taken + 1, purchases.confirmed + 1} \subseteq Nat
      BY <1>0, <2>1 DEF Tally
    <3>2. purchases' = [taken |-> purchases.taken + 1, bought |-> purchases.bought,
                        waiting |-> purchases.waiting - 1, confirmed |-> purchases.confirmed + 1]
      BY <1>0, <2>1 DEF Tally
    <3> QED BY <1>0, <3>1, <3>2 DEF Tally
  <2>3. VisaAt("record") \in Nat /\ VisaAt("record")' = VisaAt("record")
    <3>1. IsFiniteSet({x \in Callers : visa[x] = "record"})
      BY StoreAssumption, FS_Subset
    <3> QED BY <2>1, <3>1, FS_CardinalityType DEF VisaAt
  <2>4. Unbooked \in Int /\ Unbooked' = Unbooked + 1
    BY <1>3, <2>2, <2>3 DEF Unbooked
  <2>5. Unbooked' \in Int /\ Unbooked' >= purchases'.confirmed
        /\ Unbooked' - purchases'.confirmed <= Unbooked - purchases.confirmed
    BY <1>0, <1>3, <2>2, <2>4
  <2>6. Spends /\ visa' \in [Callers -> VisaSteps]
    BY <1>0, <2>1 DEF Spends
  <2> QED BY <1>1, <2>2, <2>4, <2>5, <2>6
<1> QED BY <1>4, <1>5, <1>6, <1>7, <1>8 DEF VisaNext, VisaStep

(* Initially nobody pays. *)
LEMMA PurchasesInit == Init => PurchasesInv
<1> SUFFICES ASSUME Init PROVE PurchasesInv
  OBVIOUS
<1>1. /\ world \in Worlds
      /\ left = [faults |-> world.faults, crashes |-> world.crashes,
                 requests |-> world.requests, deliveries |-> world.deliveries]
      /\ visa = [a \in Callers |-> "idle"]
      /\ purchases = [taken |-> 0, bought |-> 0, waiting |-> 0, confirmed |-> 0]
  BY DEF Init, StoreInit, VisaInit
<1>2. Bounds /\ Failures = 0
  <2>1. {world.faults, world.crashes, world.requests, world.deliveries} \subseteq Nat
    BY <1>1, StoreAssumption
  <2> QED BY <1>1, <2>1 DEF Bounds, Failures
<1>3. visa \in [Callers -> VisaSteps] /\ purchases \in Tally
  BY <1>1 DEF VisaSteps, Tally
<1>4. VisaAt("record") = 0
  <2>1. {a \in Callers : visa[a] = "record"} = {}
    BY <1>1
  <2> QED BY <2>1, FS_EmptySet DEF VisaAt
<1> QED BY <1>1, <1>2, <1>3, <1>4 DEF PurchasesInv, PurchasesBooked, Unbooked

(* Every step of the account keeps it: what is not about payments leaves them
   alone, and does not lower the count of failures. *)
LEMMA PurchasesInductive == PurchasesInv /\ [Next]_vars => PurchasesInv'
<1> SUFFICES ASSUME PurchasesInv, [Next]_vars PROVE PurchasesInv'
  OBVIOUS
<1>1. ASSUME UNCHANGED <<world, visaVars>>, Spends PROVE PurchasesInv'
  <2>1. Bounds' /\ Failures \in Int /\ Failures' \in Int /\ Failures' >= Failures
    BY <1>1, FailuresGrow DEF PurchasesInv
  <2>2. Unbooked' = Unbooked /\ purchases' = purchases /\ visa' = visa
    BY <1>1 DEF Unbooked, VisaAt, visaVars
  <2>3. VisaAt("record") \in Nat
    <3>1. IsFiniteSet({x \in Callers : visa[x] = "record"})
      BY StoreAssumption, FS_Subset
    <3> QED BY <3>1, FS_CardinalityType DEF VisaAt
  <2>4. Unbooked \in Int /\ purchases.confirmed \in Nat
    BY <2>3 DEF PurchasesInv, Tally, Unbooked
  <2>5. PurchasesBooked'
    BY <2>1, <2>2, <2>4 DEF PurchasesInv, PurchasesBooked
  <2> QED BY <2>1, <2>2, <2>5 DEF PurchasesInv
<1>2. CASE AutomationsNext
  BY <1>1, <1>2, AutomationsFrame, AutomationsSpend DEF others
<1>3. CASE ImportNext
  BY <1>1, <1>3, ImportFrame, ImportSpends DEF Apart
<1>4. CASE DeliveryNext
  BY <1>1, <1>4, DeliveryFrame, DeliverySpends DEF Beside
<1>5. CASE BookNext
  BY <1>1, <1>5, BookFrame, BookSpends DEF Around
<1>6. CASE ApiNext
  BY <1>1, <1>6, ApiFrame, ApiSpends DEF Aside
<1>7. CASE VisaNext
  BY <1>7, VisaBooks
<1>8. CASE Tick \/ UNCHANGED vars
  BY <1>1, <1>8 DEF Tick, vars, store, others, Spends
<1> QED BY <1>2, <1>3, <1>4, <1>5, <1>6, <1>7, <1>8 DEF Next

(* processVisa records a payment after the provider has its money, in a
   statement of its own, and returns before that when the payer's bank is to be
   asked.  Nothing is recorded that was not taken, a failure leaves at most one
   payment without its row, and what the bank confirms never gets one. *)
THEOREM PurchasesStayBooked == Spec => []PurchasesBooked
<1>1. Spec => []PurchasesInv
  BY PurchasesInit, PurchasesInductive, PTL DEF Spec
<1>2. PurchasesInv => PurchasesBooked
  BY DEF PurchasesInv
<1> QED BY <1>1, <1>2, PTL

-----------------------------------------------------------------------------
(* Openings and clicks *)

(* What a handler remembers has these parts. *)
IsLane(r) ==
  r = [at |-> r.at, src |-> r.src, kind |-> r.kind, contact |-> r.contact, seen |-> r.seen]

(* A handler of such a world, and what it can be about to count. *)
Quiet(r) ==
  /\ IsLane(r) /\ r.src \in {"none", "resend", "sms"}
  /\ r.at # "idle" => r.contact \in Contacts
  /\ r.at = "count" => r.kind \in {"open", "click", "bounce"}
Openings ==
  /\ DOMAIN lane = Lanes /\ \A d \in Lanes : Quiet(lane[d])
  /\ IsFiniteSet(opened) /\ IsFiniteSet(clicked)
  /\ counts \in [sent : Nat, opened : Nat, clicked : Nat, failed : Nat]
CountInv == Bounds /\ (ResendOnly => Openings /\ CountedOnce)

(* What a handler that remembers r adds to those that count. *)
Counts(r, kind) == IF r.at = "count" /\ r.kind = kind THEN 1 ELSE 0

(* A lane that goes on is counted where it is, no longer where it was. *)
LEMMA LanesAt ==
  ASSUME DOMAIN lane = Lanes, NEW d \in Lanes, NEW r, lane' = [lane EXCEPT ![d] = r],
         NEW kind
  PROVE  /\ InFlight(kind) \in Nat /\ InFlight(kind)' \in Nat
         /\ InFlight(kind)' = InFlight(kind) + Counts(r, kind) - Counts(lane[d], kind)
<1> DEFINE before == {x \in Lanes : lane[x].at = "count" /\ lane[x].kind = kind}
           after == {x \in Lanes : lane'[x].at = "count" /\ lane'[x].kind = kind}
           rest == {x \in Lanes \ {d} : lane[x].at = "count" /\ lane[x].kind = kind}
<1>1. IsFiniteSet(rest) /\ IsFiniteSet(before) /\ IsFiniteSet(after)
  BY StoreAssumption, FS_Subset
<1>2. /\ before = IF Counts(lane[d], kind) = 1 THEN rest \cup {d} ELSE rest
      /\ after = IF Counts(r, kind) = 1 THEN rest \cup {d} ELSE rest
      /\ d \notin rest
  BY DEF Counts
<1>3. /\ Cardinality(rest \cup {d}) = Cardinality(rest) + 1 /\ Cardinality(rest) \in Nat
      /\ Counts(lane[d], kind) \in {0, 1} /\ Counts(r, kind) \in {0, 1}
  BY <1>1, <1>2, FS_AddElement, FS_CardinalityType DEF Counts
<1> HIDE DEF before, after, rest
<1>4. /\ Cardinality(before) \in Nat /\ Cardinality(after) \in Nat
      /\ Cardinality(after) = Cardinality(before) + Counts(r, kind) - Counts(lane[d], kind)
  BY <1>2, <1>3
<1> QED BY <1>4 DEF before, after, InFlight

(* What is counted are numbers. *)
LEMMA CountsAreNumbers ==
  ASSUME Openings
  PROVE  /\ {Cardinality(opened), Cardinality(clicked), counts.opened, counts.clicked} \subseteq Nat
         /\ \A kind : InFlight(kind) \in Nat
         /\ Missed \in Int /\ MissedClicks \in Int
<1>1. /\ {Cardinality(opened), Cardinality(clicked)} \subseteq Nat
      /\ {counts.opened, counts.clicked} \subseteq Nat
  BY FS_CardinalityType DEF Openings
<1>2. ASSUME NEW kind PROVE InFlight(kind) \in Nat
  <2>1. IsFiniteSet({x \in Lanes : lane[x].at = "count" /\ lane[x].kind = kind})
    BY StoreAssumption, FS_Subset
  <2> QED BY <2>1, FS_CardinalityType DEF InFlight
<1> QED BY <1>1, <1>2 DEF Missed, MissedClicks

(* A handler goes on, and opens or clicks, counts, or fails: the sets of sends,
   the counters and the handlers between the two agree as before, unless it
   fails. *)
LEMMA LaneCounts ==
  ASSUME Bounds, Openings, CountedOnce, ResendOnly, UNCHANGED world, Spends,
         NEW d \in Lanes, NEW r, Quiet(r), lane' = [lane EXCEPT ![d] = r],
         IsFiniteSet(opened'), IsFiniteSet(clicked'),
         counts' \in [sent : Nat, opened : Nat, clicked : Nat, failed : Nat],
         NEW o \in {0, 1}, NEW k \in {0, 1},
         o + k = 0 \/ (o + k = 1 /\ (Fault \/ Crash)),
         Cardinality(opened') - counts'.opened - Counts(r, "open")
           = Cardinality(opened) - counts.opened - Counts(lane[d], "open") + o,
         Cardinality(clicked') - counts'.clicked - Counts(r, "click")
           = Cardinality(clicked) - counts.clicked - Counts(lane[d], "click") + k
  PROVE  Openings' /\ CountedOnce'
<1>1. Openings'
  BY DEF Openings, Quiet
<1>2. /\ Missed \in Int /\ MissedClicks \in Int /\ Missed' \in Int /\ MissedClicks' \in Int
      /\ {Cardinality(opened), Cardinality(clicked), counts.opened, counts.clicked} \subseteq Nat
      /\ {Cardinality(opened'), Cardinality(clicked'), counts'.opened, counts'.clicked} \subseteq Nat
  <2>1. {Cardinality(opened'), Cardinality(clicked')} \subseteq Nat
    BY FS_CardinalityType
  <2>2. {counts'.opened, counts'.clicked} \subseteq Nat
    OBVIOUS
  <2>3. /\ InFlight("open")' \in Nat /\ InFlight("click")' \in Nat
    BY LanesAt DEF Openings
  <2>4. Missed' \in Int /\ MissedClicks' \in Int
    BY <2>1, <2>2, <2>3 DEF Missed, MissedClicks
  <2> QED BY <2>1, <2>2, <2>4, CountsAreNumbers
<1>3. ASSUME NEW kind
      PROVE  /\ InFlight(kind) \in Nat /\ InFlight(kind)' \in Nat
             /\ InFlight(kind)' = InFlight(kind) + Counts(r, kind) - Counts(lane[d], kind)
             /\ Counts(r, kind) \in {0, 1} /\ Counts(lane[d], kind) \in {0, 1}
  <2>1. Counts(r, kind) \in {0, 1} /\ Counts(lane[d], kind) \in {0, 1}
    BY DEF Counts
  <2>2. DOMAIN lane = Lanes
    BY DEF Openings
  <2> QED BY <2>1, <2>2, LanesAt
<1>4. Missed' = Missed + o
  <2>1. /\ InFlight("open") \in Nat /\ InFlight("open")' \in Nat
        /\ InFlight("open")' = InFlight("open") + Counts(r, "open") - Counts(lane[d], "open")
        /\ Counts(r, "open") \in {0, 1} /\ Counts(lane[d], "open") \in {0, 1}
    BY <1>3
  <2>2. /\ Cardinality(opened) \in Nat /\ Cardinality(opened') \in Nat
        /\ counts.opened \in Nat /\ counts'.opened \in Nat
    BY <1>2
  <2> QED BY <2>1, <2>2 DEF Missed
<1>5. MissedClicks' = MissedClicks + k
  <2>1. /\ InFlight("click") \in Nat /\ InFlight("click")' \in Nat
        /\ InFlight("click")' = InFlight("click") + Counts(r, "click") - Counts(lane[d], "click")
        /\ Counts(r, "click") \in {0, 1} /\ Counts(lane[d], "click") \in {0, 1}
    BY <1>3
  <2>2. /\ Cardinality(clicked) \in Nat /\ Cardinality(clicked') \in Nat
        /\ counts.clicked \in Nat /\ counts'.clicked \in Nat
    BY <1>2
  <2> QED BY <2>1, <2>2 DEF MissedClicks
<1>6. /\ Failures \in Int /\ Failures' \in Int /\ Failures' >= Failures
      /\ Fault \/ Crash => Failures' = Failures + 1
  BY FailuresGrow
<1>7. Missed >= 0 /\ MissedClicks >= 0 /\ Missed + MissedClicks <= Failures
  BY DEF CountedOnce
<1>8. Missed' >= 0 /\ MissedClicks' >= 0 /\ Missed' + MissedClicks' <= Failures'
  BY <1>2, <1>4, <1>5, <1>6, <1>7
<1> QED BY <1>1, <1>8 DEF CountedOnce

(* Webhooks: the update that opens or clicks a send a second time changes no
   row, and its handler counts nothing. *)
LEMMA DeliveryCounts ==
  ASSUME Bounds, Openings, CountedOnce, ResendOnly, DeliveryNext
  PROVE  Openings' /\ CountedOnce'
<1>0. /\ UNCHANGED world /\ Spends
      /\ DOMAIN lane = Lanes /\ \A d \in Lanes : Quiet(lane[d])
      /\ IsFiniteSet(opened) /\ IsFiniteSet(clicked)
      /\ counts \in [sent : Nat, opened : Nat, clicked : Nat, failed : Nat]
      /\ {Cardinality(opened), Cardinality(clicked), counts.opened, counts.clicked} \subseteq Nat
  BY DeliveryFrame, DeliverySpends, CountsAreNumbers DEF Beside, Openings
<1>1. Quiet(NoLane) /\ NoLane.at = "idle" /\ \A kind : Counts(NoLane, kind) = 0
  BY DEF NoLane, IsLane, Quiet, Counts
<1>2. ASSUME NEW d \in Lanes, NEW x \in {"count", "log", "mark"}, lane[d].at # "idle",
             x = "count" => lane[d].kind \in {"open", "click", "bounce"}
      PROVE  LET r == [lane[d] EXCEPT !.at = x] IN
             /\ Quiet(r) /\ r.at = x /\ r.kind = lane[d].kind
             /\ Step(d, x) => lane' = [lane EXCEPT ![d] = r]
  BY <1>0, <1>2 DEF Quiet, IsLane, Step
<1>3. \A r, kind : Counts(r, kind) \in {0, 1}
  BY DEF Counts
<1>4. ASSUME NEW d \in Lanes, NEW r, Quiet(r), lane' = [lane EXCEPT ![d] = r],
             lane[d].at # "count", r.at # "count", UNCHANGED <<opened, clicked, counts>>
      PROVE  Openings' /\ CountedOnce'
  <2>1. \A kind : Counts(r, kind) = 0 /\ Counts(lane[d], kind) = 0
    BY <1>4 DEF Counts
  <2>2. /\ Cardinality(opened') - counts'.opened - Counts(r, "open")
             = Cardinality(opened) - counts.opened - Counts(lane[d], "open") + 0
        /\ Cardinality(clicked') - counts'.clicked - Counts(r, "click")
             = Cardinality(clicked) - counts.clicked - Counts(lane[d], "click") + 0
    BY <1>0, <1>4, <2>1
  <2>3. /\ IsFiniteSet(opened') /\ IsFiniteSet(clicked')
        /\ counts' \in [sent : Nat, opened : Nat, clicked : Nat, failed : Nat]
        /\ 0 \in {0, 1} /\ 0 + 0 = 0
    BY <1>0, <1>4
  <2> QED BY <1>0, <1>4, <2>2, <2>3, LaneCounts
<1>5. ASSUME NEW m \in world.messages, ReceiveCard(m) PROVE Openings' /\ CountedOnce'
  <2>1. UNCHANGED <<lane, opened, clicked, counts>>
    BY <1>5 DEF ReceiveCard
  <2>2. /\ Openings' /\ Missed' = Missed /\ MissedClicks' = MissedClicks
        /\ Missed \in Int /\ MissedClicks \in Int
    BY <2>1, CountsAreNumbers DEF Openings, Missed, MissedClicks, InFlight
  <2>3. Failures \in Int /\ Failures' \in Int /\ Failures' >= Failures
    BY <1>0, FailuresGrow
  <2> QED BY <2>2, <2>3 DEF CountedOnce
<1>6. ASSUME NEW m \in world.messages, NEW d \in Lanes, NEW c \in Contacts, Receive(d, m, c)
      PROVE  Openings' /\ CountedOnce'
  <2> DEFINE r == IF FollowedBefore(m.src, m.kind, c) THEN NoLane
                  ELSE [at |-> "write", src |-> m.src, kind |-> m.kind, contact |-> c, seen |-> send[c]]
  <2>1. m \in Messages /\ m.src \in {"resend", "sms"}
    BY <1>6, StoreAssumption DEF Bounds, ResendOnly, Receive
  <2>2. /\ lane' = [lane EXCEPT ![d] = r] /\ lane[d].at = "idle"
        /\ UNCHANGED <<opened, clicked, counts>>
    BY <1>6 DEF Receive
  <2>3. Quiet(r) /\ r.at # "count"
    BY <1>1, <2>1 DEF Quiet, IsLane
  <2> HIDE DEF r
  <2> QED BY <1>4, <2>2, <2>3
<1>7. ASSUME NEW d \in Lanes, LaneStep(d) PROVE Openings' /\ CountedOnce'
  <2>1. lane[d].src \notin {"email", "link"}
    BY <1>0 DEF Quiet
  <2>2. CASE ResendOpen(d)
    <3>1. CASE To(d) \notin opened
      <4> DEFINE r == [lane[d] EXCEPT !.at = "count"]
      <4>1. /\ lane[d].at = "write" /\ lane[d].kind = "open" /\ Step(d, "count")
            /\ opened' = opened \cup {To(d)} /\ UNCHANGED <<clicked, counts>>
        BY <2>2, <3>1 DEF ResendOpen, At
      <4>2. Quiet(r) /\ r.at = "count" /\ r.kind = "open" /\ lane' = [lane EXCEPT ![d] = r]
        BY <1>2, <4>1
      <4>3. IsFiniteSet(opened') /\ Cardinality(opened') = Cardinality(opened) + 1
        BY <1>0, <3>1, <4>1, FS_AddElement
      <4> HIDE DEF r
      <4>4. /\ Counts(r, "open") = 1 /\ Counts(r, "click") = 0
            /\ Counts(lane[d], "open") = 0 /\ Counts(lane[d], "click") = 0
        BY <4>1, <4>2 DEF Counts
      <4>5. /\ Cardinality(opened') - counts'.opened - Counts(r, "open")
                 = Cardinality(opened) - counts.opened - Counts(lane[d], "open") + 0
            /\ Cardinality(clicked') - counts'.clicked - Counts(r, "click")
                 = Cardinality(clicked) - counts.clicked - Counts(lane[d], "click") + 0
        BY <1>0, <4>1, <4>3, <4>4
      <4>6. /\ IsFiniteSet(clicked')
            /\ counts' \in [sent : Nat, opened : Nat, clicked : Nat, failed : Nat]
            /\ 0 \in {0, 1} /\ 0 + 0 = 0
        BY <1>0, <4>1
      <4> QED BY <1>0, <4>2, <4>3, <4>5, <4>6, LaneCounts
    <3>2. CASE To(d) \in opened
      BY <1>1, <1>4, <2>2, <3>2 DEF ResendOpen, At, Served
    <3> QED BY <3>1, <3>2
  <2>3. CASE ResendClick(d)
    <3>1. CASE To(d) \notin clicked
      <4> DEFINE r == [lane[d] EXCEPT !.at = "count"]
      <4>1. /\ lane[d].at = "write" /\ lane[d].kind = "click" /\ Step(d, "count")
            /\ clicked' = clicked \cup {To(d)} /\ UNCHANGED <<opened, counts>>
        BY <2>3, <3>1 DEF ResendClick, At
      <4>2. Quiet(r) /\ r.at = "count" /\ r.kind = "click" /\ lane' = [lane EXCEPT ![d] = r]
        BY <1>2, <4>1
      <4>3. IsFiniteSet(clicked') /\ Cardinality(clicked') = Cardinality(clicked) + 1
        BY <1>0, <3>1, <4>1, FS_AddElement
      <4> HIDE DEF r
      <4>4. /\ Counts(r, "click") = 1 /\ Counts(r, "open") = 0
            /\ Counts(lane[d], "open") = 0 /\ Counts(lane[d], "click") = 0
        BY <4>1, <4>2 DEF Counts
      <4>5. /\ Cardinality(opened') - counts'.opened - Counts(r, "open")
                 = Cardinality(opened) - counts.opened - Counts(lane[d], "open") + 0
            /\ Cardinality(clicked') - counts'.clicked - Counts(r, "click")
                 = Cardinality(clicked) - counts.clicked - Counts(lane[d], "click") + 0
        BY <1>0, <4>1, <4>3, <4>4
      <4>6. /\ IsFiniteSet(opened')
            /\ counts' \in [sent : Nat, opened : Nat, clicked : Nat, failed : Nat]
            /\ 0 \in {0, 1} /\ 0 + 0 = 0
        BY <1>0, <4>1
      <4> QED BY <1>0, <4>2, <4>3, <4>5, <4>6, LaneCounts
    <3>2. CASE To(d) \in clicked
      BY <1>1, <1>4, <2>3, <3>2 DEF ResendClick, At, Served
    <3> QED BY <3>1, <3>2
  <2>4. CASE ResendBounce(d)
    <3>1. /\ lane[d].at = "write" /\ lane[d].kind = "bounce"
          /\ Step(d, "count") \/ Served(d)
          /\ UNCHANGED <<opened, clicked, counts>>
      BY <2>4 DEF ResendBounce, At
    <3>2. CASE Served(d)
      BY <1>1, <1>4, <3>1, <3>2 DEF Served
    <3>3. CASE Step(d, "count")
      <4> DEFINE r == [lane[d] EXCEPT !.at = "count"]
      <4>1. Quiet(r) /\ r.at = "count" /\ r.kind = "bounce" /\ lane' = [lane EXCEPT ![d] = r]
        BY <1>2, <3>1, <3>3
      <4> HIDE DEF r
      <4>2. /\ Counts(r, "open") = 0 /\ Counts(r, "click") = 0
            /\ Counts(lane[d], "open") = 0 /\ Counts(lane[d], "click") = 0
        BY <3>1, <4>1 DEF Counts
      <4>3. /\ Cardinality(opened') - counts'.opened - Counts(r, "open")
                 = Cardinality(opened) - counts.opened - Counts(lane[d], "open") + 0
            /\ Cardinality(clicked') - counts'.clicked - Counts(r, "click")
                 = Cardinality(clicked) - counts.clicked - Counts(lane[d], "click") + 0
        BY <1>0, <3>1, <4>2
      <4>4. /\ IsFiniteSet(opened') /\ IsFiniteSet(clicked')
            /\ counts' \in [sent : Nat, opened : Nat, clicked : Nat, failed : Nat]
            /\ 0 \in {0, 1} /\ 0 + 0 = 0
        BY <1>0, <3>1
      <4> QED BY <1>0, <4>1, <4>3, <4>4, LaneCounts
    <3> QED BY <3>1, <3>2, <3>3
  <2>5. CASE ResendUnsubscribe(d)
    <3>1. lane[d].at = "write" /\ Step(d, "mark") /\ UNCHANGED <<opened, clicked, counts>>
      BY <2>5 DEF ResendUnsubscribe, At
    <3> DEFINE r == [lane[d] EXCEPT !.at = "mark"]
    <3>2. Quiet(r) /\ r.at = "mark" /\ lane' = [lane EXCEPT ![d] = r]
      BY <1>2, <3>1
    <3> HIDE DEF r
    <3> QED BY <1>4, <3>1, <3>2
  <2>6. CASE ResendMark(d) \/ Log(d) \/ Sms(d)
    BY <1>1, <1>4, <2>6 DEF ResendMark, Log, Sms, At, Served
  <2>7. CASE Count(d)
    <3>1. /\ lane[d].at = "count" /\ lane[d].kind \in {"open", "click", "bounce"}
          /\ counts' = [counts EXCEPT ![Counter[lane[d].kind]] = @ + 1]
          /\ UNCHANGED <<opened, clicked>>
          /\ Step(d, "log") \/ Served(d)
      BY <1>0, <2>7 DEF Count, Quiet
    <3>2. PICK r : /\ Quiet(r) /\ r.at # "count" /\ lane' = [lane EXCEPT ![d] = r]
      BY <1>1, <1>2, <3>1 DEF Served
    <3>3. /\ Counts(r, "open") = 0 /\ Counts(r, "click") = 0
          /\ Counts(lane[d], "open") = (IF lane[d].kind = "open" THEN 1 ELSE 0)
          /\ Counts(lane[d], "click") = (IF lane[d].kind = "click" THEN 1 ELSE 0)
      BY <3>1, <3>2 DEF Counts
    <3>4. /\ counts' \in [sent : Nat, opened : Nat, clicked : Nat, failed : Nat]
          /\ counts'.opened = counts.opened + Counts(lane[d], "open")
          /\ counts'.clicked = counts.clicked + Counts(lane[d], "click")
      <4>1. CASE lane[d].kind = "open"
        <5>1. Counter[lane[d].kind] = "opened"
          BY <4>1 DEF Counter
        <5>2. counts' = [counts EXCEPT !["opened"] = @ + 1]
          BY <3>1, <5>1
        <5> QED BY <1>0, <3>3, <4>1, <5>2
      <4>2. CASE lane[d].kind = "click"
        <5>1. Counter[lane[d].kind] = "clicked"
          BY <4>2 DEF Counter
        <5>2. counts' = [counts EXCEPT !["clicked"] = @ + 1]
          BY <3>1, <5>1
        <5> QED BY <1>0, <3>3, <4>2, <5>2
      <4>3. CASE lane[d].kind = "bounce"
        <5>1. Counter[lane[d].kind] = "failed"
          BY <4>3 DEF Counter
        <5>2. counts' = [counts EXCEPT !["failed"] = @ + 1]
          BY <3>1, <5>1
        <5> QED BY <1>0, <3>3, <4>3, <5>2
      <4> QED BY <3>1, <4>1, <4>2, <4>3
    <3>5. /\ Cardinality(opened') - counts'.opened - Counts(r, "open")
               = Cardinality(opened) - counts.opened - Counts(lane[d], "open") + 0
          /\ Cardinality(clicked') - counts'.clicked - Counts(r, "click")
               = Cardinality(clicked) - counts.clicked - Counts(lane[d], "click") + 0
      BY <1>0, <3>1, <3>3, <3>4
    <3>6. IsFiniteSet(opened') /\ IsFiniteSet(clicked') /\ 0 \in {0, 1} /\ 0 + 0 = 0
      BY <1>0, <3>1
    <3> QED BY <1>0, <3>2, <3>4, <3>5, <3>6, LaneCounts
  <2>8. ~(EmailWrite(d) \/ BouncedOptOut(d) \/ TrackOpen(d) \/ TrackClick(d) \/ TrackUnsubscribe(d))
    BY <2>1 DEF EmailWrite, BouncedOptOut, TrackOpen, TrackClick, TrackUnsubscribe, At
  <2> QED BY <1>7, <2>2, <2>3, <2>4, <2>5, <2>6, <2>7, <2>8 DEF LaneStep
<1>8. ASSUME NEW d \in Lanes, LaneFails(d) PROVE Openings' /\ CountedOnce'
  <2>1. /\ Fault \/ Crash
        /\ lane' = [lane EXCEPT ![d] = NoLane] /\ UNCHANGED <<opened, clicked, counts>>
    BY <1>8 DEF LaneFails, Served
  <2> DEFINE o == Counts(lane[d], "open")
             k == Counts(lane[d], "click")
  <2>2. o \in {0, 1} /\ k \in {0, 1} /\ (o + k = 0 \/ o + k = 1)
    BY DEF Counts
  <2>3. /\ Cardinality(opened') - counts'.opened - Counts(NoLane, "open")
             = Cardinality(opened) - counts.opened - Counts(lane[d], "open") + o
        /\ Cardinality(clicked') - counts'.clicked - Counts(NoLane, "click")
             = Cardinality(clicked) - counts.clicked - Counts(lane[d], "click") + k
    BY <1>0, <1>1, <1>3, <2>1
  <2>4. /\ IsFiniteSet(opened') /\ IsFiniteSet(clicked')
        /\ counts' \in [sent : Nat, opened : Nat, clicked : Nat, failed : Nat]
        /\ o + k = 0 \/ (o + k = 1 /\ (Fault \/ Crash))
    BY <1>0, <2>1, <2>2
  <2> HIDE DEF o, k
  <2> QED BY <1>0, <1>1, <2>1, <2>2, <2>3, <2>4, LaneCounts
<1> QED BY <1>5, <1>6, <1>7, <1>8 DEF DeliveryNext

(* Nothing is opened, clicked or counted initially. *)
LEMMA CountInit == Init => CountInv
<1> SUFFICES ASSUME Init PROVE CountInv
  OBVIOUS
<1>1. Bounds /\ Failures = 0
  BY PurchasesInit, StoreAssumption DEF PurchasesInv, Bounds, Failures, Init, StoreInit
<1>2. /\ lane = [d \in Lanes |-> NoLane] /\ opened = {} /\ clicked = {}
      /\ counts = [sent |-> 0, opened |-> 0, clicked |-> 0, failed |-> 0]
  BY DEF Init, DeliveryInit
<1>3. Quiet(NoLane) /\ NoLane.at = "idle"
  BY DEF NoLane, IsLane, Quiet
<1>4. Openings
  BY <1>2, <1>3, FS_EmptySet DEF Openings, Quiet
<1>5. InFlight("open") = 0 /\ InFlight("click") = 0 /\ Cardinality({}) = 0
  <2>1. \A kind : {d \in Lanes : lane[d].at = "count" /\ lane[d].kind = kind} = {}
    BY <1>2, <1>3
  <2> QED BY <2>1, FS_EmptySet DEF InFlight
<1>6. Missed = 0 /\ MissedClicks = 0
  BY <1>2, <1>5 DEF Missed, MissedClicks
<1> QED BY <1>1, <1>4, <1>6 DEF CountInv, CountedOnce

(* Every step of the account keeps it. *)
LEMMA CountInductive == CountInv /\ [Next]_vars => CountInv'
<1> SUFFICES ASSUME CountInv, [Next]_vars PROVE CountInv'
  OBVIOUS
<1>1. UNCHANGED world
  BY WorldStays
<1>2. Spends
  BY AutomationsSpend, ImportSpends, DeliverySpends, BookSpends, ApiSpends, VisaSpends
     DEF Next, Tick, vars, store, Spends
<1>3. Bounds' /\ Failures \in Int /\ Failures' \in Int /\ Failures' >= Failures
  BY <1>1, <1>2, FailuresGrow DEF CountInv
<1>4. ResendOnly' = ResendOnly
  BY <1>1 DEF ResendOnly
<1>5. ASSUME UNCHANGED deliveryVars PROVE CountInv'
  <2>1. UNCHANGED <<lane, opened, clicked, counts>>
    BY <1>5 DEF deliveryVars
  <2>2. ResendOnly => Openings'
    BY <2>1 DEF CountInv, Openings
  <2>3. Missed' = Missed /\ MissedClicks' = MissedClicks
    BY <2>1 DEF Missed, MissedClicks, InFlight
  <2>4. ResendOnly => Missed \in Int /\ MissedClicks \in Int
    BY CountsAreNumbers DEF CountInv
  <2>5. CountedOnce'
    BY <1>3, <1>4, <2>3, <2>4 DEF CountInv, CountedOnce
  <2> QED BY <1>3, <1>4, <2>2, <2>5 DEF CountInv
<1>6. CASE DeliveryNext
  BY <1>3, <1>4, <1>6, DeliveryCounts DEF CountInv
<1>7. CASE ~DeliveryNext
  <2>1. UNCHANGED deliveryVars
    BY <1>7, AutomationsFrame, ImportFrame, BookFrame, ApiFrame, VisaFrame
       DEF Next, Tick, vars, others, Apart, Around, Aside, Away
  <2> QED BY <1>5, <2>1
<1> QED BY <1>6, <1>7

(* receiveResendWebhook updates a row on the condition that it is not opened,
   or clicked, yet, and increments the campaign's counter in the next
   statement.  However often an event is delivered, and however many handlers
   run at once, each send is counted once, and missed only if one failed in
   between. *)
THEOREM CountedStaysOnce == Spec => []CountedOnce
<1>1. Spec => []CountInv
  BY CountInit, CountInductive, PTL DEF Spec
<1>2. CountInv => CountedOnce
  BY DEF CountInv, CountedOnce
<1> QED BY <1>1, <1>2, PTL

-----------------------------------------------------------------------------
(* Events of any source *)

(* A handler, and what it can be about to count. *)
Handling(r) ==
  /\ IsLane(r)
  /\ r.at # "idle" => r.contact \in Contacts
  /\ r.at = "count" => r.kind \in DOMAIN Counter
Handlers ==
  /\ DOMAIN lane = Lanes /\ \A d \in Lanes : Handling(lane[d])
  /\ IsFiniteSet(opened) /\ IsFiniteSet(clicked)
  /\ counts \in [sent : Nat, opened : Nat, clicked : Nat, failed : Nat]

(* Who has not counted yet what arrived. *)
Waits(r) == IF r.at \in {"write", "count"} THEN 1 ELSE 0
Waiting == Cardinality({d \in Lanes : lane[d].at \in {"write", "count"}})
EventsInv ==
  /\ Bounds /\ Handlers
  /\ Missed <= Failures /\ MissedClicks <= Failures
  /\ counts.opened + counts.clicked + Waiting <= Arrived

(* They are counted one by one, too. *)
LEMMA WaitingAt ==
  ASSUME DOMAIN lane = Lanes, NEW d \in Lanes, NEW r, lane' = [lane EXCEPT ![d] = r]
  PROVE  /\ Waiting \in Nat /\ Waiting' \in Nat
         /\ Waiting' = Waiting + Waits(r) - Waits(lane[d])
<1> DEFINE before == {x \in Lanes : lane[x].at \in {"write", "count"}}
           after == {x \in Lanes : lane'[x].at \in {"write", "count"}}
           rest == {x \in Lanes \ {d} : lane[x].at \in {"write", "count"}}
<1>1. IsFiniteSet(rest) /\ IsFiniteSet(before) /\ IsFiniteSet(after)
  BY StoreAssumption, FS_Subset
<1>2. /\ before = IF Waits(lane[d]) = 1 THEN rest \cup {d} ELSE rest
      /\ after = IF Waits(r) = 1 THEN rest \cup {d} ELSE rest
      /\ d \notin rest
  BY DEF Waits
<1>3. /\ Cardinality(rest \cup {d}) = Cardinality(rest) + 1 /\ Cardinality(rest) \in Nat
      /\ Waits(lane[d]) \in {0, 1} /\ Waits(r) \in {0, 1}
  BY <1>1, <1>2, FS_AddElement, FS_CardinalityType DEF Waits
<1> HIDE DEF before, after, rest
<1>4. /\ Cardinality(before) \in Nat /\ Cardinality(after) \in Nat
      /\ Cardinality(after) = Cardinality(before) + Waits(r) - Waits(lane[d])
  BY <1>2, <1>3
<1> QED BY <1>4 DEF before, after, Waiting

(* Only a delivery is an arrival. *)
LEMMA ArrivedGrows ==
  ASSUME Bounds, UNCHANGED world, Spends
  PROVE  /\ Arrived \in Int /\ Arrived' \in Int /\ Arrived' >= Arrived
         /\ Delivery => Arrived' = Arrived + 1
<1>1. world.deliveries \in Nat
  BY StoreAssumption DEF Bounds
<1>2. /\ left.deliveries \in Nat /\ left'.deliveries \in Nat /\ left'.deliveries <= left.deliveries
      /\ Delivery => left'.deliveries = left.deliveries - 1
  BY DEF Bounds, Spends, Fault, Crash, Request, Delivery
<1> QED BY <1>1, <1>2 DEF Arrived

(* A handler goes on, and opens or clicks, counts, arrives or fails. *)
LEMMA EventStep ==
  ASSUME EventsInv, UNCHANGED world, Spends,
         NEW d \in Lanes, NEW r, Handling(r), lane' = [lane EXCEPT ![d] = r],
         IsFiniteSet(opened'), IsFiniteSet(clicked'),
         counts' \in [sent : Nat, opened : Nat, clicked : Nat, failed : Nat],
         NEW f \in {0, 1}, f = 0 \/ Fault \/ Crash,
         NEW g \in {0, 1}, g = 0 \/ Delivery,
         Cardinality(opened') - counts'.opened - Counts(r, "open")
           <= Cardinality(opened) - counts.opened - Counts(lane[d], "open") + f,
         Cardinality(clicked') - counts'.clicked - Counts(r, "click")
           <= Cardinality(clicked) - counts.clicked - Counts(lane[d], "click") + f,
         counts'.opened + counts'.clicked + Waits(r)
           <= counts.opened + counts.clicked + Waits(lane[d]) + g
  PROVE  EventsInv'
<1>1. Handlers'
  BY DEF EventsInv, Handlers, Handling
<1>2. /\ {Cardinality(opened), Cardinality(clicked), counts.opened, counts.clicked} \subseteq Nat
      /\ {Cardinality(opened'), Cardinality(clicked'), counts'.opened, counts'.clicked} \subseteq Nat
  <2>1. /\ {Cardinality(opened), Cardinality(clicked)} \subseteq Nat
        /\ {Cardinality(opened'), Cardinality(clicked')} \subseteq Nat
    BY FS_CardinalityType DEF EventsInv, Handlers
  <2>2. {counts.opened, counts.clicked, counts'.opened, counts'.clicked} \subseteq Nat
    BY DEF EventsInv, Handlers
  <2> QED BY <2>1, <2>2
<1>3. /\ Bounds' /\ Failures \in Int /\ Failures' \in Int /\ Failures' >= Failures
      /\ Fault \/ Crash => Failures' = Failures + 1
      /\ Arrived \in Int /\ Arrived' \in Int /\ Arrived' >= Arrived
      /\ Delivery => Arrived' = Arrived + 1
  BY FailuresGrow, ArrivedGrows DEF EventsInv
<1>4. ASSUME NEW kind
      PROVE  /\ InFlight(kind) \in Nat /\ InFlight(kind)' \in Nat
             /\ InFlight(kind)' = InFlight(kind) + Counts(r, kind) - Counts(lane[d], kind)
             /\ Counts(r, kind) \in {0, 1} /\ Counts(lane[d], kind) \in {0, 1}
  <2>1. Counts(r, kind) \in {0, 1} /\ Counts(lane[d], kind) \in {0, 1}
    BY DEF Counts
  <2>2. DOMAIN lane = Lanes
    BY DEF EventsInv, Handlers
  <2> QED BY <2>1, <2>2, LanesAt
<1>5. Missed' <= Missed + f /\ Missed' \in Int /\ Missed \in Int
  <2>1. /\ InFlight("open") \in Nat /\ InFlight("open")' \in Nat
        /\ InFlight("open")' = InFlight("open") + Counts(r, "open") - Counts(lane[d], "open")
        /\ Counts(r, "open") \in {0, 1} /\ Counts(lane[d], "open") \in {0, 1}
    BY <1>4
  <2> QED BY <1>2, <2>1 DEF Missed
<1>6. MissedClicks' <= MissedClicks + f /\ MissedClicks' \in Int /\ MissedClicks \in Int
  <2>1. /\ InFlight("click") \in Nat /\ InFlight("click")' \in Nat
        /\ InFlight("click")' = InFlight("click") + Counts(r, "click") - Counts(lane[d], "click")
        /\ Counts(r, "click") \in {0, 1} /\ Counts(lane[d], "click") \in {0, 1}
    BY <1>4
  <2> QED BY <1>2, <2>1 DEF MissedClicks
<1>7. Missed' <= Failures' /\ MissedClicks' <= Failures'
  BY <1>3, <1>5, <1>6 DEF EventsInv
<1>8. counts'.opened + counts'.clicked + Waiting' <= Arrived'
  <2>1. /\ Waiting \in Nat /\ Waiting' \in Nat
        /\ Waiting' = Waiting + Waits(r) - Waits(lane[d])
    BY WaitingAt DEF EventsInv, Handlers
  <2>2. Waits(r) \in {0, 1} /\ Waits(lane[d]) \in {0, 1}
    BY DEF Waits
  <2>3. counts.opened + counts.clicked + Waiting <= Arrived
    BY DEF EventsInv
  <2> QED BY <1>2, <1>3, <2>1, <2>2, <2>3
<1> QED BY <1>1, <1>3, <1>7, <1>8 DEF EventsInv

(* What does nothing to sends and counters keeps it. *)
LEMMA EventsElsewhere ==
  ASSUME EventsInv, UNCHANGED world, Spends, UNCHANGED <<lane, opened, clicked, counts>>
  PROVE  EventsInv'
<1>1. /\ Handlers' /\ Missed' = Missed /\ MissedClicks' = MissedClicks /\ Waiting' = Waiting
      /\ Missed \in Int /\ MissedClicks \in Int /\ Waiting \in Nat
  <2>1. /\ IsFiniteSet({x \in Lanes : lane[x].at = "count" /\ lane[x].kind = "open"})
        /\ IsFiniteSet({x \in Lanes : lane[x].at = "count" /\ lane[x].kind = "click"})
        /\ IsFiniteSet({x \in Lanes : lane[x].at \in {"write", "count"}})
    BY StoreAssumption, FS_Subset
  <2>2. InFlight("open") \in Nat /\ InFlight("click") \in Nat /\ Waiting \in Nat
    BY <2>1, FS_CardinalityType DEF InFlight, Waiting
  <2>3. Missed \in Int /\ MissedClicks \in Int
    <3>1. Handlers
      BY DEF EventsInv
    <3>2. IsFiniteSet(opened) /\ IsFiniteSet(clicked) /\ counts.opened \in Nat /\ counts.clicked \in Nat
      BY <3>1 DEF Handlers
    <3>3. Cardinality(opened) \in Nat /\ Cardinality(clicked) \in Nat
      BY <3>2, FS_CardinalityType
    <3> QED BY <2>2, <3>2, <3>3 DEF Missed, MissedClicks
  <2> QED BY <2>2, <2>3 DEF EventsInv, Handlers, Missed, MissedClicks, InFlight, Waiting
<1>2. /\ Bounds' /\ Failures \in Int /\ Failures' \in Int /\ Failures' >= Failures
      /\ Arrived \in Int /\ Arrived' \in Int /\ Arrived' >= Arrived
  BY FailuresGrow, ArrivedGrows DEF EventsInv
<1>3. Missed' <= Failures' /\ MissedClicks' <= Failures'
  BY <1>1, <1>2 DEF EventsInv
<1>4. counts'.opened + counts'.clicked + Waiting' <= Arrived'
  <2>1. counts'.opened \in Nat /\ counts'.clicked \in Nat
    BY <1>1 DEF Handlers
  <2> QED BY <1>1, <1>2, <2>1 DEF EventsInv
<1> QED BY <1>1, <1>2, <1>3, <1>4 DEF EventsInv

(* Webhooks and links, statement by statement. *)
LEMMA EventDelivery == EventsInv /\ DeliveryNext => EventsInv'
<1> SUFFICES ASSUME EventsInv, DeliveryNext PROVE EventsInv'
  OBVIOUS
<1>0. /\ UNCHANGED world /\ Spends
      /\ DOMAIN lane = Lanes /\ \A d \in Lanes : Handling(lane[d])
      /\ IsFiniteSet(opened) /\ IsFiniteSet(clicked)
      /\ counts \in [sent : Nat, opened : Nat, clicked : Nat, failed : Nat]
      /\ {Cardinality(opened), Cardinality(clicked), counts.opened, counts.clicked} \subseteq Nat
  BY DeliveryFrame, DeliverySpends, FS_CardinalityType DEF Beside, EventsInv, Handlers
<1>1. /\ Handling(NoLane) /\ NoLane.at = "idle" /\ Waits(NoLane) = 0
      /\ \A kind : Counts(NoLane, kind) = 0
  BY DEF NoLane, IsLane, Handling, Counts, Waits
<1>2. ASSUME NEW d \in Lanes, NEW x \in {"count", "log", "mark"}, lane[d].at # "idle",
             x = "count" => lane[d].kind \in DOMAIN Counter
      PROVE  LET r == [lane[d] EXCEPT !.at = x] IN
             /\ Handling(r) /\ r.at = x /\ r.kind = lane[d].kind
             /\ Step(d, x) => lane' = [lane EXCEPT ![d] = r]
  BY <1>0, <1>2 DEF Handling, IsLane, Step
<1>3. ASSUME NEW d \in Lanes, NEW r, Handling(r), lane' = [lane EXCEPT ![d] = r],
             lane[d].at # "count", r.at # "count", UNCHANGED <<opened, clicked, counts>>,
             NEW g \in {0, 1}, g = 0 \/ Delivery, Waits(r) <= Waits(lane[d]) + g
      PROVE  EventsInv'
  <2>1. \A kind : Counts(r, kind) = 0 /\ Counts(lane[d], kind) = 0
    BY <1>3 DEF Counts
  <2>2. Waits(r) \in {0, 1} /\ Waits(lane[d]) \in {0, 1}
    BY DEF Waits
  <2>3. /\ Cardinality(opened') - counts'.opened - Counts(r, "open")
             <= Cardinality(opened) - counts.opened - Counts(lane[d], "open") + 0
        /\ Cardinality(clicked') - counts'.clicked - Counts(r, "click")
             <= Cardinality(clicked) - counts.clicked - Counts(lane[d], "click") + 0
        /\ counts'.opened + counts'.clicked + Waits(r)
             <= counts.opened + counts.clicked + Waits(lane[d]) + g
    BY <1>0, <1>3, <2>1, <2>2
  <2>4. /\ IsFiniteSet(opened') /\ IsFiniteSet(clicked') /\ 0 \in {0, 1}
        /\ counts' \in [sent : Nat, opened : Nat, clicked : Nat, failed : Nat]
    BY <1>0, <1>3
  <2> QED BY <1>0, <1>3, <2>3, <2>4, EventStep
<1>4. ASSUME NEW d \in Lanes, Served(d), lane[d].at # "count", UNCHANGED <<opened, clicked, counts>>
      PROVE  EventsInv'
  <2>1. Waits(lane[d]) \in {0, 1}
    BY DEF Waits
  <2>2. 0 <= Waits(lane[d]) + 0 /\ 0 \in {0, 1}
    BY <2>1
  <2> QED BY <1>1, <1>3, <1>4, <2>2 DEF Served
<1>5. ASSUME NEW m \in world.messages, ReceiveCard(m) PROVE EventsInv'
  <2>1. UNCHANGED <<lane, opened, clicked, counts>>
    BY <1>5 DEF ReceiveCard
  <2> QED BY <1>0, <2>1, EventsElsewhere
<1>6. ASSUME NEW m \in world.messages, NEW d \in Lanes, NEW c \in Contacts, Receive(d, m, c)
      PROVE  EventsInv'
  <2> DEFINE r == IF FollowedBefore(m.src, m.kind, c) THEN NoLane
                  ELSE [at |-> "write", src |-> m.src, kind |-> m.kind, contact |-> c, seen |-> send[c]]
  <2>1. /\ lane' = [lane EXCEPT ![d] = r] /\ lane[d].at = "idle" /\ Delivery
        /\ UNCHANGED <<opened, clicked, counts>>
    BY <1>6 DEF Receive
  <2>2. Handling(r) /\ r.at # "count"
    BY <1>1 DEF Handling, IsLane
  <2> HIDE DEF r
  <2>3. Waits(r) <= Waits(lane[d]) + 1 /\ 1 \in {0, 1}
    BY DEF Waits
  <2> QED BY <1>3, <2>1, <2>2, <2>3
<1>7. ASSUME NEW d \in Lanes, LaneStep(d) PROVE EventsInv'
  <2>1. CASE BouncedOptOut(d) \/ ResendMark(d) \/ Log(d) \/ Sms(d) \/ TrackUnsubscribe(d)
    BY <1>4, <2>1 DEF BouncedOptOut, ResendMark, Log, Sms, TrackUnsubscribe, At
  <2>2. CASE ResendUnsubscribe(d)
    <3>1. lane[d].at = "write" /\ Step(d, "mark") /\ UNCHANGED <<opened, clicked, counts>>
      BY <2>2 DEF ResendUnsubscribe, At
    <3> DEFINE r == [lane[d] EXCEPT !.at = "mark"]
    <3>2. Handling(r) /\ r.at = "mark" /\ lane' = [lane EXCEPT ![d] = r]
      BY <1>2, <3>1
    <3> HIDE DEF r
    <3>3. Waits(r) <= Waits(lane[d]) + 0 /\ 0 \in {0, 1}
      BY <3>1, <3>2 DEF Waits
    <3> QED BY <1>3, <3>1, <3>2, <3>3
  <2>3. ASSUME lane[d].at = "write", lane[d].kind \in DOMAIN Counter, Step(d, "count"),
               UNCHANGED counts,
               lane[d].kind = "open" => opened' \in {opened, opened \cup {To(d)}},
               lane[d].kind # "open" => opened' = opened,
               lane[d].kind = "click" => clicked' \in {clicked, clicked \cup {To(d)}},
               lane[d].kind # "click" => clicked' = clicked
        PROVE  EventsInv'
    <3> DEFINE r == [lane[d] EXCEPT !.at = "count"]
    <3>1. Handling(r) /\ r.at = "count" /\ r.kind = lane[d].kind /\ lane' = [lane EXCEPT ![d] = r]
      BY <1>2, <2>3
    <3> HIDE DEF r
    <3>2. /\ IsFiniteSet(opened') /\ IsFiniteSet(clicked')
          /\ Cardinality(opened') \in Nat /\ Cardinality(clicked') \in Nat
          /\ Cardinality(opened') <= Cardinality(opened) + Counts(r, "open")
          /\ Cardinality(clicked') <= Cardinality(clicked) + Counts(r, "click")
      <4>1. /\ IsFiniteSet(opened \cup {To(d)}) /\ IsFiniteSet(clicked \cup {To(d)})
            /\ Cardinality(opened \cup {To(d)}) \in {Cardinality(opened), Cardinality(opened) + 1}
            /\ Cardinality(clicked \cup {To(d)}) \in {Cardinality(clicked), Cardinality(clicked) + 1}
        BY <1>0, FS_AddElement
      <4>2. /\ Counts(r, "open") = (IF lane[d].kind = "open" THEN 1 ELSE 0)
            /\ Counts(r, "click") = (IF lane[d].kind = "click" THEN 1 ELSE 0)
        BY <3>1 DEF Counts
      <4> QED BY <1>0, <2>3, <4>1, <4>2
    <3>3. /\ Counts(lane[d], "open") = 0 /\ Counts(lane[d], "click") = 0
          /\ Counts(r, "open") \in {0, 1} /\ Counts(r, "click") \in {0, 1}
          /\ Waits(r) = 1 /\ Waits(lane[d]) = 1
      BY <2>3, <3>1 DEF Counts, Waits
    <3>4. /\ Cardinality(opened') - counts'.opened - Counts(r, "open")
               <= Cardinality(opened) - counts.opened - Counts(lane[d], "open") + 0
          /\ Cardinality(clicked') - counts'.clicked - Counts(r, "click")
               <= Cardinality(clicked) - counts.clicked - Counts(lane[d], "click") + 0
          /\ counts'.opened + counts'.clicked + Waits(r)
               <= counts.opened + counts.clicked + Waits(lane[d]) + 0
          /\ 0 \in {0, 1} /\ counts' \in [sent : Nat, opened : Nat, clicked : Nat, failed : Nat]
      BY <1>0, <2>3, <3>2, <3>3
    <3> QED BY <1>0, <3>1, <3>2, <3>4, EventStep
  <2>4. CASE EmailWrite(d)
    <3>1. lane[d].at = "write" /\ Step(d, "count") /\ UNCHANGED counts
      BY <2>4 DEF EmailWrite, At
    <3>2. lane[d].kind \in DOMAIN Counter
      BY <2>4 DEF EmailWrite, At, EmailStatus, Counter
    <3>3. /\ opened' = IF lane[d].kind = "open" THEN opened \cup {To(d)} ELSE opened
          /\ clicked' = IF lane[d].kind = "click" THEN clicked \cup {To(d)} ELSE clicked
      BY <2>4 DEF EmailWrite
    <3> QED BY <2>3, <3>1, <3>2, <3>3
  <2>5. CASE ResendOpen(d) \/ ResendClick(d) \/ ResendBounce(d)
    <3>1. lane[d].at = "write" /\ lane[d].kind \in DOMAIN Counter /\ UNCHANGED counts
      BY <2>5 DEF ResendOpen, ResendClick, ResendBounce, At, Counter
    <3>2. CASE Served(d) /\ UNCHANGED <<opened, clicked>>
      BY <1>4, <3>1, <3>2
    <3>3. CASE Step(d, "count") /\ lane[d].kind = "open" /\ opened' = opened \cup {To(d)}
               /\ UNCHANGED clicked
      BY <2>3, <3>1, <3>3
    <3>4. CASE Step(d, "count") /\ lane[d].kind = "click" /\ clicked' = clicked \cup {To(d)}
               /\ UNCHANGED opened
      BY <2>3, <3>1, <3>4
    <3>5. CASE Step(d, "count") /\ lane[d].kind = "bounce" /\ UNCHANGED <<opened, clicked>>
      BY <2>3, <3>1, <3>5
    <3> QED BY <2>5, <3>2, <3>3, <3>4, <3>5 DEF ResendOpen, ResendClick, ResendBounce, At
  <2>6. ASSUME NEW r, Handling(r), lane' = [lane EXCEPT ![d] = r], r.at # "count",
               Waits(r) = 0, Waits(lane[d]) = 1,
               IsFiniteSet(opened'), IsFiniteSet(clicked'),
               counts' \in [sent : Nat, opened : Nat, clicked : Nat, failed : Nat],
               NEW o \in {0, 1}, NEW k \in {0, 1}, o + k <= 1,
               counts'.opened = counts.opened + o, counts'.clicked = counts.clicked + k,
               Cardinality(opened') + Counts(lane[d], "open") <= Cardinality(opened) + o,
               Cardinality(clicked') + Counts(lane[d], "click") <= Cardinality(clicked) + k
        PROVE  EventsInv'
    <3>1. Counts(r, "open") = 0 /\ Counts(r, "click") = 0
      BY <2>6 DEF Counts
    <3>2. Counts(lane[d], "open") \in {0, 1} /\ Counts(lane[d], "click") \in {0, 1}
      BY DEF Counts
    <3>3. Cardinality(opened') \in Nat /\ Cardinality(clicked') \in Nat
      BY <2>6, FS_CardinalityType
    <3>4. /\ Cardinality(opened') - counts'.opened - Counts(r, "open")
               <= Cardinality(opened) - counts.opened - Counts(lane[d], "open") + 0
          /\ Cardinality(clicked') - counts'.clicked - Counts(r, "click")
               <= Cardinality(clicked) - counts.clicked - Counts(lane[d], "click") + 0
      BY <1>0, <2>6, <3>1, <3>2, <3>3
    <3>5. /\ counts'.opened + counts'.clicked + Waits(r)
               <= counts.opened + counts.clicked + Waits(lane[d]) + 0
          /\ 0 \in {0, 1}
      BY <1>0, <2>6
    <3> QED BY <1>0, <2>6, <3>4, <3>5, EventStep
  <2>7. CASE Count(d)
    <3>1. /\ lane[d].at = "count" /\ UNCHANGED <<opened, clicked>>
          /\ counts' = [counts EXCEPT ![Counter[lane[d].kind]] = @ + 1]
          /\ Step(d, "log") \/ Served(d)
      BY <2>7 DEF Count
    <3>2. PICK r : Handling(r) /\ r.at \in {"log", "idle"} /\ lane' = [lane EXCEPT ![d] = r]
      BY <1>1, <1>2, <3>1 DEF Served
    <3>3. /\ Waits(r) = 0 /\ Waits(lane[d]) = 1
          /\ Counts(lane[d], "open") = (IF lane[d].kind = "open" THEN 1 ELSE 0)
          /\ Counts(lane[d], "click") = (IF lane[d].kind = "click" THEN 1 ELSE 0)
      BY <3>1, <3>2 DEF Counts, Waits
    <3>4. lane[d].kind \in DOMAIN Counter
      BY <1>0, <3>1 DEF Handling
    <3> DEFINE o == Counts(lane[d], "open")
               k == Counts(lane[d], "click")
    <3>5. /\ counts' \in [sent : Nat, opened : Nat, clicked : Nat, failed : Nat]
          /\ counts'.opened = counts.opened + o /\ counts'.clicked = counts.clicked + k
      <4>1. CASE lane[d].kind = "open"
        <5>1. counts' = [counts EXCEPT !["opened"] = @ + 1]
          BY <3>1, <4>1 DEF Counter
        <5> QED BY <1>0, <3>3, <4>1, <5>1
      <4>2. CASE lane[d].kind = "click"
        <5>1. counts' = [counts EXCEPT !["clicked"] = @ + 1]
          BY <3>1, <4>2 DEF Counter
        <5> QED BY <1>0, <3>3, <4>2, <5>1
      <4>3. CASE lane[d].kind = "sent"
        <5>1. counts' = [counts EXCEPT !["sent"] = @ + 1]
          BY <3>1, <4>3 DEF Counter
        <5> QED BY <1>0, <3>3, <4>3, <5>1
      <4>4. CASE lane[d].kind \in {"hard", "soft", "bounce"}
        <5>1. Counter[lane[d].kind] = "failed"
          BY <4>4 DEF Counter
        <5>2. counts' = [counts EXCEPT !["failed"] = @ + 1]
          BY <3>1, <5>1
        <5> QED BY <1>0, <3>3, <4>4, <5>2
      <4> QED BY <3>4, <4>1, <4>2, <4>3, <4>4 DEF Counter
    <3>6. o \in {0, 1} /\ k \in {0, 1} /\ o + k <= 1
      BY <3>3
    <3>7. /\ Cardinality(opened') + o <= Cardinality(opened) + o
          /\ Cardinality(clicked') + k <= Cardinality(clicked) + k
          /\ IsFiniteSet(opened') /\ IsFiniteSet(clicked') /\ r.at # "count"
      BY <1>0, <3>1, <3>2, <3>6
    <3> QED BY <2>6, <3>2, <3>3, <3>5, <3>6, <3>7
  <2>8. CASE TrackOpen(d)
    <3>1. /\ lane[d].at = "write" /\ Served(d) /\ UNCHANGED clicked
          /\ opened' = opened \cup {To(d)} /\ counts' = [counts EXCEPT !.opened = @ + 1]
      BY <2>8 DEF TrackOpen, At
    <3>2. /\ Counts(lane[d], "open") = 0 /\ Counts(lane[d], "click") = 0 /\ Waits(lane[d]) = 1
      BY <3>1 DEF Counts, Waits
    <3>3. /\ IsFiniteSet(opened') /\ Cardinality(opened') \in {Cardinality(opened), Cardinality(opened) + 1}
      BY <1>0, <3>1, FS_AddElement
    <3>4. /\ counts' \in [sent : Nat, opened : Nat, clicked : Nat, failed : Nat]
          /\ counts'.opened = counts.opened + 1 /\ counts'.clicked = counts.clicked + 0
      BY <1>0, <3>1
    <3>5. /\ Cardinality(opened') + Counts(lane[d], "open") <= Cardinality(opened) + 1
          /\ Cardinality(clicked') + Counts(lane[d], "click") <= Cardinality(clicked) + 0
          /\ IsFiniteSet(clicked') /\ 0 \in {0, 1} /\ 1 \in {0, 1} /\ 1 + 0 <= 1
      BY <1>0, <3>1, <3>2, <3>3
    <3> QED BY <1>1, <2>6, <3>1, <3>2, <3>3, <3>4, <3>5 DEF Served
  <2>9. CASE TrackClick(d)
    <3>1. /\ lane[d].at = "write" /\ Served(d) /\ UNCHANGED opened
          /\ clicked' = clicked \cup {To(d)} /\ counts' = [counts EXCEPT !.clicked = @ + 1]
      BY <2>9 DEF TrackClick, At
    <3>2. /\ Counts(lane[d], "open") = 0 /\ Counts(lane[d], "click") = 0 /\ Waits(lane[d]) = 1
      BY <3>1 DEF Counts, Waits
    <3>3. /\ IsFiniteSet(clicked')
          /\ Cardinality(clicked') \in {Cardinality(clicked), Cardinality(clicked) + 1}
      BY <1>0, <3>1, FS_AddElement
    <3>4. /\ counts' \in [sent : Nat, opened : Nat, clicked : Nat, failed : Nat]
          /\ counts'.opened = counts.opened + 0 /\ counts'.clicked = counts.clicked + 1
      BY <1>0, <3>1
    <3>5. /\ Cardinality(opened') + Counts(lane[d], "open") <= Cardinality(opened) + 0
          /\ Cardinality(clicked') + Counts(lane[d], "click") <= Cardinality(clicked) + 1
          /\ IsFiniteSet(opened') /\ 0 \in {0, 1} /\ 1 \in {0, 1} /\ 0 + 1 <= 1
      BY <1>0, <3>1, <3>2, <3>3
    <3> QED BY <1>1, <2>6, <3>1, <3>2, <3>3, <3>4, <3>5 DEF Served
  <2> QED BY <1>7, <2>1, <2>2, <2>4, <2>5, <2>7, <2>8, <2>9 DEF LaneStep
<1>8. ASSUME NEW d \in Lanes, LaneFails(d) PROVE EventsInv'
  <2>1. /\ Fault \/ Crash
        /\ lane' = [lane EXCEPT ![d] = NoLane] /\ UNCHANGED <<opened, clicked, counts>>
    BY <1>8 DEF LaneFails, Served
  <2>2. /\ Counts(lane[d], "open") \in {0, 1} /\ Counts(lane[d], "click") \in {0, 1}
        /\ Waits(lane[d]) \in {0, 1}
    BY DEF Counts, Waits
  <2>3. /\ Cardinality(opened') - counts'.opened - Counts(NoLane, "open")
             <= Cardinality(opened) - counts.opened - Counts(lane[d], "open") + 1
        /\ Cardinality(clicked') - counts'.clicked - Counts(NoLane, "click")
             <= Cardinality(clicked) - counts.clicked - Counts(lane[d], "click") + 1
        /\ counts'.opened + counts'.clicked + Waits(NoLane)
             <= counts.opened + counts.clicked + Waits(lane[d]) + 0
    BY <1>0, <1>1, <2>1, <2>2
  <2>4. /\ IsFiniteSet(opened') /\ IsFiniteSet(clicked') /\ 0 \in {0, 1} /\ 1 \in {0, 1}
        /\ counts' \in [sent : Nat, opened : Nat, clicked : Nat, failed : Nat]
    BY <1>0, <2>1
  <2> QED BY <1>0, <1>1, <2>1, <2>3, <2>4, EventStep
<1> QED BY <1>5, <1>6, <1>7, <1>8 DEF DeliveryNext

(* Nothing has arrived, been opened or been counted initially. *)
LEMMA EventsInit == Init => EventsInv
<1> SUFFICES ASSUME Init PROVE EventsInv
  OBVIOUS
<1>1. Bounds /\ Failures = 0
  BY PurchasesInit, StoreAssumption DEF PurchasesInv, Bounds, Failures, Init, StoreInit
<1>2. /\ lane = [d \in Lanes |-> NoLane] /\ opened = {} /\ clicked = {}
      /\ counts = [sent |-> 0, opened |-> 0, clicked |-> 0, failed |-> 0]
  BY DEF Init, DeliveryInit
<1>3. Handling(NoLane) /\ NoLane.at = "idle"
  BY DEF NoLane, IsLane, Handling
<1>4. Handlers
  BY <1>2, <1>3, FS_EmptySet DEF Handlers
<1>5. InFlight("open") = 0 /\ InFlight("click") = 0 /\ Waiting = 0 /\ Cardinality({}) = 0
  <2>1. /\ \A kind : {d \in Lanes : lane[d].at = "count" /\ lane[d].kind = kind} = {}
        /\ {d \in Lanes : lane[d].at \in {"write", "count"}} = {}
    BY <1>2, <1>3
  <2> QED BY <2>1, FS_EmptySet DEF InFlight, Waiting
<1>6. Missed = 0 /\ MissedClicks = 0
  BY <1>2, <1>5 DEF Missed, MissedClicks
<1>7. Arrived = 0
  BY <1>1, StoreAssumption DEF Init, StoreInit, Arrived, Bounds
<1> QED BY <1>1, <1>2, <1>4, <1>5, <1>6, <1>7 DEF EventsInv

(* Every step of the account keeps it. *)
LEMMA EventsInductive == EventsInv /\ [Next]_vars => EventsInv'
<1> SUFFICES ASSUME EventsInv, [Next]_vars PROVE EventsInv'
  OBVIOUS
<1>1. CASE DeliveryNext
  BY <1>1, EventDelivery
<1>2. CASE ~DeliveryNext
  <2>1. UNCHANGED world /\ Spends
    BY WorldStays, AutomationsSpend, ImportSpends, DeliverySpends, BookSpends, ApiSpends, VisaSpends
       DEF Next, Tick, vars, store, Spends
  <2>2. UNCHANGED <<lane, opened, clicked, counts>>
    <3>1. UNCHANGED deliveryVars
      BY <1>2, AutomationsFrame, ImportFrame, BookFrame, ApiFrame, VisaFrame
         DEF Next, Tick, vars, others, Apart, Around, Aside, Away
    <3> QED BY <3>1 DEF deliveryVars
  <2> QED BY <2>1, <2>2, EventsElsewhere
<1> QED BY <1>1, <1>2

(* The handlers write the row and increment the campaign's counter in two
   statements (receiveWebhook, receiveResendWebhook) or in one transaction
   (trackOpen, trackClick), and a status is overwritten by whatever arrives
   late.  Whatever the sources, a send that is opened or clicked is missed by
   the counters only when a handler failed between the two statements, and they
   never count more than arrived. *)
THEOREM EventsStayCounted == Spec => []EventsCounted
<1>1. Spec => []EventsInv
  BY EventsInit, EventsInductive, PTL DEF Spec
<1>2. EventsInv => EventsCounted
  <2> SUFFICES ASSUME EventsInv PROVE EventsCounted
    OBVIOUS
  <2> DEFINE open == {d \in Lanes : lane[d].at = "count" /\ lane[d].kind = "open"}
             click == {d \in Lanes : lane[d].at = "count" /\ lane[d].kind = "click"}
             all == {d \in Lanes : lane[d].at \in {"write", "count"}}
  <2>1. IsFiniteSet(open) /\ IsFiniteSet(click) /\ IsFiniteSet(all)
    BY StoreAssumption, FS_Subset
  <2>2. open \cup click \subseteq all /\ open \cap click = {}
    OBVIOUS
  <2> HIDE DEF open, click, all
  <2>3. Cardinality(open \cup click) = Cardinality(open) + Cardinality(click)
    <3>1. Cardinality(open \cup click)
            = Cardinality(open) + Cardinality(click) - Cardinality(open \cap click)
      BY <2>1, FS_Union
    <3>2. Cardinality(open) \in Nat /\ Cardinality(click) \in Nat
      BY <2>1, FS_CardinalityType
    <3>3. Cardinality(open \cap click) = 0
      BY <2>2, FS_EmptySet
    <3> QED BY <3>1, <3>2, <3>3
  <2>4. /\ Cardinality(open \cup click) <= Cardinality(all)
        /\ {Cardinality(open), Cardinality(click), Cardinality(all)} \subseteq Nat
    BY <2>1, <2>2, FS_Subset, FS_CardinalityType
  <2>5. InFlight("open") + InFlight("click") <= Waiting
        /\ {InFlight("open"), InFlight("click"), Waiting} \subseteq Nat
    BY <2>3, <2>4 DEF open, click, all, InFlight, Waiting
  <2>6. {counts.opened, counts.clicked} \subseteq Nat /\ Arrived \in Int
    <3>1. world.deliveries \in Nat /\ left.deliveries \in Nat
      BY StoreAssumption DEF EventsInv, Bounds
    <3> QED BY <3>1 DEF EventsInv, Handlers, Arrived
  <2> QED BY <2>5, <2>6 DEF EventsInv, EventsCounted
<1> QED BY <1>1, <1>2, PTL

-----------------------------------------------------------------------------
(* Nobody but the contact book is at work on contacts *)

(* There is no file and no message; no node writes tags. *)
NoTagging == \A e \in Executions : IsMem(mem[e]) /\ mem[e].pc # "tag"
Alone ==
  /\ \A f \in Files : imp[f].st = "none" /\ imp[f].pc = "idle"
  /\ \A d \in Lanes : lane[d].at = "idle"
  /\ DOMAIN mem = Executions /\ NoTagging

(* Nothing else is under way initially. *)
LEMMA AloneInit ==
  ASSUME Init, BookOnly
  PROVE  Alone
<1>1. \A f \in Files : f \notin DOMAIN world.files
  BY DEF BookOnly
<1>2. \A f \in Files : imp[f].st = "none" /\ imp[f].pc = "idle"
  BY <1>1 DEF Init, ImportInit
<1>3. \A d \in Lanes : lane[d].at = "idle"
  BY DEF Init, DeliveryInit, NoLane
<1>4. DOMAIN mem = Executions /\ NoTagging
  BY DEF Init, AutomationsInit, NoTagging, IsMem
<1> QED BY <1>2, <1>3, <1>4 DEF Alone

(* Then imports and webhooks do nothing. *)
LEMMA NothingArrives ==
  ASSUME Alone, BookOnly
  PROVE  ~ImportNext /\ ~DeliveryNext
<1>1. ~ImportNext
  BY DEF Alone, ImportNext, TakeFile, ImportStep, ReadBatch, InvalidRow, DuplicateRow, NewRow,
         GenerateReport, ImportEnds, ImportThrows, ImportDies
<1>2. ASSUME NEW d \in Lanes, LaneStep(d) \/ LaneFails(d) PROVE FALSE
  <2>1. lane[d].at = "idle"
    BY DEF Alone
  <2> QED BY <1>2, <2>1 DEF LaneStep, LaneFails, At, EmailWrite, BouncedOptOut, ResendOpen,
       ResendClick, ResendBounce, ResendUnsubscribe, ResendMark, Count, Log, Sms, TrackOpen,
       TrackClick, TrackUnsubscribe
<1>3. ~DeliveryNext
  BY <1>2 DEF DeliveryNext, BookOnly
<1> QED BY <1>1, <1>3

(* A step of an execution leaves the process of every other as it is. *)
LEMMA NoTagOne ==
  ASSUME Alone, NEW e \in Executions, NEW m, mem' = [mem EXCEPT ![e] = m],
         IsMem(m), m.pc # "tag"
  PROVE  DOMAIN mem' = Executions /\ NoTagging'
BY DEF Alone, NoTagging, IsMem

(* An execution that goes on to another place than a tag node. *)
LEMMA NoTagGoto ==
  ASSUME Alone, NEW e \in Executions, NEW x, x # "tag", Goto(e, x)
  PROVE  DOMAIN mem' = Executions /\ NoTagging'
BY DEF Alone, NoTagging, IsMem, Goto

(* It rests. *)
LEMMA NoTagRest ==
  ASSUME Alone, NEW e \in Executions, Rest(e)
  PROVE  DOMAIN mem' = Executions /\ NoTagging'
BY DEF Alone, NoTagging, IsMem, Rest

(* Without tag nodes automations leave the tags of contacts alone. *)
LEMMA AutomationsTagNothing ==
  ASSUME Alone, BookOnly, AutomationsNext
  PROVE  UNCHANGED tags /\ DOMAIN mem' = Executions /\ NoTagging'
<1> DEFINE Ok == UNCHANGED tags /\ DOMAIN mem' = Executions /\ NoTagging'
<1>0. DOMAIN mem = Executions /\ NoTagging
  BY DEF Alone
<1>1. ASSUME UNCHANGED <<tags, mem>> PROVE Ok
  BY <1>0, <1>1 DEF NoTagging, IsMem
<1>2. ASSUME NEW e \in Executions, NEW i \in DOMAIN events, Listen(e, i) PROVE Ok
  <2>1. UNCHANGED tags /\ (Goto(e, "found") \/ UNCHANGED mem)
    BY <1>2 DEF Listen
  <2> QED BY <1>1, <2>1, NoTagGoto
<1>3. ASSUME NEW e \in Executions, NEW c \in Contacts, Trigger(e, c) PROVE Ok
  BY <1>3, NoTagGoto DEF Trigger
<1>4. ASSUME NEW e \in Executions, CreateRow(e) \/ AddJob(e) \/ FiringDies(e) PROVE Ok
  BY <1>4, NoTagGoto, NoTagRest DEF CreateRow, AddJob, FiringDies
<1>5. ASSUME NEW e \in Executions, TakeJob(e) \/ WorkerDies(e) PROVE Ok
  BY <1>5, NoTagGoto, NoTagRest DEF TakeJob, WorkerDies, store
<1>6. ASSUME NEW e \in Executions, WorkerStep(e) PROVE Ok
  <2>0. IsMem(mem[e]) /\ mem[e].pc # "tag"
    BY <1>0 DEF NoTagging
  <2>1. CASE Load(e)
    <3>1. IsMem(Loaded(e)) /\ Loaded(e).pc # "tag"
      BY <2>0 DEF Loaded, IsMem
    <3>2. UNCHANGED tags /\ (mem' = [mem EXCEPT ![e] = Loaded(e)] \/ Goto(e, "throw"))
      BY <2>1 DEF Load
    <3> QED BY <3>1, <3>2, NoTagOne, NoTagGoto
  <2>2. CASE Enter(e)
    <3>1. CASE mem[e].at \notin Nodes \ {0}
      BY <2>2, <3>1, NoTagGoto DEF Enter
    <3>2. CASE mem[e].at \in Nodes \ {0}
      <4>1. Node(mem[e].at).type # "tag"
        BY <3>2 DEF BookOnly
      <4>2. StepOf(mem[e].at) # "tag"
        BY <4>1 DEF StepOf
      <4>3. UNCHANGED tags /\ DOMAIN mem' = Executions
        BY <1>0, <2>2, <3>2 DEF Enter
      <4>4. /\ \A f \in Executions \ {e} : mem'[f] = mem[f]
            /\ IsMem(mem'[e]) /\ mem'[e].pc = StepOf(mem[e].at)
        BY <1>0, <2>0, <2>2, <3>2 DEF Enter, IsMem
      <4> QED BY <1>0, <4>2, <4>3, <4>4 DEF NoTagging, IsMem
    <3> QED BY <3>1, <3>2
  <2>3. CASE Send(e) \/ Pay(e)
    BY <2>3, NoTagGoto DEF Send, Pay, Thrown
  <2>4. CASE RecordMessage(e) \/ ScheduleRetry(e) \/ Requeue(e)
    BY <2>4, NoTagGoto DEF RecordMessage, ScheduleRetry, Requeue, Thrown
  <2>5. CASE Wait(e) \/ Finish(e) \/ Throw(e) \/ MarkFailed(e) \/ Return(e)
    BY <2>5, NoTagGoto, NoTagRest DEF Wait, Finish, Throw, MarkFailed, Return, store
  <2>6. CASE RecordNode(e) \/ Branch(e)
    <3>1. UNCHANGED tags
      BY <2>6 DEF RecordNode, Branch
    <3>2. ASSUME NEW n, mem' = [mem EXCEPT ![e].pc = "enter", ![e].at = n] PROVE Ok
      <4>1. /\ DOMAIN mem' = Executions /\ \A f \in Executions \ {e} : mem'[f] = mem[f]
            /\ IsMem(mem'[e]) /\ mem'[e].pc = "enter"
        BY <1>0, <2>0, <3>2 DEF IsMem
      <4> QED BY <1>0, <3>1, <4>1 DEF NoTagging, IsMem
    <3>3. \/ \E n : mem' = [mem EXCEPT ![e].pc = "enter", ![e].at = n]
          \/ Goto(e, "throw") \/ Goto(e, "caught")
      BY <2>6 DEF RecordNode, Branch, Thrown
    <3> QED BY <3>1, <3>2, <3>3, NoTagGoto
  <2>7. ~TagContact(e)
    BY <2>0 DEF TagContact
  <2> QED BY <1>6, <2>1, <2>2, <2>3, <2>4, <2>5, <2>6, <2>7 DEF WorkerStep
<1>7. ASSUME NEW k \in Runs, CronFires(k) \/ CronStep(k) \/ CronDies(k) PROVE Ok
  BY <1>1, <1>7 DEF CronFires, CronStep, CronCreates, CronAdds, CronMarks, CronDies, store, executions
<1>8. ASSUME NEW r \in Clients, Toggle(r) \/ Delete(r) \/ RequestStep(r) PROVE Ok
  BY <1>1, <1>8 DEF Toggle, Delete, Ask, RequestStep, WriteToggle, WriteDelete, store, executions
<1>9. ASSUME NEW d \in 0..MaxDay, SetDate(d) PROVE Ok
  BY <1>1, <1>9 DEF SetDate, executions
<1> HIDE DEF Ok
<1>10. Ok
  BY <1>2, <1>3, <1>4, <1>5, <1>6, <1>7, <1>8, <1>9 DEF AutomationsNext
<1> QED BY <1>10 DEF Ok

-----------------------------------------------------------------------------
(* The count of the segment *)

(* Recalculations are added, waiting, or to be run again; a worker counts. *)
IsCount(k) == {"pc", "n", "again"} = DOMAIN k
CountTypes ==
  /\ recalc \in [adds : Nat, waiting : Nat, again : Nat]
  /\ DOMAIN counting = Backends /\ \A b \in Backends : IsCount(counting[b])

(* Once no recalculation is to come, what the worker is about to write is right,
   and so is what is written when it rests. *)
UpToDate ==
  recalc.adds + recalc.waiting = 0 =>
    /\ \A b \in Backends : counting[b].pc = "write" => counting[b].n = Cardinality(Matching)
    /\ (\A b \in Backends : counting[b].pc = "idle") => segment = Cardinality(Matching)

SegmentInv ==
  /\ Bounds /\ Failures >= 0 /\ Alone /\ CountTypes
  /\ Failures = 0 => UpToDate

(* What changes neither contacts nor counts keeps it. *)
LEMMA CountFrame ==
  ASSUME SegmentInv, UNCHANGED <<world, present, tags, optOut, recalc, counting, segment>>, Spends
  PROVE  CountTypes' /\ (Failures' = 0 => UpToDate')
<1>2. UNCHANGED Matching
  BY DEF Matching, Matches
<1>3. CountTypes' /\ (UpToDate => UpToDate')
  BY <1>2 DEF SegmentInv, CountTypes, IsCount, UpToDate
<1>4. Failures \in Int /\ Failures' \in Int /\ Failures' >= Failures /\ Failures >= 0
  BY FailuresGrow DEF SegmentInv
<1>5. Failures' = 0 => Failures = 0
  BY <1>4
<1> QED BY <1>3, <1>5 DEF SegmentInv

(* The contact book: every write is followed by a recalculation, whose count is
   read after it. *)
LEMMA BookCounts ==
  ASSUME SegmentInv, OneCounter, UNCHANGED world, BookNext
  PROVE  CountTypes' /\ (Failures' = 0 => UpToDate')
<1> DEFINE Ok == CountTypes' /\ (Failures' = 0 => UpToDate')
<1>t. /\ recalc \in [adds : Nat, waiting : Nat, again : Nat]
      /\ DOMAIN counting = Backends /\ \A b \in Backends : IsCount(counting[b])
      /\ {recalc.adds, recalc.waiting, recalc.again} \subseteq Nat
      /\ \A b, d \in Backends : b = d
  BY DEF SegmentInv, CountTypes, OneCounter
<1>f. /\ Failures \in Int /\ Failures' \in Int /\ Failures' >= Failures /\ Failures >= 0
      /\ Fault \/ Crash => Failures' = Failures + 1
  BY BookSpends, FailuresGrow DEF SegmentInv
<1>0. Failures' = 0 => Failures = 0 /\ UpToDate /\ ~Fault /\ ~Crash
  BY <1>f DEF SegmentInv
<1>1. ASSUME UNCHANGED <<present, tags, optOut, recalc, counting, segment>> PROVE Ok
  BY <1>1, CountFrame, BookSpends
<1>2. ASSUME Recalculate, UNCHANGED counting PROVE Ok
  <2>1. /\ recalc' \in [adds : Nat, waiting : Nat, again : Nat]
        /\ recalc'.adds = recalc.adds + 1 /\ recalc'.waiting = recalc.waiting
    BY <1>t, <1>2 DEF Recalculate
  <2>2. recalc'.adds + recalc'.waiting # 0
    BY <1>t, <2>1
  <2>3. CountTypes'
    BY <1>t, <1>2, <2>1 DEF CountTypes, IsCount
  <2> QED BY <2>2, <2>3 DEF UpToDate
<1>3. ASSUME NEW a \in Callers, FormStep(a) \/ FormFails(a) PROVE Ok
  <2>1. CASE CreateContact(a) \/ UpdateContact(a) \/ OptOut(a)
    BY <1>1, <1>2, <2>1 DEF CreateContact, UpdateContact, OptOut
  <2>2. CASE Announce(a) \/ MatchNext(a) \/ MatchBefore(a) \/ FormFails(a)
    BY <1>1, <2>2 DEF Announce, MatchNext, MatchBefore, FormFails
  <2> QED BY <1>3, <2>1, <2>2 DEF FormStep
<1>4. ASSUME NEW a \in Callers, NEW op, NEW c, NEW T, AskContact(a, op, c, T) PROVE Ok
  BY <1>1, <1>4 DEF AskContact
<1>5. ASSUME JobArrives PROVE Ok
  <2>1. /\ recalc' \in [adds : Nat, waiting : Nat, again : Nat]
        /\ recalc'.adds = recalc.adds - 1 /\ recalc'.waiting = recalc.waiting + 1
    <3>1. recalc.adds - 1 \in Nat /\ recalc.waiting + 1 \in Nat
      BY <1>t, <1>5 DEF JobArrives
    <3>2. recalc' = [recalc EXCEPT !.adds = recalc.adds - 1, !.waiting = recalc.waiting + 1]
      BY <1>5 DEF JobArrives
    <3>3. ASSUME NEW x \in Nat, NEW y \in Nat, recalc' = [recalc EXCEPT !.adds = x, !.waiting = y]
          PROVE  /\ recalc' \in [adds : Nat, waiting : Nat, again : Nat]
                 /\ recalc'.adds = x /\ recalc'.waiting = y
      BY <1>t, <3>3
    <3> QED BY <3>1, <3>2, <3>3
  <2>2. recalc'.adds + recalc'.waiting = recalc.adds + recalc.waiting
    BY <1>t, <2>1
  <2>3. UNCHANGED <<Matching, counting, segment>>
    BY <1>5 DEF JobArrives, Matching, Matches
  <2>4. CountTypes' /\ (UpToDate => UpToDate')
    BY <1>t, <2>1, <2>2, <2>3 DEF CountTypes, IsCount, UpToDate
  <2> QED BY <1>0, <2>4
<1>6. ASSUME JobIsLost PROVE Ok
  <2>1. recalc' \in [adds : Nat, waiting : Nat, again : Nat] /\ UNCHANGED counting
    BY <1>t, <1>6 DEF JobIsLost
  <2> QED BY <1>0, <1>t, <1>6, <2>1 DEF JobIsLost, CountTypes, IsCount
<1>7. ASSUME NEW b \in Backends, NEW k, IsCount(k), counting' = [counting EXCEPT ![b] = k],
             recalc' \in [adds : Nat, waiting : Nat, again : Nat]
      PROVE  CountTypes' /\ counting'[b] = k
  BY <1>t, <1>7 DEF CountTypes, IsCount
<1>8. ASSUME NEW b \in Backends, TakeRecalculation(b) PROVE Ok
  <2>1. PICK k \in {[Resting EXCEPT !.pc = "count"], [Resting EXCEPT !.pc = "count", !.again = TRUE]} :
          counting' = [counting EXCEPT ![b] = k]
    BY <1>8 DEF TakeRecalculation
  <2>2. IsCount(k) /\ k.pc = "count"
    BY DEF IsCount, Resting
  <2>3. recalc' \in [adds : Nat, waiting : Nat, again : Nat]
    BY <1>t, <1>8 DEF TakeRecalculation
  <2>4. CountTypes' /\ counting'[b].pc = "count"
    BY <1>7, <2>1, <2>2, <2>3
  <2>5. \A d \in Backends : counting'[d].pc = "count"
    BY <1>t, <2>4
  <2> QED BY <2>4, <2>5 DEF UpToDate
<1>9. ASSUME NEW b \in Backends, CountMatching(b) PROVE Ok
  <2> DEFINE k == [counting[b] EXCEPT !.pc = "write", !.n = Cardinality(Matching)]
  <2>1. /\ UNCHANGED <<present, tags, optOut, recalc, segment>> /\ UNCHANGED world
        /\ counting' = [counting EXCEPT ![b] = k]
    BY <1>t, <1>9 DEF CountMatching, Around
  <2>2. IsCount(k) /\ k.pc = "write" /\ k.n = Cardinality(Matching)
    BY <1>t DEF IsCount
  <2> HIDE DEF k
  <2>3. CountTypes' /\ counting'[b] = k
    BY <1>t, <1>7, <2>1, <2>2
  <2>4. UNCHANGED Matching
    BY <2>1 DEF Matching, Matches
  <2>5. \A d \in Backends : counting'[d].pc = "write" /\ counting'[d].n = Cardinality(Matching')
    BY <1>t, <2>2, <2>3, <2>4
  <2> QED BY <2>3, <2>5 DEF UpToDate
<1>10. ASSUME NEW b \in Backends, WriteCount(b) PROVE Ok
  <2>1. /\ UNCHANGED <<present, tags, optOut, recalc>> /\ UNCHANGED world
        /\ counting' = [counting EXCEPT ![b] = Resting]
        /\ segment' = counting[b].n /\ counting[b].pc = "write"
    BY <1>10 DEF WriteCount, Around
  <2>2. IsCount(Resting) /\ Resting.pc = "idle"
    BY DEF IsCount, Resting
  <2>3. CountTypes' /\ counting'[b] = Resting
    BY <1>t, <1>7, <2>1, <2>2
  <2>4. UNCHANGED Matching
    BY <2>1 DEF Matching, Matches
  <2>5. \A d \in Backends : counting'[d].pc = "idle"
    BY <1>t, <2>2, <2>3
  <2>6. UpToDate => UpToDate'
    BY <2>1, <2>4, <2>5 DEF UpToDate
  <2> QED BY <1>0, <2>3, <2>6
<1>11. ASSUME NEW b \in Backends, CountThrows(b) \/ CountDies(b) PROVE Ok
  <2>1. /\ recalc' \in [adds : Nat, waiting : Nat, again : Nat]
        /\ counting' = [counting EXCEPT ![b] = Resting]
        /\ Fault \/ Crash
    BY <1>t, <1>11 DEF CountThrows, CountDies
  <2>2. IsCount(Resting)
    BY DEF IsCount, Resting
  <2> HIDE DEF Resting
  <2>3. CountTypes'
    BY <1>7, <2>1, <2>2
  <2>4. Failures' # 0
    BY <1>0, <2>1
  <2> QED BY <2>3, <2>4
<1> HIDE DEF Ok
<1>12. Ok
  <2>1. ASSUME NEW b \in Backends, CountStep(b) \/ CountThrows(b) \/ CountDies(b) PROVE Ok
    BY <1>8, <1>9, <1>10, <1>11, <2>1 DEF CountStep
  <2>2. ASSUME NEW a \in Callers,
               \E op \in world.operations, c \in Contacts, T \in world.lists : AskContact(a, op, c, T)
        PROVE  Ok
    BY <1>4, <2>2, Zenon
  <2> QED BY <1>3, <1>5, <1>6, <2>1, <2>2, Zenon DEF BookNext
<1> QED BY <1>12 DEF Ok

(* The invariant of segments holds before the first request. *)
LEMMA SegmentInit ==
  ASSUME Init, BookOnly
  PROVE  SegmentInv
<1>1. world \in Worlds /\ left = [faults |-> world.faults, crashes |-> world.crashes,
             requests |-> world.requests, deliveries |-> world.deliveries]
  BY DEF Init, StoreInit
<1>2. {world.faults, world.crashes, world.requests, world.deliveries} \subseteq Nat
  BY <1>1, StoreAssumption
<1>3. Bounds /\ Failures = 0
  BY <1>1, <1>2 DEF Bounds, Failures
<1>4. CountTypes /\ UpToDate
  BY DEF Init, BookInit, CountTypes, UpToDate, IsCount, Resting
<1> QED BY <1>3, <1>4, AloneInit DEF SegmentInv

(* Every step of the account keeps it, in worlds that are about the contact
   book and with one worker. *)
LEMMA SegmentInductive ==
  ASSUME SegmentInv, BookOnly, OneCounter, [Next]_vars
  PROVE  SegmentInv'
<1>1. UNCHANGED world
  BY WorldStays
<1>2. ASSUME Spends, Alone', CountTypes', Failures' = 0 => UpToDate' PROVE SegmentInv'
  <2>1. Bounds' /\ Failures \in Int /\ Failures' \in Int /\ Failures' >= Failures /\ Failures >= 0
    BY <1>1, <1>2, FailuresGrow DEF SegmentInv
  <2> QED BY <1>2, <2>1 DEF SegmentInv
<1>3. ASSUME UNCHANGED <<imp, lane, mem>> PROVE Alone'
  BY <1>3 DEF SegmentInv, Alone, NoTagging, IsMem
<1>4. CASE AutomationsNext
  <2>1. /\ UNCHANGED <<present, optOut, tags, recalc, counting, segment, imp, lane>>
        /\ DOMAIN mem' = Executions /\ NoTagging'
    BY <1>4, AutomationsFrame, AutomationsTagNothing DEF SegmentInv, others, importVars, deliveryVars, bookVars
  <2>2. Alone'
    BY <2>1 DEF SegmentInv, Alone
  <2> QED BY <1>1, <1>2, <1>4, <2>1, <2>2, CountFrame, AutomationsSpend
<1>5. ~ImportNext /\ ~DeliveryNext
  BY NothingArrives DEF SegmentInv
<1>6. CASE BookNext
  <2>1. UNCHANGED <<imp, lane, mem>>
    BY <1>6, BookFrame DEF Around, automationVars, executions, importVars, deliveryVars, bookVars
  <2> QED BY <1>1, <1>2, <1>3, <1>6, <2>1, BookCounts, BookSpends
<1>7. CASE ApiNext
  <2>1. UNCHANGED <<present, optOut, tags, recalc, counting, segment, imp, lane, mem>>
    BY <1>7, ApiFrame DEF Aside, automationVars, executions, importVars, deliveryVars, bookVars
  <2> QED BY <1>1, <1>2, <1>3, <1>7, <2>1, CountFrame, ApiSpends
<1>8. CASE VisaNext
  <2>1. UNCHANGED <<present, optOut, tags, recalc, counting, segment, imp, lane, mem>>
    BY <1>8, VisaFrame DEF Away, automationVars, executions, importVars, deliveryVars, bookVars
  <2> QED BY <1>1, <1>2, <1>3, <1>8, <2>1, CountFrame, VisaSpends
<1>9. CASE Tick \/ UNCHANGED vars
  <2>1. UNCHANGED <<present, optOut, tags, recalc, counting, segment, imp, lane, mem>> /\ UNCHANGED left
    BY <1>9 DEF Tick, vars, store, others, automationVars, executions, importVars, deliveryVars, bookVars
  <2> QED BY <1>1, <1>2, <1>3, <2>1, CountFrame DEF Spends
<1> QED BY <1>4, <1>5, <1>6, <1>7, <1>8, <1>9 DEF Next

(* A worker that counts while a request writes may be late, but each write adds
   a recalculation of its own after it, and the one worker takes it after it has
   written what it counted before.  So when none is left the cached count is the
   number of contacts that match, whatever requests overlap. *)
THEOREM SegmentStaysFresh == Spec => []SegmentCountFresh
<1> DEFINE I == BookOnly /\ OneCounter => SegmentInv
<1>1. Init => I
  BY SegmentInit
<1>2. I /\ [Next]_vars => I'
  <2> SUFFICES ASSUME I, [Next]_vars, (BookOnly /\ OneCounter)' PROVE SegmentInv'
    OBVIOUS
  <2>1. UNCHANGED world
    BY WorldStays
  <2>2. BookOnly /\ OneCounter
    BY <2>1 DEF BookOnly, OneCounter, Nodes, Node, Flow
  <2> QED BY <2>2, SegmentInductive
<1>3. I => SegmentCountFresh
  BY DEF SegmentInv, SegmentCountFresh, UpToDate
<1> HIDE DEF I
<1> QED BY <1>1, <1>2, <1>3, PTL DEF Spec

=============================================================================
