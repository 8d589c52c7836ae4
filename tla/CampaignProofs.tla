----------------------------- MODULE CampaignProofs -----------------------------
(***************************************************************************)
(* For any contacts, workers, clients, crons, sizes and failures: every    *)
(* variable of the campaign subsystem keeps to its type.  In particular    *)
(* the account never owes anything, whatever callbacks take of its credit  *)
(* at the same time, and every job put on the dispatch queue is one its    *)
(* workers understand.  And a scheduled campaign ends FAILED only for a    *)
(* reason.                                                                 *)
(***************************************************************************)
EXTENDS CampaignProperties, FiniteSetTheorems, SequenceTheorems, TLAPS

(* TypeOK is not inductive by itself: a worker that goes on has a job, and who
   is adding jobs has one left to add. *)
BusyHasJob == \A w \in Workers : wpc[w] # "idle" => wjob[w] \in DispatchJob
AddsLeft ==
  /\ tpc = "add" => tadd # <<>>
  /\ \A r \in Clients : rpc[r] = "enqueue" => req[r].adds # <<>>
TInv == TypeOK /\ BusyHasJob /\ AddsLeft

-----------------------------------------------------------------------------
(* Arithmetic and jobs *)

(* A finite set of numbers has a greatest one: otherwise take the smallest of
   its subsets that have none, and remove an element. *)
LEMMA GreatestExists ==
  ASSUME NEW S, S \subseteq Nat, IsFiniteSet(S), S # {}
  PROVE  \E m \in S : \A y \in S : m >= y
<1> DEFINE Greatest(T) == \E m \in T : \A y \in T : m >= y
           Sizes == {n \in Nat : \E T \in SUBSET S : T # {} /\ Cardinality(T) = n /\ ~Greatest(T)}
<1> SUFFICES ASSUME ~Greatest(S) PROVE FALSE
  OBVIOUS
<1>1. Sizes # {}
  BY FS_CardinalityType
<1>2. PICK n \in Sizes : \A k \in Sizes : ~(<<k, n>> \in OpToRel(<, Nat))
  <2>1. Sizes \subseteq Nat
    OBVIOUS
  <2> HIDE DEF Sizes
  <2> QED BY <1>1, <2>1, WFMin, NatLessThanWellFounded
<1>3. \A k \in Sizes : ~(k < n)
  BY <1>2 DEF OpToRel
<1>4. PICK T \in SUBSET S : T # {} /\ Cardinality(T) = n /\ ~Greatest(T)
  OBVIOUS
<1>5. PICK x \in T : TRUE
  BY <1>4
<1>6. /\ IsFiniteSet(T) /\ IsFiniteSet(T \ {x})
      /\ Cardinality(T \ {x}) = n - 1 /\ n - 1 \in Nat
  <2>1. IsFiniteSet(T) /\ n \in Nat
    BY FS_Subset
  <2>2. IsFiniteSet(T \ {x}) /\ Cardinality(T \ {x}) = Cardinality(T) - 1
    BY <2>1, <1>5, FS_RemoveElement
  <2>3. Cardinality(T \ {x}) \in Nat
    BY <2>2, FS_CardinalityType
  <2> QED BY <2>1, <2>2, <2>3, <1>4
<1>7. T \ {x} # {}
  <2> SUFFICES ASSUME T \ {x} = {} PROVE FALSE
    OBVIOUS
  <2>1. T = {x}
    BY <1>5
  <2> QED BY <2>1, <1>4
<1>8. Greatest(T \ {x})
  <2> SUFFICES ASSUME ~Greatest(T \ {x}) PROVE FALSE
    OBVIOUS
  <2> HIDE DEF Greatest
  <2>1. n - 1 \in Sizes
    BY <1>6, <1>7
  <2>2. n \in Nat /\ n - 1 < n
    OBVIOUS
  <2> HIDE DEF Sizes
  <2> QED BY <2>1, <2>2, <1>3
<1>9. PICK m \in T \ {x} : \A y \in T \ {x} : m >= y
  BY <1>8
<1>10. \A y \in T : (IF m >= x THEN m ELSE x) >= y
  BY <1>4, <1>5, <1>9
<1> QED BY <1>4, <1>5, <1>9, <1>10

(* The cursor of the next chunk is a contact. *)
LEMMA MaxIsMember ==
  ASSUME NEW S \in SUBSET Contacts, S # {}
  PROVE  Max(S) \in S
<1>1. IsFiniteSet(S) /\ S \subseteq Nat
  BY ContactsAssumption, FS_Subset
<1> QED BY <1>1, GreatestExists DEF Max

(* The date of a trigger is held above the present. *)
LEMMA MaxOfTwo ==
  ASSUME NEW a \in Int, NEW b \in Nat
  PROVE  Max({a, b}) \in Nat
<1>1. \E x \in {a, b} : \A y \in {a, b} : x >= y
  OBVIOUS
<1> QED BY <1>1 DEF Max

(* Every job the code makes is one of DispatchJob. *)
LEMMA JobsAreJobs ==
  /\ EvaluateJob \in DispatchJob
  /\ \A v \in SendVariant, t \in Tags \cup Clients : WinnerJob(v, t) \in DispatchJob
  /\ \A v \in SendVariant, t \in Tags : SampleJob(v, t) \in DispatchJob
  /\ \A t \in Tags : PlainJob(t) \in DispatchJob
  /\ Job("reschedule", "NONE", FALSE, 0, "quiet") \in DispatchJob
  /\ \A j \in DispatchJob, c \in Contacts :
       Job("dispatch", j.variant, j.remaining, c, "next") \in DispatchJob
  BY DEF EvaluateJob, WinnerJob, SampleJob, PlainJob, Job, DispatchJob, SendVariant, Tags

(* The jobs a campaign starts with: at least one, each well formed. *)
LEMMA StartingJobs ==
  ASSUME NEW vs, NEW t \in Tags
  PROVE  /\ StartAB(vs, t) \in Seq(JobAdd) /\ StartAB(vs, t) # <<>>
         /\ <<Add(PlainJob(t), 0)>> \in Seq(JobAdd) /\ <<Add(PlainJob(t), 0)>> # <<>>
<1> DEFINE one(v) == IF v \in vs THEN <<Add(SampleJob(v, t), 0)>> ELSE <<>>
           last == <<Add(EvaluateJob, EvaluateDelay)>>
<1>1. /\ Add(EvaluateJob, EvaluateDelay) \in JobAdd
      /\ Add(SampleJob("A", t), 0) \in JobAdd
      /\ Add(SampleJob("B", t), 0) \in JobAdd
      /\ Add(PlainJob(t), 0) \in JobAdd
  BY JobsAreJobs, SizesAssumption DEF Add, JobAdd, SendVariant
<1>2. one("A") \in Seq(JobAdd) /\ one("B") \in Seq(JobAdd) /\ last \in Seq(JobAdd) /\ Len(last) = 1
  BY <1>1
<1>3. StartAB(vs, t) = one("A") \o one("B") \o last
  BY DEF StartAB
<1> HIDE DEF one, last
<1>4. one("A") \o one("B") \in Seq(JobAdd) /\ Len(one("A") \o one("B")) \in Nat
  BY <1>2, ConcatProperties
<1>5. /\ StartAB(vs, t) \in Seq(JobAdd)
      /\ Len(StartAB(vs, t)) = Len(one("A") \o one("B")) + 1
  <2> DEFINE both == one("A") \o one("B")
  <2>1. both \in Seq(JobAdd) /\ StartAB(vs, t) = both \o last
    BY <1>3, <1>4
  <2> HIDE DEF both
  <2>2. both \o last \in Seq(JobAdd) /\ Len(both \o last) = Len(both) + Len(last)
    BY <2>1, <1>2, ConcatProperties
  <2>3. StartAB(vs, t) \in Seq(JobAdd) /\ Len(StartAB(vs, t)) = Len(both) + 1
    BY <2>1, <2>2, <1>2
  <2> QED BY <2>3 DEF both
<1>6. Len(<<>>) = 0
  OBVIOUS
<1>7. StartAB(vs, t) # <<>>
  <2> SUFFICES ASSUME StartAB(vs, t) = <<>> PROVE FALSE
    OBVIOUS
  <2> QED BY <1>4, <1>5, <1>6
<1> QED BY <1>1, <1>5, <1>7

(* Taking the first job of those left to add. *)
LEMMA NextToAdd ==
  ASSUME NEW s \in Seq(JobAdd), s # <<>>
  PROVE  /\ Head(s).job \in DispatchJob /\ Head(s).delay \in Nat
         /\ Tail(s) \in Seq(JobAdd)
         /\ Len(s) # 1 => Tail(s) # <<>>
<1>1. Head(s) \in JobAdd /\ Tail(s) \in Seq(JobAdd) /\ Len(Tail(s)) = Len(s) - 1
  BY HeadTailProperties
<1>2. Len(<<>>) = 0 /\ Len(s) \in Nat
  OBVIOUS
<1>3. ASSUME Tail(s) = <<>> PROVE Len(s) = 1
  <2>1. Len(Tail(s)) = 0
    BY <1>2, <1>3
  <2> QED BY <2>1, <1>1, <1>2
<1> QED BY <1>1, <1>3 DEF JobAdd

(* Adding a job leaves a well-formed queue. *)
QueueOK ==
  /\ queue \in SUBSET [job : DispatchJob, at : Nat]
  /\ dead \in SUBSET DispatchJob /\ stalledOnce \in SUBSET DispatchJob

(* Adding a job keeps the queue one of jobs. *)
LEMMA AddingKeepsQueue ==
  ASSUME QueueOK, now \in Nat, NEW j \in DispatchJob, NEW d \in Nat,
         Enqueue(j, d) \/ EnqueueNew(j, d)
  PROVE  QueueOK'
  BY DEF QueueOK, Enqueue, EnqueueNew, Entry

(* So does adding a trigger. *)
LEMMA AddingKeepsSched ==
  ASSUME sched \in SchedState, NEW at \in Nat, NEW keep \in BOOLEAN, EnqueueSched(at, keep)
  PROVE  sched' \in SchedState
  BY DEF EnqueueSched, SchedState, SchedJob

(* No trigger, and one that BullMQ kept, are states of its job. *)
LEMMA SchedConstants ==
  /\ NoSched \in SchedState /\ KeptSched \in SchedState
  BY DEF NoSched, KeptSched, SchedJob, SchedState

-----------------------------------------------------------------------------
(* Dispatch workers *)

(* How many rows of a chunk are in some state is a number. *)
LEMMA CountsAreNumbers ==
  ASSUME NEW w \in Workers, NEW states
  PROVE  Cardinality(TasksIn(w, states)) \in Nat
<1>1. IsFiniteSet(TasksIn(w, states))
  BY ContactsAssumption, FS_Subset DEF TasksIn
<1> QED BY <1>1, FS_CardinalityType

(* What a dispatch worker writes is of its type: outcomes are send statuses,
   variants come from the row or from the job, the balance is only lowered by
   what it holds, and the next chunk's cursor is the last contact of this one. *)
LEMMA DispatchKeepsTypes == TInv /\ DispatchNext => TInv'
<1> SUFFICES ASSUME TInv, NEW w \in Workers,
                    TakeJob(w) \/ DispatchStep(w) \/ JobThrows(w) \/ WorkerDies(w)
             PROVE  TInv'
  BY DEF DispatchNext
<1> USE DEF TInv, TypeOK, BusyHasJob, AddsLeft, tables, campaignRow, sendRows,
            dispatchQueue, workerVars, triggerVars, requestVars, history, bounds, elsewhere
<1>0. ASSUME wpc[w] # "idle", FailJob(w), UNCHANGED bounds PROVE TInv'
  BY <1>0 DEF FailJob, Release, Goto, WorkerPC, NoTasks, NoVariants, TaskState, SendVariant
<1>1. CASE TakeJob(w)
  BY <1>1 DEF TakeJob, Goto, WorkerPC
<1>2. CASE ReadCampaign(w)
  BY <1>2 DEF ReadCampaign, Goto, WorkerPC
<1>3. CASE SelectSends(w)
  BY <1>3 DEF SelectSends, Goto, WorkerPC, TaskState, SendVariant
<1>4. CASE CountWhenEmpty(w)
  BY <1>4 DEF CountWhenEmpty, Goto, WorkerPC
<1>5. CASE MarkSentWhenEmpty(w)
  BY <1>5 DEF MarkSentWhenEmpty, SetStatusIfExists, SetStatus, Goto, WorkerPC, CampaignStatus
<1>6. CASE UpdateCounters(w)
  <2>1. CASE Exists
    <3>1. sentCount' \in Nat /\ failedCount' \in Nat
      BY <1>6, <2>1, CountsAreNumbers DEF UpdateCounters
    <3> QED BY <1>6, <2>1, <3>1 DEF UpdateCounters, Goto, WorkerPC
  <2>2. CASE ~Exists
    BY <1>6, <2>2, <1>0 DEF UpdateCounters
  <2> QED BY <2>1, <2>2
<1>7. CASE CountRemaining(w)
  BY <1>7 DEF CountRemaining, Goto, WorkerPC
<1>8. CASE MarkSent(w)
  BY <1>8 DEF MarkSent, SetStatusIfExists, SetStatus, Goto, WorkerPC, CampaignStatus
<1>9. CASE NextChunk(w)
  <2>1. QueueOK'
    <3>1. CASE Cardinality(ChunkOf(w)) = ChunkSize
      <4>1. ChunkOf(w) # {}
        BY <3>1, SizesAssumption, FS_EmptySet
      <4>2. Max(ChunkOf(w)) \in Contacts
        <5>1. ChunkOf(w) \in SUBSET Contacts
          BY DEF ChunkOf
        <5> QED BY <4>1, <5>1, MaxIsMember
      <4>3. wjob[w] \in DispatchJob
        BY <1>9 DEF NextChunk
      <4> QED BY <1>9, <3>1, <4>2, <4>3, JobsAreJobs, AddingKeepsQueue DEF NextChunk, QueueOK
    <3>2. CASE Cardinality(ChunkOf(w)) # ChunkSize
      BY <1>9, <3>2 DEF NextChunk, QueueOK
    <3> QED BY <3>1, <3>2
  <2> QED BY <1>9, <2>1 DEF NextChunk, QueueOK, Goto, WorkerPC
<1>10. CASE EvaluateWinner(w)
  BY <1>10, ZenonT(60) DEF EvaluateWinner, PossibleWinners, Winners, Goto, WorkerPC, SendVariant
<1>11. CASE SetWinner(w)
  <2>1. CASE Exists
    <3>1. abWinner' \in SendVariant
      BY <1>11, <2>1 DEF SetWinner
    <3> QED BY <1>11, <2>1, <3>1 DEF SetWinner, Goto, WorkerPC
  <2>2. CASE ~Exists
    BY <1>11, <2>2, <1>0 DEF SetWinner
  <2> QED BY <2>1, <2>2
<1>12. CASE AddWinnerJob(w)
  <2>1. QueueOK'
    BY <1>12, JobsAreJobs, AddingKeepsQueue DEF AddWinnerJob, QueueOK, Tags
  <2> QED BY <1>12, <2>1 DEF AddWinnerJob, QueueOK, Goto, WorkerPC
<1>13. CASE CompleteJob(w)
  BY <1>13 DEF CompleteJob, Release, Goto, WorkerPC, NoTasks, NoVariants, TaskState, SendVariant
<1>14. ASSUME NEW c \in Contacts, ContactStep(w, c) PROVE TInv'
  <2> USE DEF SetTask, TaskState
  <2>1. CASE HandToProvider(w, c)
    BY <2>1 DEF HandToProvider
  <2>2. ASSUME NEW from, NEW st \in SendStatus, NEW next \in TaskState, NEW onThrow \in TaskState,
               CallbackWrite(w, c, from, st, next, onThrow)
        PROVE  TInv'
    <3>1. CASE send[c] # "ABSENT" /\ WriteOutcome(w, c, st) /\ SetTask(w, c, next) /\ UNCHANGED bounds
      BY <2>2, <3>1 DEF CallbackWrite, WriteOutcome, DispatchJob, NoJob, Job
    <3>2. CASE (IF send[c] = "ABSENT" THEN UNCHANGED bounds ELSE Fault) /\ SetTask(w, c, onThrow)
                 /\ UNCHANGED sendRows
      BY <2>2, <3>2 DEF CallbackWrite, Fault
    <3> QED BY <2>2, <3>1, <3>2 DEF CallbackWrite
  <2>3. CASE WriteSent(w, c) \/ WriteUnsubscribed(w, c) \/ WriteBounced(w, c)
    BY <2>2, <2>3 DEF WriteSent, WriteUnsubscribed, WriteBounced, SendStatus
  <2>4. CASE ChargeSend(w, c)
    <3>1. balance' \in Nat
      BY <2>4, SizesAssumption DEF ChargeSend
    <3>2. charged' \in [Contacts -> Nat]
      <4>1. charged[c] + 1 \in Nat
        OBVIOUS
      <4>2. \/ charged' = charged
            \/ charged' = [charged EXCEPT ![c] = charged[c] + 1]
        BY <2>4 DEF ChargeSend
      <4> QED BY <4>1, <4>2
    <3> QED BY <2>4, <3>1, <3>2 DEF ChargeSend
  <2>5. CASE ChargeThrows(w, c)
    BY <2>5 DEF ChargeThrows, Fault
  <2> QED BY <1>14, <2>1, <2>3, <2>4, <2>5 DEF ContactStep
<1>15. CASE JobThrows(w)
  BY <1>15 DEF JobThrows, Fault, FailJob, Release, Goto, WorkerPC, NoTasks, NoVariants,
               TaskState, SendVariant
<1>16. CASE WorkerDies(w)
  <2>1. QueueOK'
    BY <1>16 DEF WorkerDies, QueueOK, Entry
  <2> QED BY <1>16, <2>1 DEF WorkerDies, QueueOK, Crash, Release, Goto, WorkerPC, NoTasks,
                             NoVariants, TaskState, SendVariant
<1> QED BY <1>1, <1>2, <1>3, <1>4, <1>5, <1>6, <1>7, <1>8, <1>9, <1>10, <1>11, <1>12, <1>13,
           <1>14, <1>15, <1>16 DEF DispatchStep

-----------------------------------------------------------------------------
(* The trigger and the cron *)

(* What the trigger and the cron write is of its type; the trigger has a job
   left to add whenever it adds one. *)
LEMMA ScheduleKeepsTypes == TInv /\ ScheduleNext => TInv'
<1> SUFFICES ASSUME TInv, ScheduleNext PROVE TInv'
  OBVIOUS
<1> USE DEF TInv, TypeOK, BusyHasJob, AddsLeft, tables, campaignRow, sendRows,
            dispatchQueue, workerVars, triggerVars, requestVars, history, bounds, besides
<1>1. CASE TakeTrigger
  <2>1. sched' \in SchedState
    BY <1>1 DEF TakeTrigger, SchedState
  <2> QED BY <1>1, <2>1 DEF TakeTrigger, TriggerGoto, TriggerPC
<1>2. CASE TriggerRead
  <2>1. tpc' \in {"done", "clean", "defer", "credit"}
    BY <1>2 DEF TriggerRead, TriggerGoto
  <2> QED BY <1>2, <2>1 DEF TriggerRead, TriggerGoto, TriggerPC
<1>3. CASE CleanDelayed
  BY <1>3 DEF CleanDelayed, TriggerGoto, TriggerPC
<1>4. CASE DeferTrigger
  <2>1. QueueOK'
    BY <1>4, JobsAreJobs, SizesAssumption, AddingKeepsQueue DEF DeferTrigger, QueueOK
  <2> QED BY <1>4, <2>1 DEF DeferTrigger, QueueOK, TriggerGoto, TriggerPC
<1>5. CASE TriggerCheckCredit
  BY <1>5 DEF TriggerCheckCredit, TriggerGoto, TriggerPC
<1>6. CASE TriggerFailed \/ TriggerSending
  <2>1. ASSUME NEW from, NEW st \in CampaignStatus, NEW next \in TriggerPC \ {"add"},
               TriggerUpdate(from, st, next)
        PROVE  TInv'
    BY <2>1, SchedConstants DEF TriggerUpdate, SetStatus, TriggerGoto, TriggerPC
  <2> QED BY <1>6, <2>1 DEF TriggerFailed, TriggerSending, CampaignStatus, TriggerPC
<1>7. CASE TriggerCount
  <2>1. tadd' \in Seq(JobAdd) /\ tadd' # <<>>
    BY <1>7, StartingJobs DEF TriggerCount, Tags
  <2> QED BY <1>7, <2>1 DEF TriggerCount, TriggerPC
<1>8. CASE TriggerAdd
  <2>1. /\ Head(tadd).job \in DispatchJob /\ Head(tadd).delay \in Nat
        /\ tadd' \in Seq(JobAdd) /\ (tpc' = "add" => tadd' # <<>>)
        /\ tpc' \in TriggerPC
    BY <1>8, NextToAdd DEF TriggerAdd, TriggerPC
  <2>2. QueueOK'
    BY <1>8, <2>1, AddingKeepsQueue DEF TriggerAdd, QueueOK
  <2> QED BY <1>8, <2>1, <2>2 DEF TriggerAdd, QueueOK
<1>9. CASE CompleteTrigger
  BY <1>9, SchedConstants DEF CompleteTrigger, TriggerGoto, TriggerPC
<1>10. CASE TriggerThrows
  BY <1>10, SchedConstants, EmptySeq DEF TriggerThrows, Fault, TriggerPC
<1>11. CASE TriggerDies
  <2>1. sched' \in SchedState
    BY <1>11, SchedConstants DEF TriggerDies, SchedState, SchedJob
  <2>2. tpc' \in TriggerPC /\ tadd' \in Seq(JobAdd) /\ tpc' # "add"
    BY <1>11, EmptySeq DEF TriggerDies, TriggerPC
  <2>3. crashes' \in Nat /\ UNCHANGED <<requests, faults>>
    BY <1>11 DEF TriggerDies, Crash
  <2> QED BY <1>11, <2>1, <2>2, <2>3 DEF TriggerDies
<1>12. ASSUME NEW i \in Crons, CronStep(i) \/ CronThrows(i) \/ CronDies(i) PROVE TInv'
  <2> USE DEF CronGoto, CronPC
  <2>1. CASE CronRead(i)
    BY <2>1 DEF CronRead
  <2>2. CASE CronCheckCredit(i)
    BY <2>2 DEF CronCheckCredit
  <2>3. CASE CronAdd(i)
    <3>1. sched' \in SchedState
      BY <2>3, AddingKeepsSched DEF CronAdd
    <3> QED BY <2>3, <3>1 DEF CronAdd
  <2>4. CASE CronMark(i) \/ CronFail(i)
    BY <2>4 DEF CronMark, CronFail, CronWrite, SetStatusIfExists, SetStatus, CampaignStatus
  <2>5. CASE CronThrows(i)
    <3>1. cpc' \in [Crons -> CronPC]
      BY <2>5 DEF CronThrows
    <3>2. faults' \in Nat /\ UNCHANGED <<requests, crashes>>
      BY <2>5 DEF CronThrows, Fault
    <3> QED BY <2>5, <3>1, <3>2 DEF CronThrows
  <2>6. CASE CronDies(i)
    BY <2>6 DEF CronDies, Crash
  <2> QED BY <1>12, <2>1, <2>2, <2>3, <2>4, <2>5, <2>6 DEF CronStep
<1> QED BY <1>1, <1>2, <1>3, <1>4, <1>5, <1>6, <1>7, <1>8, <1>9, <1>10, <1>11, <1>12
        DEF ScheduleNext, TriggerStep

-----------------------------------------------------------------------------
(* Requests *)

(* What a request remembers when it starts, and what it is left with. *)
LEMMA RequestsRemember ==
  ASSUME TInv, NEW r \in Clients, NEW pc \in RequestPC \ {"enqueue"}, NEW q \in Request,
         Begin(r, pc, q)
  PROVE  TInv'
  BY DEF Begin, TInv, TypeOK, BusyHasJob, AddsLeft, keepTables, keepQueues, outside,
         campaignRow, sendRows, dispatchQueue, workerVars, triggerVars, history

(* Changing the jobs left to add changes nothing else. *)
LEMMA RequestFields ==
  ASSUME NEW q \in Request, NEW a \in Seq(JobAdd)
  PROVE  [q EXCEPT !.adds = a] \in Request /\ [q EXCEPT !.adds = a].adds = a
  BY DEF Request

(* What an idle request remembers. *)
LEMMA NothingRemembered == NoReq \in Request
  BY EmptySeq DEF NoReq, Request, CampaignStatus, SendVariant

(* What a request starts with is what the client asked for and what the first
   reads found. *)
LEMMA RequestsStartTyped ==
  ASSUME TInv, NEW r \in Clients, RequestStart(r)
  PROVE  TInv'
<1>1. CASE SendStart(r)
  <2>1. PICK segment \in Segments, when \in Dates \cup {Never}, static \in BOOLEAN :
          Begin(r, "createSends",
                [NoReq EXCEPT !.when = when,
                   !.who = IF Channel = "SMS"
                             THEN {c \in segment : ~(static /\ optOut[c])} \cap Reachable
                             ELSE {c \in segment : ~(static /\ optOut[c])}])
    BY <1>1 DEF SendStart
  <2>2. segment \subseteq Contacts /\ when \in Nat \cup {Never}
    BY SegmentsAssumption, EnvironmentAssumption
  <2>3. [NoReq EXCEPT !.when = when,
           !.who = IF Channel = "SMS"
                     THEN {c \in segment : ~(static /\ optOut[c])} \cap Reachable
                     ELSE {c \in segment : ~(static /\ optOut[c])}] \in Request
    BY <2>2, NothingRemembered DEF Request
  <2> QED BY <2>1, <2>3, RequestsRemember DEF RequestPC
<1>2. CASE CancelStart(r)
  <2>1. [NoReq EXCEPT !.seen = status] \in Request
    BY <1>2, NothingRemembered DEF CancelStart, Request, CampaignStatus
  <2> QED BY <1>2, <2>1, RequestsRemember DEF CancelStart, RequestPC
<1>3. CASE CancelScheduledStart(r)
  <2>1. [NoReq EXCEPT !.seen = "SCHEDULED"] \in Request
    BY NothingRemembered DEF Request, CampaignStatus
  <2> QED BY <1>3, <2>1, RequestsRemember DEF CancelScheduledStart, RequestPC
<1>4. CASE DeleteStart(r)
  BY <1>4, NothingRemembered, RequestsRemember DEF DeleteStart, RequestPC
<1>5. CASE DraftStart(r)
  <2>1. PICK when \in Dates \cup {Never}, asked \in {"DRAFT", "AUTOMATION"} :
          Begin(r, "draft",
                [NoReq EXCEPT !.when = when,
                              !.seen = IF when = Never THEN asked ELSE "SCHEDULED"])
    BY <1>5 DEF DraftStart
  <2>2. [NoReq EXCEPT !.when = when,
                      !.seen = IF when = Never THEN asked ELSE "SCHEDULED"] \in Request
    BY NothingRemembered, EnvironmentAssumption DEF Request, CampaignStatus
  <2> QED BY <2>1, <2>2, RequestsRemember DEF RequestPC
<1>6. CASE RescheduleStart(r)
  <2>1. PICK when \in Dates : Begin(r, "addSched", [NoReq EXCEPT !.when = when])
    BY <1>6 DEF RescheduleStart
  <2>2. [NoReq EXCEPT !.when = when] \in Request
    BY NothingRemembered, EnvironmentAssumption DEF Request
  <2> QED BY <2>1, <2>2, RequestsRemember DEF RequestPC
<1>7. CASE EvaluateStart(r)
  <2>1. PICK v \in Winners : Begin(r, "setWinner", [NoReq EXCEPT !.pick = v])
    BY <1>7 DEF EvaluateStart
  <2>2. [NoReq EXCEPT !.pick = v] \in Request
    BY NothingRemembered DEF Request, Winners, SendVariant
  <2> QED BY <2>1, <2>2, RequestsRemember DEF RequestPC
<1> QED BY <1>1, <1>2, <1>3, <1>4, <1>5, <1>6, <1>7 DEF RequestStart, Asked

(* What a request writes, and the jobs it adds, are of their types. *)
LEMMA RequestsKeepTypes ==
  ASSUME TInv, NEW r \in Clients, RequestStep(r) \/ RequestFails(r)
  PROVE  TInv'
<1> USE DEF TInv, TypeOK, BusyHasJob, AddsLeft, keepTables, keepQueues, outside,
            campaignRow, sendRows, dispatchQueue, workerVars, triggerVars, history, bounds
<1>1. ASSUME Return(r) PROVE /\ rpc' \in [Clients -> RequestPC] /\ req' \in [Clients -> Request]
                             /\ \A s \in Clients : rpc'[s] = "enqueue" => req'[s].adds # <<>>
  BY <1>1, NothingRemembered DEF Return, RequestPC
<1>2. ASSUME NEW pc \in RequestPC \ {"enqueue"}, Continue(r, pc)
      PROVE  /\ rpc' \in [Clients -> RequestPC] /\ req' \in [Clients -> Request]
             /\ \A s \in Clients : rpc'[s] = "enqueue" => req'[s].adds # <<>>
  BY <1>2 DEF Continue
<1>3. /\ req[r].when \in Nat \cup {Never} /\ req[r].seen \in CampaignStatus
      /\ req[r].pick \in SendVariant /\ req[r].adds \in Seq(JobAdd)
  BY DEF Request
<1>4. CASE RequestFails(r)
  BY <1>1, <1>4 DEF RequestFails, Fault
<1>5. CASE CreateSends(r)
  <2>1. send' \in [Contacts -> SendStatus \cup {"ABSENT"}] /\ variant' \in [Contacts -> SendVariant]
    <3> DEFINE who == req[r].who
               fits == Exists /\ \A c \in who : send[c] = "ABSENT"
    <3>1. CASE fits
      <4>1. PICK s \in Splits(who) :
              /\ send' = [c \in Contacts |-> IF c \in who THEN "PENDING" ELSE send[c]]
              /\ variant' = [c \in Contacts |-> IF c \notin who THEN variant[c]
                                ELSE IF c \in s[1] THEN "A"
                                ELSE IF c \in s[2] THEN "B" ELSE "NONE"]
        BY <1>5, <3>1 DEF CreateSends
      <4>2. /\ send \in [Contacts -> SendStatus \cup {"ABSENT"}]
            /\ variant \in [Contacts -> SendVariant]
        OBVIOUS
      <4> HIDE DEF TInv, TypeOK, who, fits
      <4>3. send' \in [Contacts -> SendStatus \cup {"ABSENT"}]
        BY <4>1, <4>2 DEF SendStatus
      <4>4. variant' \in [Contacts -> SendVariant]
        BY <4>1, <4>2 DEF SendVariant
      <4> QED BY <4>3, <4>4
    <3>2. CASE ~fits
      <4>1. UNCHANGED <<send, variant>>
        BY <1>5, <3>2 DEF CreateSends
      <4> QED BY <4>1
    <3> QED BY <3>1, <3>2
  <2>2. Return(r) \/ Continue(r, "setSending")
    BY <1>5 DEF CreateSends
  <2>3. "setSending" \in RequestPC \ {"enqueue"}
    BY DEF RequestPC
  <2>4. /\ rpc' \in [Clients -> RequestPC] /\ req' \in [Clients -> Request]
        /\ \A s \in Clients : rpc'[s] = "enqueue" => req'[s].adds # <<>>
    BY <2>2, <2>3, <1>1, <1>2
  <2> QED BY <1>5, <2>1, <2>4 DEF CreateSends
<1>6. CASE SetSending(r)
  <2>1. CASE Exists
    <3>1. FirstJobs(req[r]) \in Seq(JobAdd) /\ (req[r].when = Never => FirstJobs(req[r]) # <<>>)
      BY StartingJobs, EmptySeq DEF FirstJobs, Tags
    <3>2. req' = [req EXCEPT ![r] = [req[r] EXCEPT !.adds = FirstJobs(req[r])]]
      BY <1>6, <2>1 DEF SetSending
    <3>3. rpc' \in [Clients -> RequestPC]
      BY <1>6, <2>1 DEF SetSending, RequestPC
    <3>4. req' \in [Clients -> Request] /\ req'[r].adds = FirstJobs(req[r])
      BY <3>1, <3>2, RequestFields
    <3>5. \A s \in Clients : rpc'[s] = "enqueue" => req'[s].adds # <<>>
      BY <1>6, <2>1, <3>1, <3>2, <3>4 DEF SetSending
    <3> QED BY <1>6, <1>3, <2>1, <3>3, <3>4, <3>5, SMTT(30) DEF SetSending, CampaignStatus, SendVariant
  <2>2. CASE ~Exists
    BY <1>6, <2>2, <1>1 DEF SetSending
  <2> QED BY <2>1, <2>2
<1>7. CASE EnqueueFirst(r)
  <2>1. req[r].adds # <<>>
    BY <1>7 DEF EnqueueFirst
  <2>2. /\ Head(req[r].adds).job \in DispatchJob /\ Head(req[r].adds).delay \in Nat
        /\ Tail(req[r].adds) \in Seq(JobAdd)
        /\ Len(req[r].adds) # 1 => Tail(req[r].adds) # <<>>
    BY <1>3, <2>1, NextToAdd
  <2>3. QueueOK'
    BY <1>7, <2>2, AddingKeepsQueue DEF EnqueueFirst, QueueOK
  <2>4. /\ rpc' \in [Clients -> RequestPC] /\ req' \in [Clients -> Request]
        /\ \A s \in Clients : rpc'[s] = "enqueue" => req'[s].adds # <<>>
    <3>1. CASE Len(req[r].adds) = 1
      BY <1>7, <3>1, <1>1 DEF EnqueueFirst
    <3>2. CASE Len(req[r].adds) # 1
      <4>1. req' = [req EXCEPT ![r] = [req[r] EXCEPT !.adds = Tail(req[r].adds)]] /\ UNCHANGED rpc
        BY <1>7, <3>2 DEF EnqueueFirst
      <4>2. req' \in [Clients -> Request] /\ req'[r].adds = Tail(req[r].adds)
        BY <4>1, <2>2, RequestFields
      <4> QED BY <4>1, <4>2, <3>2, <2>2
    <3> QED BY <3>1, <3>2
  <2> QED BY <1>7, <2>3, <2>4 DEF EnqueueFirst, QueueOK
<1>8. CASE EnqueueTrigger(r)
  <2>1. Max({req[r].when, now}) \in Nat
    <3>1. req[r].when \in Int
      BY <1>3 DEF Never
    <3> QED BY <3>1, MaxOfTwo
  <2>2. sched' \in SchedState
    BY <1>8, <2>1, AddingKeepsSched DEF EnqueueTrigger
  <2> QED BY <1>8, <1>1, <2>2 DEF EnqueueTrigger
<1>9. CASE CancelWrite(r)
  <2>1. Return(r) \/ Continue(r, "removeJob")
    BY <1>9 DEF CancelWrite
  <2>2. /\ rpc' \in [Clients -> RequestPC] /\ req' \in [Clients -> Request]
        /\ \A s \in Clients : rpc'[s] = "enqueue" => req'[s].adds # <<>>
    BY <2>1, <1>1, <1>2 DEF RequestPC
  <2> QED BY <1>9, <2>2 DEF CancelWrite, SetStatusIfExists, SetStatus, CampaignStatus
<1>10. CASE CancelRemoveJob(r)
  BY <1>10, <1>1, SchedConstants DEF CancelRemoveJob, RemoveSched
<1>11. CASE DeleteWrite(r)
  BY <1>11, <1>1 DEF DeleteWrite, SetStatus, SendVariant
<1>12. CASE DraftWrite(r)
  BY <1>12, <1>1, <1>3 DEF DraftWrite
<1>13. CASE RescheduleAdd(r)
  <2>1. Max({req[r].when, now}) \in Nat
    <3>1. req[r].when \in Int
      BY <1>3 DEF Never
    <3> QED BY <3>1, MaxOfTwo
  <2>2. sched' \in SchedState /\ requests' \in Nat /\ faults' \in Nat /\ crashes' \in Nat
    <3>1. CASE EnqueueSched(Max({req[r].when, now}), FALSE) /\ UNCHANGED bounds
      BY <2>1, <3>1, AddingKeepsSched
    <3>2. CASE Fault /\ UNCHANGED sched
      BY <3>2 DEF Fault
    <3> QED BY <1>13, <3>1, <3>2 DEF RescheduleAdd
  <2>3. /\ rpc' \in [Clients -> RequestPC] /\ req' \in [Clients -> Request]
        /\ \A s \in Clients : rpc'[s] = "enqueue" => req'[s].adds # <<>>
    BY <1>13, <1>2 DEF RescheduleAdd, RequestPC
  <2> QED BY <1>13, <2>2, <2>3 DEF RescheduleAdd
<1>14. CASE RescheduleWrite(r)
  BY <1>14, <1>1, <1>3 DEF RescheduleWrite, CampaignStatus
<1>15. CASE EvaluateWrite(r)
  <2>1. Return(r) \/ Continue(r, "addWinner")
    BY <1>15 DEF EvaluateWrite
  <2>2. /\ rpc' \in [Clients -> RequestPC] /\ req' \in [Clients -> Request]
        /\ \A s \in Clients : rpc'[s] = "enqueue" => req'[s].adds # <<>>
    BY <2>1, <1>1, <1>2 DEF RequestPC
  <2> QED BY <1>15, <1>3, <2>2 DEF EvaluateWrite
<1>16. CASE EvaluateAddJob(r)
  <2>1. QueueOK'
    BY <1>16, <1>3, JobsAreJobs, AddingKeepsQueue DEF EvaluateAddJob, QueueOK
  <2> QED BY <1>16, <1>1, <2>1 DEF EvaluateAddJob, QueueOK
<1> QED BY <1>4, <1>5, <1>6, <1>7, <1>8, <1>9, <1>10, <1>11, <1>12, <1>13, <1>14, <1>15, <1>16
        DEF RequestStep

-----------------------------------------------------------------------------
(* The subsystem *)

(* The first state, whatever the account's credit, segment and consents. *)
LEMMA InitTInv == Init => TInv
<1> SUFFICES ASSUME Init PROVE TInv
  OBVIOUS
<1>1. sched \in SchedState /\ scheduledAt \in Nat \cup {Never}
  <2>1. \A d \in Dates : d \in Nat /\ SchedJob("queued", d, FALSE, FALSE) \in SchedState
    BY EnvironmentAssumption DEF SchedJob, SchedState
  <2>2. \/ sched = NoSched /\ scheduledAt = Never
        \/ \E d \in Dates : scheduledAt = d /\ sched \in {NoSched, SchedJob("queued", d, FALSE, FALSE)}
    BY DEF Init, Created
  <2> QED BY <2>1, <2>2, SchedConstants
<1>2. QueueOK
  BY DEF Init, QueueOK
<1>3. status \in CampaignStatus
  BY DEF Init, Created, CampaignStatus
<1>4. /\ req \in [Clients -> Request] /\ rpc \in [Clients -> RequestPC]
      /\ tadd \in Seq(JobAdd)
  BY NothingRemembered, EmptySeq DEF Init, RequestPC
<1> QED BY <1>1, <1>2, <1>3, <1>4, SizesAssumption, EnvironmentAssumption
        DEF Init, TInv, TypeOK, BusyHasJob, AddsLeft, QueueOK, NoVariants, NoTasks, SendVariant,
            WorkerPC, TaskState, TriggerPC, CronPC

(* Every step of the subsystem. *)
LEMMA NextTInv == TInv /\ [Next]_vars => TInv'
<1> SUFFICES ASSUME TInv, [Next]_vars PROVE TInv'
  OBVIOUS
<1>1. CASE ApiNext
  BY <1>1, RequestsStartTyped, RequestsKeepTypes DEF ApiNext
<1>2. CASE (\E c \in Leavers : OptOut(c)) \/ SpendElsewhere \/ Tick \/ UNCHANGED vars
  <2> USE DEF TInv, TypeOK, BusyHasJob, AddsLeft, tables, campaignRow, sendRows,
              dispatchQueue, workerVars, triggerVars, requestVars, history, bounds
  <2>1. ASSUME NEW c \in Leavers, OptOut(c) PROVE TInv'
    BY <2>1 DEF OptOut
  <2>2. CASE SpendElsewhere
    BY <2>2 DEF SpendElsewhere
  <2>3. CASE Tick
    BY <2>3 DEF Tick
  <2>4. CASE UNCHANGED vars
    BY <2>4 DEF vars
  <2> QED BY <1>2, <2>1, <2>2, <2>3, <2>4
<1> QED BY <1>1, <1>2, DispatchKeepsTypes, ScheduleKeepsTypes DEF Next

(* A worker that goes on has a well-formed job, and who is adding jobs has one
   left to add: FailJob, WorkerDies, TriggerAdd and EnqueueFirst rely on it. *)
LEMMA TInvHolds == Spec => []TInv
<1> QED BY InitTInv, NextTInv, PTL DEF Spec

(* Every variable of the campaign subsystem keeps to its type: the credit never
   goes below zero whatever callbacks charge at the same time, counters are
   numbers, and every queued job is one the workers understand. *)
THEOREM CampaignTypeCorrect == Spec => []TypeOK
<1>1. TInv => TypeOK
  BY DEF TInv
<1> QED BY <1>1, TInvHolds, PTL

-----------------------------------------------------------------------------
(* The schedule: when a scheduled campaign ends FAILED, whatever requests,
   triggers, crons, errors and deaths come together: only when the account could
   not pay for it or a call threw.  The cron compares two amounts as texts, so
   for it this needs amounts whose texts compare as the numbers do. *)

(* A balance the account may have is less than the cost when its text is.  It
   is so when no balance has more digits than the cost, and when no cron runs. *)
TextsCompare ==
  \A i \in Crons, m \in Nat :
    (\E b \in Credits : m <= b) /\ TextLess(m, EstimatedCost) => m < EstimatedCost

Broke == balance < EstimatedCost \/ faults > 0

(* Who is about to write FAILED has found the credit too low, or is handling an
   error; nobody else has FAILED to write. *)
AboutToFail ==
  /\ tpc = "setFailed" => Broke
  /\ \A i \in Crons : cpc[i] = "fail" => Broke
  /\ \A r \in Clients : req[r].seen # "FAILED"
WithinCredit == \E b \in Credits : balance <= b
FailInv == TInv /\ AboutToFail /\ WithinCredit /\ FailedOnlyWhenBroke

-----------------------------------------------------------------------------

(* Credit is only taken, and errors are only counted up. *)
LEMMA CreditFalls ==
  ASSUME TInv, [Next]_vars
  PROVE  balance' <= balance /\ faults' >= faults
<1> USE DEF tables, bounds, Fault, Crash, elsewhere, besides, outside, history
<1>t. /\ balance \in Nat /\ faults \in Nat /\ UnitCost \in Nat
      /\ balance <= balance /\ faults <= faults /\ faults + 1 >= faults
  BY SizesAssumption DEF TInv, TypeOK
<1>1. ASSUME UNCHANGED balance, UNCHANGED faults \/ faults' = faults + 1
      PROVE  balance' <= balance /\ faults' >= faults
  BY <1>t, <1>1
<1>2. ASSUME NEW w \in Workers, TakeJob(w) \/ JobThrows(w) \/ WorkerDies(w)
      PROVE  balance' <= balance /\ faults' >= faults
  BY <1>1, <1>2 DEF TakeJob, JobThrows, FailJob, WorkerDies
<1>3. ASSUME NEW w \in Workers, DispatchStep(w)
      PROVE  balance' <= balance /\ faults' >= faults
  <2>1. CASE ReadCampaign(w) \/ SelectSends(w) \/ CountWhenEmpty(w) \/ MarkSentWhenEmpty(w)
             \/ UpdateCounters(w) \/ CountRemaining(w) \/ MarkSent(w) \/ NextChunk(w)
             \/ EvaluateWinner(w) \/ SetWinner(w) \/ AddWinnerJob(w) \/ CompleteJob(w)
    BY <1>1, <2>1 DEF ReadCampaign, SelectSends, CountWhenEmpty, MarkSentWhenEmpty, UpdateCounters,
         CountRemaining, MarkSent, NextChunk, EvaluateWinner, SetWinner, AddWinnerJob, CompleteJob,
         FailJob
  <2>2. ASSUME NEW c \in Contacts, ContactStep(w, c)
        PROVE  balance' <= balance /\ faults' >= faults
    <3>1. CASE ChargeSend(w, c)
      BY <1>t, <3>1 DEF ChargeSend
    <3>2. CASE ~ChargeSend(w, c)
      BY <1>1, <2>2, <3>2 DEF ContactStep, HandToProvider, WriteSent, WriteUnsubscribed, WriteBounced,
           CallbackWrite, ChargeThrows
    <3> QED BY <3>1, <3>2
  <2> QED BY <1>3, <2>1, <2>2 DEF DispatchStep
<1>4. CASE ScheduleNext
  <2>1. CASE TakeTrigger \/ TriggerStep
    BY <1>1, <2>1 DEF TakeTrigger, TriggerStep, TriggerRead, CleanDelayed, DeferTrigger,
       TriggerCheckCredit, TriggerFailed, TriggerSending, TriggerUpdate, TriggerCount, TriggerAdd,
       CompleteTrigger
  <2>2. CASE TriggerThrows \/ TriggerDies
    BY <1>1, <2>2 DEF TriggerThrows, TriggerDies
  <2>3. ASSUME NEW i \in Crons, CronStep(i)
        PROVE  balance' <= balance /\ faults' >= faults
    BY <1>1, <2>3 DEF CronStep, CronRead, CronCheckCredit, CronAdd, CronMark, CronFail, CronWrite
  <2>4. ASSUME NEW i \in Crons, CronThrows(i) \/ CronDies(i)
        PROVE  balance' <= balance /\ faults' >= faults
    BY <1>1, <2>4 DEF CronThrows, CronDies
  <2> QED BY <1>4, <2>1, <2>2, <2>3, <2>4 DEF ScheduleNext
<1>5. ASSUME NEW r \in Clients, RequestStart(r) \/ RequestStep(r) \/ RequestFails(r)
      PROVE  balance' <= balance /\ faults' >= faults
  <2>1. CASE RequestStart(r)
    BY <1>1, <2>1 DEF RequestStart, SendStart, CancelStart, CancelScheduledStart, DeleteStart,
       DraftStart, RescheduleStart, EvaluateStart, Begin
  <2>2. CASE RequestStep(r)
    BY <1>1, <2>2 DEF RequestStep, CreateSends, SetSending, EnqueueFirst, EnqueueTrigger,
       CancelWrite, CancelRemoveJob, DeleteWrite, DraftWrite, RescheduleAdd, RescheduleWrite,
       EvaluateWrite, EvaluateAddJob
  <2>3. CASE RequestFails(r)
    BY <1>1, <2>3 DEF RequestFails
  <2> QED BY <1>5, <2>1, <2>2, <2>3
<1>6. CASE (\E c \in Leavers : OptOut(c)) \/ Tick \/ UNCHANGED vars
  BY <1>1, <1>6 DEF OptOut, Tick, vars
<1>7. CASE SpendElsewhere
  BY <1>t, <1>7 DEF SpendElsewhere
<1> QED BY <1>2, <1>3, <1>4, <1>5, <1>6, <1>7 DEF Next, DispatchNext, ApiNext

(* So who was broke stays it. *)
LEMMA BrokeStays ==
  ASSUME TInv, TInv', [Next]_vars
  PROVE  (Broke => Broke') /\ (WithinCredit => WithinCredit')
<1>1. balance' <= balance /\ faults' >= faults
  BY CreditFalls
<1>2. /\ balance \in Nat /\ balance' \in Nat /\ faults \in Nat /\ faults' \in Nat
      /\ EstimatedCost \in Nat
  BY SizesAssumption DEF TInv, TypeOK
<1>3. \A b \in Credits : b \in Nat
  BY SizesAssumption
<1>4. Broke => Broke'
  BY <1>1, <1>2 DEF Broke
<1>5. ASSUME NEW b \in Credits, balance <= b PROVE balance' <= b
  BY <1>1, <1>2, <1>3, <1>5
<1> QED BY <1>4, <1>5 DEF WithinCredit

(* A step that writes no FAILED and brings nobody about to. *)
LEMMA NobodyFails ==
  ASSUME FailInv, TInv', [Next]_vars, UNCHANGED <<tpc, cpc, req>>, status' = "FAILED" => status = "FAILED"
  PROVE  FailInv'
<1>1. (Broke => Broke') /\ WithinCredit'
  BY BrokeStays DEF FailInv
<1> QED BY <1>1 DEF FailInv, AboutToFail, FailedOnlyWhenBroke, Broke

(* Trigger and cron fail a campaign only for want of credit. *)
LEMMA ScheduleFailsRightly ==
  ASSUME TextsCompare, FailInv, TInv', [Next]_vars, ScheduleNext
  PROVE  FailInv'
<1> USE DEF campaignRow, requestVars, besides, bounds, triggerVars
<1>1. (Broke => Broke') /\ WithinCredit'
  BY BrokeStays DEF FailInv
<1>2. FailedOnlyWhenBroke <=> (status = "FAILED" => Broke)
  BY DEF FailedOnlyWhenBroke, Broke
<1>3. FailedOnlyWhenBroke' <=> (status' = "FAILED" => Broke')
  BY DEF FailedOnlyWhenBroke, Broke
<1>t. DOMAIN cpc = Crons /\ cpc = [i \in Crons |-> cpc[i]] /\ balance \in Nat /\ faults \in Nat
  BY DEF FailInv, TInv, TypeOK
<1>4. UNCHANGED req
  BY DEF ScheduleNext, TakeTrigger, TriggerStep, TriggerRead, CleanDelayed, DeferTrigger,
     TriggerCheckCredit, TriggerFailed, TriggerSending, TriggerUpdate, TriggerCount, TriggerAdd,
     CompleteTrigger, TriggerThrows, TriggerDies, CronStep, CronRead, CronCheckCredit, CronAdd,
     CronMark, CronFail, CronWrite, CronThrows, CronDies
<1>5. CASE TakeTrigger \/ TriggerStep \/ TriggerThrows \/ TriggerDies
  <2>1. UNCHANGED cpc
    BY <1>5 DEF TakeTrigger, TriggerStep, TriggerRead, CleanDelayed, DeferTrigger,
       TriggerCheckCredit, TriggerFailed, TriggerSending, TriggerUpdate, TriggerCount, TriggerAdd,
       CompleteTrigger, TriggerThrows, TriggerDies
  <2>2. tpc' = "setFailed" => Broke
    BY <1>5 DEF TakeTrigger, TriggerStep, TriggerRead, CleanDelayed, DeferTrigger,
       TriggerCheckCredit, TriggerFailed, TriggerSending, TriggerUpdate, TriggerCount, TriggerAdd,
       CompleteTrigger, TriggerThrows, TriggerDies, TriggerGoto, Broke
  <2>3. status' = "FAILED" => status = "FAILED" \/ tpc = "setFailed"
    BY <1>5 DEF TakeTrigger, TriggerStep, TriggerRead, CleanDelayed, DeferTrigger,
       TriggerCheckCredit, TriggerFailed, TriggerSending, TriggerUpdate, TriggerCount, TriggerAdd,
       CompleteTrigger, TriggerThrows, TriggerDies, SetStatus
  <2> QED BY <1>1, <1>2, <1>3, <1>4, <2>1, <2>2, <2>3 DEF FailInv, AboutToFail
<1>6. ASSUME NEW i \in Crons, CronStep(i) \/ CronThrows(i) \/ CronDies(i)
      PROVE  FailInv'
  <2>1. UNCHANGED tpc /\ \A k \in Crons \ {i} : cpc'[k] = cpc[k]
    BY <1>t, <1>6 DEF CronStep, CronRead, CronCheckCredit, CronAdd, CronMark, CronFail, CronWrite,
       CronThrows, CronDies, CronGoto
  <2>2. cpc'[i] = "fail" => Broke'
    <3>1. CASE CronCheckCredit(i)
      <4>1. UNCHANGED <<balance, faults>> /\ (cpc'[i] = "fail" => TextLess(balance, EstimatedCost))
        BY <1>t, <3>1 DEF CronCheckCredit, CronGoto
      <4>2. TextLess(balance, EstimatedCost) => balance < EstimatedCost
        BY <1>t DEF TextsCompare, FailInv, WithinCredit
      <4> QED BY <1>1, <4>1, <4>2 DEF Broke
    <3>2. CASE CronThrows(i)
      BY <1>t, <3>2 DEF CronThrows, Fault, Broke
    <3>3. CASE ~CronCheckCredit(i) /\ ~CronThrows(i)
      BY <1>t, <1>6, <3>3 DEF CronStep, CronRead, CronAdd, CronMark, CronFail, CronWrite, CronDies,
         CronGoto
    <3> QED BY <3>1, <3>2, <3>3
  <2>3. status' = "FAILED" => status = "FAILED" \/ cpc[i] = "fail"
    BY <1>6 DEF CronStep, CronRead, CronCheckCredit, CronAdd, CronMark, CronFail, CronWrite,
       CronThrows, CronDies, SetStatusIfExists, SetStatus
  <2> QED BY <1>1, <1>2, <1>3, <1>4, <2>1, <2>2, <2>3 DEF FailInv, AboutToFail
<1> QED BY <1>5, <1>6 DEF ScheduleNext

(* So do requests. *)
LEMMA RequestsFailRightly ==
  ASSUME FailInv, TInv', [Next]_vars, ApiNext
  PROVE  FailInv'
<1> USE DEF campaignRow, sendRows, keepTables, outside, triggerVars
<1>1. (Broke => Broke') /\ WithinCredit'
  BY BrokeStays DEF FailInv
<1>t. DOMAIN req = Clients /\ req = [s \in Clients |-> req[s]] /\ \A s \in Clients : req[s] \in Request
  BY DEF FailInv, TInv, TypeOK
<1>n. NoReq \in Request /\ NoReq.seen = "DRAFT"
  BY NothingRemembered DEF NoReq
<1>3. PICK r \in Clients : RequestStart(r) \/ RequestStep(r) \/ RequestFails(r)
  BY DEF ApiNext
<1>2. UNCHANGED <<tpc, cpc>>
  <2>1. CASE RequestStart(r)
    BY <2>1 DEF RequestStart, SendStart, CancelStart, CancelScheduledStart, DeleteStart,
       DraftStart, RescheduleStart, EvaluateStart, Begin
  <2>2. CASE RequestStep(r)
    BY <2>2 DEF RequestStep, CreateSends, SetSending, EnqueueFirst, EnqueueTrigger, CancelWrite,
       CancelRemoveJob, DeleteWrite, DraftWrite, RescheduleAdd, RescheduleWrite, EvaluateWrite,
       EvaluateAddJob
  <2>3. CASE RequestFails(r)
    BY <2>3 DEF RequestFails
  <2> QED BY <1>3, <2>1, <2>2, <2>3
<1>r. req[r] \in Request /\ req[r].seen # "FAILED"
  BY <1>t DEF FailInv, AboutToFail
<1>4. \A s \in Clients \ {r} : req'[s] = req[s]
  BY <1>t, <1>3 DEF RequestStart, SendStart, CancelStart, CancelScheduledStart, DeleteStart,
     DraftStart, RescheduleStart, EvaluateStart, Begin, RequestStep, CreateSends, SetSending,
     EnqueueFirst, EnqueueTrigger, CancelWrite, CancelRemoveJob, DeleteWrite, DraftWrite,
     RescheduleAdd, RescheduleWrite, EvaluateWrite, EvaluateAddJob, RequestFails, Return, Continue
<1>5. req'[r].seen # "FAILED"
  <2>1. ASSUME NEW q, q.seen # "FAILED", NEW pc, Begin(r, pc, q) PROVE req'[r].seen # "FAILED"
    BY <1>t, <2>1 DEF Begin
  <2>2. CASE RequestStart(r)
    <3>1. CASE SendStart(r)
      BY <1>n, <2>1, <3>1 DEF SendStart, NoReq
    <3>2. CASE CancelStart(r) \/ CancelScheduledStart(r) \/ DeleteStart(r) \/ RescheduleStart(r)
               \/ EvaluateStart(r)
      BY <1>n, <2>1, <3>2 DEF CancelStart, CancelScheduledStart, DeleteStart, RescheduleStart,
         EvaluateStart, NoReq
    <3>3. CASE DraftStart(r)
      BY <1>n, <2>1, <3>3 DEF DraftStart, NoReq
    <3> QED BY <2>2, <3>1, <3>2, <3>3 DEF RequestStart
  <2>3. CASE RequestStep(r) \/ RequestFails(r)
    <3>1. req'[r] = NoReq \/ req'[r] = req[r] \/ \E a : req'[r] = [req[r] EXCEPT !.adds = a]
      BY <1>t, <2>3 DEF RequestStep, CreateSends, SetSending, EnqueueFirst, EnqueueTrigger,
         CancelWrite, CancelRemoveJob, DeleteWrite, DraftWrite, RescheduleAdd, RescheduleWrite,
         EvaluateWrite, EvaluateAddJob, RequestFails, Return, Continue
    <3> QED BY <1>n, <1>r, <3>1 DEF Request
  <2> QED BY <1>3, <2>2, <2>3
<1>6. status' = "FAILED" => status = "FAILED"
  BY <1>3, <1>r DEF RequestStart, SendStart, CancelStart, CancelScheduledStart, DeleteStart,
     DraftStart, RescheduleStart, EvaluateStart, Begin, RequestStep, CreateSends, SetSending,
     EnqueueFirst, EnqueueTrigger, CancelWrite, CancelRemoveJob, DeleteWrite, DraftWrite,
     RescheduleAdd, RescheduleWrite, EvaluateWrite, EvaluateAddJob, RequestFails,
     SetStatusIfExists, SetStatus
<1> QED BY <1>1, <1>2, <1>4, <1>5, <1>6 DEF FailInv, AboutToFail, FailedOnlyWhenBroke, Broke

(* The workers of the dispatch queue write no status but SENT. *)
LEMMA DispatchFailsNothing ==
  ASSUME FailInv, TInv', [Next]_vars, DispatchNext
  PROVE  FailInv'
<1> USE DEF tables, campaignRow, elsewhere, requestVars, triggerVars
<1>1. PICK w \in Workers : TakeJob(w) \/ DispatchStep(w) \/ JobThrows(w) \/ WorkerDies(w)
  BY DEF DispatchNext
<1>2. UNCHANGED <<tpc, cpc, req>> /\ (status' = "FAILED" => status = "FAILED")
  BY <1>1 DEF TakeJob, JobThrows, FailJob, WorkerDies, DispatchStep, ReadCampaign, SelectSends,
     CountWhenEmpty, MarkSentWhenEmpty, UpdateCounters, CountRemaining, MarkSent, NextChunk,
     EvaluateWinner, SetWinner, AddWinnerJob, CompleteJob, SetStatusIfExists, SetStatus,
     ContactStep, HandToProvider, WriteSent, WriteUnsubscribed, WriteBounced, CallbackWrite,
     ChargeSend, ChargeThrows
<1> QED BY <1>2, NobodyFails

(* A campaign ends FAILED only if the account could not pay for it or a call
   threw, in whatever order the API, the trigger, the crons and the workers
   write its status. *)
THEOREM FailedMeansBroke ==
  ASSUME TextsCompare
  PROVE  Spec => []FailedOnlyWhenBroke
<1>1. ASSUME Init PROVE FailInv
  <2>1. TInv
    BY <1>1, InitTInv
  <2>2. AboutToFail /\ FailedOnlyWhenBroke
    BY <1>1 DEF Init, Created, AboutToFail, FailedOnlyWhenBroke, NoReq
  <2>3. balance \in Credits /\ balance \in Nat
    BY <1>1, SizesAssumption DEF Init
  <2> QED BY <2>1, <2>2, <2>3 DEF FailInv, WithinCredit
<1>2. ASSUME FailInv, [Next]_vars PROVE FailInv'
  <2>1. TInv'
    BY <1>2, NextTInv DEF FailInv
  <2>2. CASE (\E c \in Leavers : OptOut(c)) \/ SpendElsewhere \/ Tick \/ UNCHANGED vars
    <3>1. UNCHANGED <<tpc, cpc, req, status>>
      BY <2>2 DEF OptOut, SpendElsewhere, Tick, vars, tables, campaignRow, requestVars, triggerVars
    <3> QED BY <1>2, <2>1, <3>1, NobodyFails
  <2> QED BY <1>2, <2>1, <2>2, ScheduleFailsRightly, RequestsFailRightly, DispatchFailsNothing DEF Next
<1>3. FailInv => FailedOnlyWhenBroke
  BY DEF FailInv
<1> QED BY <1>1, <1>2, <1>3, PTL DEF Spec

=============================================================================
