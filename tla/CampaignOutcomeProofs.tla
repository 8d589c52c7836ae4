-------------------------- MODULE CampaignOutcomeProofs --------------------------
(***************************************************************************)
(* What the rows, the credit and the counters of a campaign say, when one  *)
(* request sends it at once: every send is paid for once and only if it is *)
(* recorded as SENT, every contact gets one final outcome, and the         *)
(* counters are those of the rows.                                         *)
(*                                                                         *)
(* The argument is that a row is worked on by one callback at a time,      *)
(* which the claims of CampaignSendProofs give as long as NoRerun holds:   *)
(* nobody died, or there is nobody to run a job besides the worker that    *)
(* did.  Otherwise it is false, see README.md.                             *)
(***************************************************************************)
EXTENDS CampaignSendProofs

(* Constants with which no job is ever run beside what it left behind. *)
NeverRerun == MaxCrashes = 0 \/ \A w, v \in Workers : w = v

(* A callback works on a row alone. *)
OneHolder ==
  \A w, v \in Workers, c \in Contacts :
    /\ wpc[w] = "sending" /\ wtask[w][c] # "none"
    /\ wpc[v] = "sending" /\ wtask[v][c] # "none"
    => w = v

(* While no job was run twice, one worker at most has a contact in hand. *)
LEMMA RowsHeldOnce ==
  ASSUME SendInv, NoRerun
  PROVE  OneHolder
<1> SUFFICES ASSUME NEW w \in Workers, NEW v \in Workers, NEW c \in Contacts, w # v,
                    wpc[w] = "sending", wtask[w][c] # "none",
                    wpc[v] = "sending", wtask[v][c] # "none"
             PROVE  FALSE
  BY DEF OneHolder
<1>1. /\ crashes \in Nat /\ wtask \in [Workers -> [Contacts -> TaskState]]
  BY DEF SendInv, TInv, TypeOK
<1>2. crashes = 0
  BY <1>1 DEF NoRerun
<1>3. Run(w) \in Claimants(c, Held) /\ Run(v) \in Claimants(c, Held)
  BY <1>1, ClaimantsAre DEF WorkerClaims, Held
<1>4. /\ IsFiniteSet(Claimants(c, Held)) /\ Cardinality(Claimants(c, Held)) <= 1
      /\ Cardinality(Claimants(c, Held)) \in Nat
  BY <1>2, FS_CardinalityType DEF SendInv, ClaimsBounded
<1>5. Cardinality(Claimants(c, Held) \ {Run(w)}) <= 0 /\ IsFiniteSet(Claimants(c, Held) \ {Run(w)})
      /\ Cardinality(Claimants(c, Held) \ {Run(w)}) \in Nat
  BY <1>3, <1>4, ClaimUsed
<1>6. Claimants(c, Held) \ {Run(w)} = {}
  BY <1>5, FS_EmptySet
<1> QED BY <1>3, <1>6, ClaimantsDiffer

-----------------------------------------------------------------------------
(* What a worker's step does to rows, credit and tasks *)

(* A callback moves one row on: the provider answered, a write was done or
   threw, the send was paid for or the credit ran out, the payment threw. *)
Row(c) == <<send[c], charged[c]>>
Answered(w, c) ==
  /\ wtask[w][c] = "todo" /\ wtask'[w][c] \in {"accepted", "refused"}
  /\ UNCHANGED <<Row(c), balance>>
Written(w, c) ==
  /\ \/ wtask[w][c] = "accepted" /\ send'[c] = "SENT" /\ wtask'[w][c] = "charging"
     \/ wtask[w][c] = "optedOut" /\ send'[c] = "UNSUBSCRIBED" /\ wtask'[w][c] = "ko"
     \/ wtask[w][c] = "refused" /\ send'[c] = "BOUNCED" /\ wtask'[w][c] = "ko"
  /\ send[c] # "ABSENT" /\ UNCHANGED <<charged[c], balance>>
Thrown(w, c) ==
  /\ \/ wtask[w][c] \in {"accepted", "optedOut"} /\ wtask'[w][c] = "refused"
     \/ wtask[w][c] = "refused" /\ wtask'[w][c] = "ko"
  /\ send[c] # "ABSENT" => faults < MaxFaults
  /\ UNCHANGED <<Row(c), balance>>
Charged(w, c) ==
  /\ wtask[w][c] = "charging" /\ wtask'[w][c] = "ok" /\ UNCHANGED send[c]
  /\ IF balance >= UnitCost
       THEN balance' = balance - UnitCost /\ charged'[c] = charged[c] + 1
       ELSE UNCHANGED <<balance, charged[c]>>
ChargeThrown(w, c) ==
  /\ wtask[w][c] = "charging" /\ wtask'[w][c] = "refused" /\ faults < MaxFaults
  /\ UNCHANGED <<Row(c), balance>>
MovesRow(w, c) ==
  /\ wpc[w] = "sending" /\ UNCHANGED <<wpc, status, sentCount, failedCount>>
  /\ \A d \in Contacts \ {c} :
       send'[d] = send[d] /\ charged'[d] = charged[d] /\ wtask'[w][d] = wtask[w][d]
  /\ Answered(w, c) \/ Written(w, c) \/ Thrown(w, c) \/ Charged(w, c) \/ ChargeThrown(w, c)

(* Each statement a worker makes about a contact is one of these. *)
LEMMA ContactsMoveRows ==
  ASSUME Struct, NEW w \in Workers, NEW c \in Contacts, ContactStep(w, c)
  PROVE  MovesRow(w, c)
<1> USE DEF tables, campaignRow, sendRows, history, SetTask
<1>t. /\ send \in [Contacts -> SendStatus \cup {"ABSENT"}]
      /\ wtask \in [Workers -> [Contacts -> TaskState]] /\ charged \in [Contacts -> Nat]
  BY DEF Struct, TInv, TypeOK
<1>1. wtask[w][c] \in {"todo", "accepted", "optedOut", "refused", "charging"}
  BY DEF ContactStep, HandToProvider, WriteSent, WriteUnsubscribed, WriteBounced,
     CallbackWrite, ChargeSend, ChargeThrows
<1>2. wpc[w] = "sending"
  BY <1>1 DEF Struct, JobsFit
<1>3. CASE HandToProvider(w, c)
  BY <1>t, <1>2, <1>3 DEF HandToProvider, MovesRow, Answered, Row
<1>4. ASSUME NEW from \in {"accepted", "optedOut", "refused"}, NEW st \in Resolved,
             NEW next, NEW onThrow, CallbackWrite(w, c, from, st, next, onThrow)
      PROVE  /\ UNCHANGED <<wpc, status, sentCount, failedCount, balance, charged>>
             /\ \A d \in Contacts \ {c} : send'[d] = send[d] /\ wtask'[w][d] = wtask[w][d]
             /\ wtask[w][c] = from
             /\ \/ send[c] # "ABSENT" /\ send'[c] = st /\ wtask'[w][c] = next
                \/ /\ send'[c] = send[c] /\ wtask'[w][c] = onThrow
                   /\ send[c] # "ABSENT" => faults < MaxFaults
  BY <1>t, <1>4 DEF CallbackWrite, WriteOutcome, Fault
<1>5. CASE WriteSent(w, c)
  BY <1>2, <1>4, <1>5 DEF WriteSent, MovesRow, Written, Thrown, Row, Resolved
<1>6. CASE WriteUnsubscribed(w, c)
  BY <1>2, <1>4, <1>6 DEF WriteUnsubscribed, MovesRow, Written, Thrown, Row, Resolved
<1>7. CASE WriteBounced(w, c)
  BY <1>2, <1>4, <1>7 DEF WriteBounced, MovesRow, Written, Thrown, Row, Resolved
<1>8. CASE ChargeSend(w, c)
  BY <1>t, <1>2, <1>8 DEF ChargeSend, MovesRow, Charged, Row
<1>9. CASE ChargeThrows(w, c)
  BY <1>t, <1>2, <1>9 DEF ChargeThrows, MovesRow, ChargeThrown, Row, Fault
<1> QED BY <1>3, <1>5, <1>6, <1>7, <1>8, <1>9 DEF ContactStep

(* Any other step of a worker leaves the rows and the credit alone; it reads a
   chunk, keeps its tasks or lets go of them. *)
Reads(w) ==
  /\ wpc'[w] \in {"countEmpty", "sending"} /\ wpc[w] = "select"
  /\ \A c \in Contacts :
       IF c \in Chunk(wjob[w]) THEN wtask'[w][c] \in {"todo", "optedOut"} ELSE wtask'[w][c] = "none"
LeavesRows(w) ==
  /\ UNCHANGED <<send, charged, balance>>
  /\ \/ Reads(w)
     \/ wtask'[w] = wtask[w] /\ (wpc'[w] = "sending" => wpc[w] = "sending")
     \/ /\ wtask'[w] = NoTasks /\ wpc'[w] = "idle"
        /\ crashes < MaxCrashes \/ \A c \in Contacts : wtask[w][c] \in {"none", "ok", "ko"}

(* A worker either moves the row of one contact or leaves rows alone. *)
LEMMA StepKinds ==
  ASSUME Struct, NEW w \in Workers, WorkerStep(w)
  PROVE  LeavesRows(w) \/ \E c \in Contacts : MovesRow(w, c)
<1> USE DEF tables, sendRows, history, Goto, LeavesRows
<1>t. /\ wtask \in [Workers -> [Contacts -> TaskState]]
      /\ DOMAIN wpc = Workers /\ wpc = [v \in Workers |-> wpc[v]]
  BY DEF Struct, TInv, TypeOK
<1>f. wpc[w] # "sending" => \A c \in Contacts : wtask[w][c] \in {"none", "ok", "ko"}
  BY DEF Struct, JobsFit
<1>0. ASSUME FailJob(w), \A c \in Contacts : wtask[w][c] \in {"none", "ok", "ko"}
      PROVE  LeavesRows(w)
  BY <1>t, <1>0 DEF FailJob, Release
<1>s. AllSettled(w) => \A c \in Contacts : wtask[w][c] \in {"none", "ok", "ko"}
  BY DEF AllSettled, ChunkOf, TasksIn
<1>1. CASE SelectSends(w)
  BY <1>t, <1>1 DEF SelectSends, Reads
<1>2. CASE TakeJob(w) \/ ReadCampaign(w) \/ CountWhenEmpty(w) \/ MarkSentWhenEmpty(w)
           \/ CountRemaining(w) \/ MarkSent(w) \/ NextChunk(w) \/ EvaluateWinner(w)
           \/ AddWinnerJob(w)
  BY <1>t, <1>2 DEF TakeJob, ReadCampaign, CountWhenEmpty, MarkSentWhenEmpty, CountRemaining,
       MarkSent, NextChunk, EvaluateWinner, AddWinnerJob
<1>3. CASE CompleteJob(w) \/ WorkerDies(w)
  BY <1>t, <1>f, <1>3 DEF CompleteJob, WorkerDies, Release, Crash
<1>4. CASE UpdateCounters(w) \/ SetWinner(w) \/ JobThrows(w)
  BY <1>t, <1>f, <1>s, <1>0, <1>4 DEF UpdateCounters, SetWinner, JobThrows
<1> QED BY <1>1, <1>2, <1>3, <1>4, ContactsMoveRows DEF WorkerStep, DispatchStep

-----------------------------------------------------------------------------
(* The rows callbacks work on *)

(* A row is PENDING until its callback has written it, SENT while it is to be
   paid for, and is not paid for before. *)
RowsHeld ==
  \A w \in Workers, c \in Contacts :
    /\ wtask[w][c] \in {"todo", "optedOut", "accepted"} => send[c] = "PENDING"
    /\ wtask[w][c] = "charging" => send[c] = "SENT"
    /\ wtask[w][c] \in {"todo", "optedOut", "accepted", "charging", "refused"} => charged[c] = 0

Unsettled == {"todo", "optedOut", "accepted", "charging", "refused"}

(* What a worker that moves a row finds of another one: it is not working on it. *)
LEMMA OthersRows ==
  ASSUME Struct, OneHolder, NEW w \in Workers, NEW c \in Contacts, MovesRow(w, c),
         NEW v \in Workers \ {w}, NEW d \in Contacts, wtask[v][d] \in Unsettled
  PROVE  d # c
<1>1. wpc[v] = "sending" /\ wtask[v][d] # "none"
  BY DEF Unsettled, Struct, JobsFit
<1>2. wpc[w] = "sending" /\ wtask[w][c] # "none"
  BY DEF MovesRow, Answered, Written, Thrown, Charged, ChargeThrown
<1> QED BY <1>1, <1>2 DEF OneHolder

(* A worker keeps rows and payments in step with what it remembers. *)
LEMMA WorkerKeepsRows ==
  ASSUME Struct, OneHolder, RowsHeld, PaidIfSent, NEW w \in Workers, WorkerStep(w)
  PROVE  RowsHeld' /\ PaidIfSent'
<1>t. /\ wtask \in [Workers -> [Contacts -> TaskState]] /\ charged \in [Contacts -> Nat]
      /\ Exists /\ UnitCost \in Nat
  BY SizesAssumption DEF Struct, TInv, TypeOK, AtOnce, Exists
<1>1. Exists' /\ Alone(w)
  BY WorkerFrame DEF Struct, AtOnce, Exists
<1>p. \A c \in Contacts : charged[c] > 0 => charged[c] = 1 /\ send[c] = "SENT"
  BY <1>t DEF PaidIfSent
<1>2. CASE LeavesRows(w)
  <2>1. PaidIfSent'
    BY <1>p, <1>2 DEF LeavesRows, PaidIfSent
  <2>2. ASSUME NEW c \in Contacts, wtask'[w][c] \in {"todo", "optedOut"}, Reads(w)
        PROVE  send[c] = "PENDING" /\ charged[c] = 0
    <3>1. c \in Chunk(wjob[w])
      BY <2>2 DEF Reads
    <3>2. send[c] = "PENDING"
      BY <3>1 DEF Chunk, Selectable, Matches, Pending
    <3> QED BY <1>p, <1>t, <3>2
  <2>3. RowsHeld'
    <3>1. ASSUME NEW v \in Workers, NEW c \in Contacts
          PROVE  /\ wtask'[v][c] \in {"todo", "optedOut", "accepted"} => send'[c] = "PENDING"
                 /\ wtask'[v][c] = "charging" => send'[c] = "SENT"
                 /\ wtask'[v][c] \in Unsettled => charged'[c] = 0
      <4>1. CASE wtask'[v] = wtask[v]
        BY <1>2, <4>1 DEF LeavesRows, RowsHeld, Unsettled
      <4>2. CASE v = w /\ wtask'[w] = NoTasks
        BY <4>2 DEF NoTasks, Unsettled
      <4>3. CASE v = w /\ Reads(w)
        <5>1. wtask'[w][c] \in {"todo", "optedOut", "none"}
          BY <4>3 DEF Reads
        <5> QED BY <1>2, <2>2, <4>3, <5>1 DEF LeavesRows, Unsettled
      <4> QED BY <1>1, <1>2, <4>1, <4>2, <4>3 DEF LeavesRows, Alone
    <3> QED BY <3>1 DEF RowsHeld, Unsettled
  <2> QED BY <2>1, <2>3
<1>3. ASSUME NEW c \in Contacts, MovesRow(w, c)
      PROVE  RowsHeld' /\ PaidIfSent'
  <2>1. \A d \in Contacts \ {c} :
          send'[d] = send[d] /\ charged'[d] = charged[d] /\ wtask'[w][d] = wtask[w][d]
    BY <1>3 DEF MovesRow
  <2>2. /\ charged'[c] > 0 => charged'[c] = 1 /\ send'[c] = "SENT"
        /\ wtask'[w][c] \in {"todo", "optedOut", "accepted"} => send'[c] = "PENDING"
        /\ wtask'[w][c] = "charging" => send'[c] = "SENT"
        /\ wtask'[w][c] \in Unsettled => charged'[c] = 0
    <3>1. /\ charged[c] > 0 => charged[c] = 1 /\ send[c] = "SENT"
          /\ wtask[w][c] \in {"todo", "optedOut", "accepted"} => send[c] = "PENDING"
          /\ wtask[w][c] = "charging" => send[c] = "SENT"
          /\ wtask[w][c] \in Unsettled => charged[c] = 0
      BY <1>p DEF RowsHeld, Unsettled
    <3>2. CASE Answered(w, c)
      BY <3>1, <3>2 DEF Answered, Row, Unsettled
    <3>3. CASE Written(w, c)
      BY <3>1, <3>3 DEF Written, Unsettled
    <3>4. CASE Thrown(w, c)
      BY <3>1, <3>4 DEF Thrown, Row, Unsettled
    <3>5. CASE Charged(w, c)
      <4>1. charged[c] = 0 /\ send'[c] = "SENT" /\ wtask'[w][c] = "ok"
        BY <3>1, <3>5 DEF Charged, Unsettled
      <4>2. charged'[c] \in {0, 1}
        BY <3>5, <4>1 DEF Charged
      <4> QED BY <4>1, <4>2 DEF Unsettled
    <3>6. CASE ChargeThrown(w, c)
      BY <3>1, <3>6 DEF ChargeThrown, Row, Unsettled
    <3> QED BY <1>3, <3>2, <3>3, <3>4, <3>5, <3>6 DEF MovesRow
  <2>3. PaidIfSent'
    BY <1>p, <2>1, <2>2 DEF PaidIfSent
  <2>4. ASSUME NEW v \in Workers, NEW d \in Contacts
        PROVE  /\ wtask'[v][d] \in {"todo", "optedOut", "accepted"} => send'[d] = "PENDING"
               /\ wtask'[v][d] = "charging" => send'[d] = "SENT"
               /\ wtask'[v][d] \in Unsettled => charged'[d] = 0
    <3>1. CASE v = w
      BY <2>1, <2>2, <3>1 DEF RowsHeld, Unsettled
    <3>2. CASE v # w
      <4>1. wtask'[v][d] = wtask[v][d]
        BY <1>1, <3>2 DEF Alone
      <4>2. wtask[v][d] \in Unsettled => d # c
        BY <1>3, <3>2, OthersRows
      <4> QED BY <2>1, <4>1, <4>2 DEF RowsHeld, Unsettled
    <3> QED BY <3>1, <3>2
  <2> QED BY <2>3, <2>4 DEF RowsHeld, Unsettled
<1> QED BY <1>2, <1>3, StepKinds

(* The request makes rows before anybody works on them. *)
LEMMA RequestKeepsRows ==
  ASSUME OneSend, Struct, RowsHeld, PaidIfSent, NEW r \in Clients, SendingStep(r)
  PROVE  RowsHeld' /\ PaidIfSent'
<1>1. UNCHANGED <<wpc, wtask, charged>> /\ Exists
  BY RequestKeepsStruct DEF Unworked, Struct, AtOnce, Exists
<1>2. CASE UNCHANGED send
  BY <1>1, <1>2 DEF RowsHeld, PaidIfSent, Exists
<1>3. CASE CreateSends(r)
  <2>1. Untouched
    BY <1>3 DEF CreateSends, Struct, OneRequest
  <2>2. \A c \in Contacts : charged[c] = 0
    BY <2>1 DEF Untouched
  <2>3. \A w \in Workers, c \in Contacts : wtask[w][c] \in {"none", "ok", "ko"}
    BY <2>1 DEF Untouched, Struct, JobsFit
  <2> QED BY <1>1, <2>2, <2>3 DEF RowsHeld, PaidIfSent
<1> QED BY <1>2, <1>3 DEF SendingStep, SendStart, Begin, SetSending, EnqueueFirst, RequestFails,
                          keepTables, sendRows

(* Once a job may be run again beside what it left, it stays so. *)
LEMMA RerunStays ==
  ASSUME OneSend, Struct, [Next]_vars, NoRerun'
  PROVE  NoRerun
<1>1. crashes \in Nat
  BY DEF Struct, TInv, TypeOK
<1> QED BY <1>1, FailuresCounted DEF Fault, Crash, NoRerun

(* So they are in every behaviour, until a job is run again. *)
LEMMA RowsHold ==
  ASSUME OneSend
  PROVE  Spec => [](NoRerun => RowsHeld /\ PaidIfSent /\ OneHolder)
<1>1. ASSUME Init PROVE RowsHeld /\ PaidIfSent
  BY <1>1 DEF Init, RowsHeld, PaidIfSent, NoTasks
<1>2. ASSUME SendInv, NoRerun => RowsHeld /\ PaidIfSent, [Next]_vars
      PROVE  (NoRerun => RowsHeld /\ PaidIfSent)'
  <2> SUFFICES ASSUME NoRerun' PROVE RowsHeld' /\ PaidIfSent'
    OBVIOUS
  <2>0. Struct
    BY <1>2 DEF SendInv, Struct
  <2>1. NoRerun /\ OneHolder /\ RowsHeld /\ PaidIfSent
    BY <1>2, <2>0, RerunStays, RowsHeldOnce
  <2>2. CASE OtherStep
    <3>1. UNCHANGED <<send, wtask, charged>>
      BY <2>0, <2>2, OtherKeepsStruct DEF Unworked
    <3>2. Exists /\ Exists'
      BY <2>0, <2>2, OtherKeepsStruct DEF Struct, AtOnce, Exists
    <3> QED BY <2>1, <3>1, <3>2 DEF RowsHeld, PaidIfSent
  <2> QED BY <1>2, <2>0, <2>1, <2>2, PossibleSteps, WorkerKeepsRows, RequestKeepsRows DEF Struct
<1>3. ASSUME SendInv, NoRerun PROVE OneHolder
  BY <1>3, RowsHeldOnce
<1> QED BY <1>1, <1>2, <1>3, SendInvHolds, PTL DEF Spec

(* Every send is paid for at most once, and only one that is recorded as SENT,
   whatever calls throw: a callback is alone with its row, so the row is not
   written again after it was paid for.  It needs NoRerun: a worker that dies
   after it has added the job of the next chunk is run again beside that job,
   and two callbacks then pay for the same send. *)
THEOREM SendsPaidOnce ==
  ASSUME OneSend
  PROVE  Spec => []PaidOnceAndOnlyForSent
<1>1. (NoRerun => RowsHeld /\ PaidIfSent /\ OneHolder) => PaidOnceAndOnlyForSent
  BY DEF PaidOnceAndOnlyForSent
<1> QED BY <1>1, RowsHold, PTL

-----------------------------------------------------------------------------
(* When nothing throws *)

(* A row whose callback has ended has the outcome it reports, and one that was
   refused is still PENDING. *)
Outcomes ==
  \A w \in Workers, c \in Contacts : wpc[w] = "sending" =>
    /\ wtask[w][c] = "ok" => send[c] = "SENT"
    /\ wtask[w][c] = "ko" => send[c] \in {"BOUNCED", "UNSUBSCRIBED"}
    /\ wtask[w][c] = "refused" => send[c] = "PENDING"

(* So a callback that moves a row does not throw, and writes a PENDING one. *)
LEMMA NothingThrows ==
  ASSUME MaxFaults = 0, WithinBounds, Struct, RowsHeld, Outcomes,
         NEW w \in Workers, NEW c \in Contacts, MovesRow(w, c)
  PROVE  /\ Answered(w, c) \/ Written(w, c) \/ Charged(w, c)
         /\ Written(w, c) => send[c] = "PENDING"
<1>1. faults \in Nat /\ ~(faults < MaxFaults)
  BY DEF Struct, TInv, TypeOK, WithinBounds
<1>2. wtask[w][c] \in {"accepted", "optedOut", "refused"} => send[c] = "PENDING"
  BY DEF RowsHeld, Outcomes, MovesRow
<1> QED BY <1>1, <1>2 DEF MovesRow, Thrown, ChargeThrown, Written

(* A worker knows what became of its rows, when nothing throws. *)
LEMMA WorkerKeepsOutcomes ==
  ASSUME MaxFaults = 0, WithinBounds, Struct, OneHolder, RowsHeld, Outcomes,
         NEW w \in Workers, WorkerStep(w)
  PROVE  Outcomes'
<1>t. wtask \in [Workers -> [Contacts -> TaskState]]
  BY DEF Struct, TInv, TypeOK
<1>1. Alone(w)
  BY WorkerFrame DEF Struct
<1>2. CASE LeavesRows(w)
  <2> SUFFICES ASSUME NEW v \in Workers, NEW c \in Contacts, wpc'[v] = "sending"
               PROVE  /\ wtask'[v][c] = "ok" => send'[c] = "SENT"
                      /\ wtask'[v][c] = "ko" => send'[c] \in {"BOUNCED", "UNSUBSCRIBED"}
                      /\ wtask'[v][c] = "refused" => send'[c] = "PENDING"
    BY DEF Outcomes
  <2>1. CASE wtask'[v] = wtask[v] /\ wpc[v] = "sending"
    BY <1>2, <2>1 DEF LeavesRows, Outcomes
  <2>2. CASE v = w /\ Reads(w)
    <3>1. wtask'[w][c] \in {"todo", "optedOut", "none"}
      BY <2>2 DEF Reads
    <3> QED BY <2>2, <3>1
  <2> QED BY <1>1, <1>2, <2>1, <2>2 DEF LeavesRows, Alone
<1>3. ASSUME NEW c \in Contacts, MovesRow(w, c)
      PROVE  Outcomes'
  <2> SUFFICES ASSUME NEW v \in Workers, NEW d \in Contacts, wpc'[v] = "sending"
               PROVE  /\ wtask'[v][d] = "ok" => send'[d] = "SENT"
                      /\ wtask'[v][d] = "ko" => send'[d] \in {"BOUNCED", "UNSUBSCRIBED"}
                      /\ wtask'[v][d] = "refused" => send'[d] = "PENDING"
    BY DEF Outcomes
  <2>1. /\ wpc[w] = "sending" /\ UNCHANGED wpc
        /\ \A x \in Contacts \ {c} : send'[x] = send[x] /\ wtask'[w][x] = wtask[w][x]
        /\ Answered(w, c) \/ Written(w, c) \/ Charged(w, c)
    BY <1>3, NothingThrows DEF MovesRow
  <2>2. CASE d # c /\ wtask'[v][d] = wtask[v][d]
    BY <2>1, <2>2 DEF Outcomes
  <2>3. CASE v = w /\ d = c
    <3>1. /\ wtask[w][c] = "todo" => send[c] = "PENDING"
          /\ wtask[w][c] = "charging" => send[c] = "SENT"
      BY DEF RowsHeld
    <3> QED BY <2>1, <2>3, <3>1 DEF Answered, Written, Charged, Row
  <2>4. CASE v # w /\ d = c
    <3>1. wtask[w][c] # "none" /\ wtask'[v][d] = wtask[v][d]
      BY <1>1, <2>1, <2>4 DEF Answered, Written, Charged, Alone
    <3>2. wtask[v][d] = "none"
      BY <2>1, <2>4, <3>1 DEF OneHolder
    <3> QED BY <3>1, <3>2
  <2> QED BY <1>1, <2>1, <2>2, <2>3, <2>4 DEF Alone
<1> QED BY <1>2, <1>3, StepKinds

(* Requests do not change that: the rows they create are new. *)
LEMMA RequestKeepsOutcomes ==
  ASSUME OneSend, Struct, Outcomes, NEW r \in Clients, SendingStep(r)
  PROVE  Outcomes'
<1>1. UNCHANGED <<wpc, wtask>>
  BY RequestKeepsStruct DEF Unworked
<1>2. CASE UNCHANGED send
  BY <1>1, <1>2 DEF Outcomes
<1>3. CASE CreateSends(r)
  <2>1. Untouched
    BY <1>3 DEF CreateSends, Struct, OneRequest
  <2> QED BY <1>1, <2>1 DEF Untouched, Outcomes
<1> QED BY <1>2, <1>3 DEF SendingStep, SendStart, Begin, SetSending, EnqueueFirst, RequestFails,
                          keepTables, sendRows

(* What is known of a campaign when nothing throws. *)
Clean == Struct /\ WithinBounds /\ OneHolder /\ RowsHeld /\ Outcomes

(* All of it holds in every behaviour in which nothing throws. *)
LEMMA CleanHolds ==
  ASSUME OneSend, NeverRerun, MaxFaults = 0
  PROVE  Spec => []Clean
<1>1. ASSUME Init PROVE Outcomes
  BY <1>1 DEF Init, Outcomes
<1>2. ASSUME Struct, WithinBounds, OneHolder, RowsHeld, Outcomes, [Next]_vars
      PROVE  Outcomes'
  <2>2. CASE OtherStep
    <3>1. UNCHANGED <<send, wtask, wpc>>
      BY <1>2, <2>2, OtherKeepsStruct DEF Unworked
    <3> QED BY <1>2, <3>1 DEF Outcomes
  <2> QED BY <1>2, <2>2, PossibleSteps, WorkerKeepsOutcomes, RequestKeepsOutcomes DEF Struct
<1>3. ASSUME Struct, WithinBounds PROVE NoRerun
  <2>1. crashes \in Nat
    BY <1>3 DEF Struct, TInv, TypeOK
  <2> QED BY <1>3, <2>1 DEF NeverRerun, NoRerun, WithinBounds
<1> QED BY <1>1, <1>2, <1>3, StructHolds, BoundsHold, RowsHold, PTL DEF Spec, Clean

-----------------------------------------------------------------------------
(* The abstract specification *)

(* The outcome of a row. *)
OutcomeOf(s) ==
  CASE s = "ABSENT" -> "none"
    [] s = "PENDING" -> "waiting"
    [] s = "SENT" -> "sent"
    [] s = "BOUNCED" -> "bounced"
    [] s = "UNSUBSCRIBED" -> "unsubscribed"
Outcome == [c \in Contacts |-> OutcomeOf(send[c])]
Finished == status = "SENT"

(* The outcome each status stands for. *)
LEMMA OutcomesAre ==
  /\ OutcomeOf("ABSENT") = "none" /\ OutcomeOf("PENDING") = "waiting"
  /\ OutcomeOf("SENT") = "sent" /\ OutcomeOf("BOUNCED") = "bounced"
  /\ OutcomeOf("UNSUBSCRIBED") = "unsubscribed"
  BY DEF OutcomeOf

(* A worker settles one waiting contact, finishes the campaign when none is
   left, or does nothing the promise speaks of. *)
LEMMA WorkerKeepsPromise ==
  ASSUME OneSend, MaxFaults = 0, Clean, NEW w \in Workers, WorkerStep(w)
  PROVE  [Promise!Next]_<<Outcome, Finished>>
<1>t. send \in [Contacts -> SendStatus \cup {"ABSENT"}]
  BY DEF Clean, Struct, TInv, TypeOK
<1>n. Struct'
  BY NextStruct DEF Clean, WorkerStep, Next, DispatchNext
<1>m. send' \in [Contacts -> SendStatus \cup {"ABSENT"}]
  BY <1>n DEF Struct, TInv, TypeOK
<1>1. CASE LeavesRows(w)
  <2>1. Outcome' = Outcome
    BY <1>1 DEF LeavesRows, Outcome
  <2>2. CASE Finished' = Finished
    BY <2>1, <2>2
  <2>3. CASE Finished' # Finished
    <3>1. status' = "SENT"
      BY <2>3, WorkerFrame DEF Finished, Clean, Struct
    <3>2. Pending = {}
      BY <1>n, <1>1, <3>1 DEF Struct, Drained, SentMeansDrained, Pending, LeavesRows
    <3>3. \A c \in Contacts : Outcome[c] # "waiting"
      <4> SUFFICES ASSUME NEW c \in Contacts PROVE OutcomeOf(send[c]) # "waiting"
        BY DEF Outcome
      <4>1. send[c] \in {"ABSENT", "SENT", "BOUNCED", "UNSUBSCRIBED"}
        BY <1>t, <3>2 DEF Pending, SendStatus
      <4> QED BY <4>1, OutcomesAre
    <3>4. Promise!Finish
      BY <2>1, <3>1, <3>3 DEF Promise!Finish, Outcome, OutcomeOf, Finished
    <3> QED BY <3>4 DEF Promise!Next
  <2> QED BY <2>2, <2>3
<1>2. ASSUME NEW c \in Contacts, MovesRow(w, c)
      PROVE  [Promise!Next]_<<Outcome, Finished>>
  <2>1. /\ Answered(w, c) \/ Written(w, c) \/ Charged(w, c)
        /\ Written(w, c) => send[c] = "PENDING"
    BY <1>2, NothingThrows DEF Clean
  <2>2. UNCHANGED status /\ \A d \in Contacts \ {c} : send'[d] = send[d]
    BY <1>2 DEF MovesRow
  <2>3. CASE Answered(w, c) \/ Charged(w, c)
    <3>1. \A d \in Contacts : send'[d] = send[d]
      BY <2>2, <2>3 DEF Answered, Charged, Row
    <3> QED BY <2>2, <3>1 DEF Outcome, Finished
  <2>4. CASE Written(w, c)
    <3>1. send[c] = "PENDING" /\ send'[c] \in {"SENT", "BOUNCED", "UNSUBSCRIBED"}
      BY <2>1, <2>4 DEF Written
    <3>2. Outcome[c] = "waiting" /\ OutcomeOf(send'[c]) \in {"sent", "bounced", "unsubscribed"}
      BY <3>1, OutcomesAre DEF Outcome
    <3>3. Outcome' = [Outcome EXCEPT ![c] = OutcomeOf(send'[c])]
      BY <2>2 DEF Outcome
    <3>4. Promise!Resolve(c)
      BY <2>2, <3>2, <3>3 DEF Promise!Resolve, Outcome, OutcomeOf, Finished
    <3> QED BY <3>4 DEF Promise!Next
  <2> QED BY <2>1, <2>3, <2>4
<1> QED BY <1>1, <1>2, StepKinds DEF Clean

(* The request takes its contacts on, together. *)
LEMMA RequestKeepsPromise ==
  ASSUME OneSend, Clean, NEW r \in Clients, SendingStep(r)
  PROVE  [Promise!Next]_<<Outcome, Finished>>
<1> USE DEF keepTables, sendRows, campaignRow
<1>1. CASE SendStart(r) \/ EnqueueFirst(r) \/ RequestFails(r)
  <2>1. UNCHANGED <<send, status>>
    BY <1>1 DEF SendStart, Begin, EnqueueFirst, RequestFails
  <2> QED BY <2>1 DEF Outcome, Finished
<1>2. CASE SetSending(r)
  <2>1. UNCHANGED send /\ rpc[r] = "setSending"
    BY <1>2 DEF SetSending
  <2>2. status = "DRAFT"
    BY <2>1 DEF Clean, Struct, OneRequest, Untouched
  <2>3. status' \in {"SENDING", "SCHEDULED", status}
    BY <1>2 DEF SetSending
  <2> QED BY <2>1, <2>2, <2>3 DEF Outcome, Finished
<1>3. CASE CreateSends(r)
  <2>0. PICK who : who = req[r].who
    OBVIOUS
  <2>1. rpc[r] = "createSends" /\ UNCHANGED status
    BY <1>3 DEF CreateSends
  <2>2. who # {} /\ who \in SUBSET Contacts
    BY <2>0, <2>1 DEF Clean, Struct, OneRequest, TInv, TypeOK, Request
  <2>3. \/ UNCHANGED send
        \/ /\ \A c \in who : send[c] = "ABSENT"
           /\ send' = [c \in Contacts |-> IF c \in who THEN "PENDING" ELSE send[c]]
    BY <1>3, <2>0 DEF CreateSends
  <2>4. CASE UNCHANGED send
    BY <2>1, <2>4 DEF Outcome, Finished
  <2>5. CASE /\ \A c \in who : send[c] = "ABSENT"
             /\ send' = [c \in Contacts |-> IF c \in who THEN "PENDING" ELSE send[c]]
    <3>1. \A c \in who : Outcome[c] = "none"
      BY <2>2, <2>5, OutcomesAre DEF Outcome
    <3>2. Outcome' = [c \in Contacts |-> IF c \in who THEN "waiting" ELSE Outcome[c]]
      BY <2>5, OutcomesAre DEF Outcome
    <3>3. Promise!TakeOn(who)
      BY <2>1, <2>2, <3>1, <3>2 DEF Promise!TakeOn, Outcome, OutcomeOf, Finished
    <3> QED BY <2>2, <3>3 DEF Promise!Next
  <2> QED BY <2>3, <2>4, <2>5
<1> QED BY <1>1, <1>2, <1>3 DEF SendingStep

(* A campaign that one request sends keeps the promise when no call throws,
   even if a worker that works alone dies again and again: every contact it
   takes on gets one outcome that is final, and it is SENT once all have one. *)
THEOREM SendingKeepsPromise ==
  ASSUME OneSend, NeverRerun, MaxFaults = 0
  PROVE  Spec => KeepsPromise
<1>1. ASSUME Init PROVE Promise!Init
  <2>1. status = "DRAFT"
    BY <1>1 DEF Init, Created, OneSend
  <2>2. Outcome = [c \in Contacts |-> "none"]
    BY <1>1, OutcomesAre DEF Init, Outcome
  <2> QED BY <2>1, <2>2 DEF Promise!Init, Outcome, OutcomeOf
<1>2. ASSUME Clean, [Next]_vars PROVE [Promise!Next]_<<Outcome, Finished>>
  <2>1. CASE OtherStep
    <3>1. UNCHANGED <<send, status>>
      BY <1>2, <2>1 DEF OtherStep, OptOut, SpendElsewhere, Tick, vars, tables, campaignRow, sendRows
    <3> QED BY <3>1 DEF Outcome, Finished
  <2> QED BY <1>2, <2>1, PossibleSteps, WorkerKeepsPromise, RequestKeepsPromise DEF Clean, Struct
<1> QED BY <1>1, <1>2, CleanHolds, PTL DEF Spec, KeepsPromise, Promise!Spec, Outcome, OutcomeOf, Finished

-----------------------------------------------------------------------------
(* Nothing is sent for free *)

(* The credit only goes down, and a row that is SENT stays paid for. *)
LEMMA WorkerKeepsPaid ==
  ASSUME OneSend, MaxFaults = 0, MaxCrashes = 0, Clean, SentIsPaid, NEW w \in Workers, WorkerStep(w)
  PROVE  SentIsPaid'
<1>t. /\ balance \in Nat /\ UnitCost \in Nat /\ crashes \in Nat /\ charged \in [Contacts -> Nat]
      /\ wtask \in [Workers -> [Contacts -> TaskState]]
  BY SizesAssumption DEF Clean, Struct, TInv, TypeOK
<1>1. Alone(w) /\ ~(crashes < MaxCrashes)
  BY <1>t, WorkerFrame DEF Clean, Struct, WithinBounds
<1>2. CASE LeavesRows(w)
  <2> SUFFICES ASSUME NEW c \in Contacts, send'[c] = "SENT",
                      \A v \in Workers : wtask'[v][c] # "charging"
               PROVE  charged'[c] = 1 \/ balance' < UnitCost
    BY DEF SentIsPaid
  <2>1. wtask[w][c] # "charging"
    <3>1. CASE Reads(w)
      BY <3>1 DEF Reads, Clean, Struct, JobsFit
    <3>2. CASE ~Reads(w)
      BY <1>1, <1>2, <3>2 DEF LeavesRows
    <3> QED BY <3>1, <3>2
  <2>2. \A v \in Workers : wtask[v][c] # "charging"
    BY <1>1, <2>1 DEF Alone
  <2> QED BY <1>2, <2>2 DEF LeavesRows, SentIsPaid
<1>3. ASSUME NEW c \in Contacts, MovesRow(w, c)
      PROVE  SentIsPaid'
  <2> SUFFICES ASSUME NEW d \in Contacts, send'[d] = "SENT",
                      \A v \in Workers : wtask'[v][d] # "charging"
               PROVE  charged'[d] = 1 \/ balance' < UnitCost
    BY DEF SentIsPaid
  <2>1. Answered(w, c) \/ Written(w, c) \/ Charged(w, c)
    BY <1>3, NothingThrows DEF Clean
  <2>2. balance' \in Int /\ balance' <= balance
    BY <1>t, <2>1 DEF Answered, Written, Charged
  <2>3. CASE d # c
    <3>1. send[d] = "SENT" /\ charged'[d] = charged[d] /\ wtask'[w][d] = wtask[w][d]
      BY <1>3, <2>3 DEF MovesRow
    <3>2. \A v \in Workers : wtask[v][d] # "charging"
      BY <1>1, <3>1 DEF Alone
    <3>3. charged[d] = 1 \/ balance < UnitCost
      BY <3>1, <3>2 DEF SentIsPaid
    <3> QED BY <1>t, <2>2, <3>1, <3>3
  <2>4. CASE d = c
    <3>1. /\ wtask[w][c] = "todo" => send[c] = "PENDING"
          /\ wtask[w][c] = "charging" => charged[c] = 0
      BY DEF Clean, RowsHeld
    <3>2. Charged(w, c)
      BY <2>1, <2>4, <3>1 DEF Answered, Written, Row
    <3> QED BY <1>t, <2>4, <3>1, <3>2 DEF Charged
  <2> QED BY <2>3, <2>4
<1> QED BY <1>2, <1>3, StepKinds DEF Clean

(* When nothing throws and nobody dies, every send recorded as SENT is paid
   for, or the credit ran out: the debit that follows the write of SENT never
   finds another callback's in its way. *)
THEOREM SendsArePaid ==
  ASSUME OneSend, MaxFaults = 0, MaxCrashes = 0
  PROVE  Spec => []SentIsPaid
<1> USE DEF tables, sendRows, keepTables
<1>0. NeverRerun
  BY DEF NeverRerun
<1>1. ASSUME Init PROVE SentIsPaid
  BY <1>1 DEF Init, SentIsPaid
<1>2. ASSUME Clean, SentIsPaid, [Next]_vars PROVE SentIsPaid'
  <2>1. ASSUME NEW w \in Workers, WorkerStep(w) PROVE SentIsPaid'
    BY <1>2, <2>1, WorkerKeepsPaid
  <2>2. ASSUME NEW r \in Clients, SendingStep(r) PROVE SentIsPaid'
    <3>1. UNCHANGED <<wtask, charged>>
      BY <1>2, <2>2, RequestKeepsStruct DEF Unworked, Clean
    <3>2. UNCHANGED balance /\ \A c \in Contacts : send'[c] = "SENT" => send[c] = "SENT"
      BY <2>2 DEF SendingStep, SendStart, Begin, CreateSends, SetSending, EnqueueFirst, RequestFails, outside
    <3> QED BY <1>2, <3>1, <3>2 DEF SentIsPaid
  <2>3. CASE OtherStep
    <3>1. UNCHANGED <<send, wtask, charged>>
      BY <1>2, <2>3, OtherKeepsStruct DEF Unworked, Clean
    <3>2. balance' \in Int /\ balance' <= balance /\ balance \in Nat /\ UnitCost \in Nat
      BY <1>2, <2>3, SizesAssumption
         DEF Clean, Struct, TInv, TypeOK, OtherStep, OptOut, SpendElsewhere, Tick, vars
    <3>3. ASSUME NEW c \in Contacts, charged[c] = 1 \/ balance < UnitCost
          PROVE  charged'[c] = 1 \/ balance' < UnitCost
      BY <3>1, <3>2, <3>3
    <3> QED BY <1>2, <3>1, <3>3 DEF SentIsPaid
  <2> QED BY <1>2, <2>1, <2>2, <2>3, PossibleSteps DEF Clean, Struct
<1> QED BY <1>0, <1>1, <1>2, CleanHolds, PTL DEF Spec

-----------------------------------------------------------------------------
(* The counters *)

SentRows == {c \in Contacts \ Settling : send[c] = "SENT"}
FailedRows == {c \in Contacts \ Settling : send[c] \in {"BOUNCED", "UNSUBSCRIBED"}}

(* Until the campaign is SENDING none of its rows has an outcome, so setting the
   counters to zero is right. *)
RowsFresh ==
  \A r \in Clients : rpc[r] = "setSending" => \A c \in Contacts : send[c] \in {"PENDING", "ABSENT"}

(* Only UpdateCounters counts.  Otherwise a worker reads a chunk, moves a row of
   its chunk, or is not at work on rows. *)
LEMMA CountersKept ==
  ASSUME MaxFaults = 0, MaxCrashes = 0, Clean, NEW w \in Workers, WorkerStep(w), ~UpdateCounters(w)
  PROVE  /\ UNCHANGED <<sentCount, failedCount>>
         /\ \/ UNCHANGED send /\ wpc[w] # "sending" /\ wpc'[w] # "sending"
            \/ UNCHANGED send /\ Reads(w)
            \/ \E c \in Contacts : MovesRow(w, c)
<1> USE DEF tables, campaignRow, sendRows, Goto
<1>t. /\ DOMAIN wpc = Workers /\ wpc = [v \in Workers |-> wpc[v]]
      /\ wtask \in [Workers -> [Contacts -> TaskState]]
      /\ faults \in Nat /\ crashes \in Nat
  BY DEF Clean, Struct, TInv, TypeOK
<1>1. ~Fault /\ ~Crash
  BY <1>t DEF Fault, Crash, Clean, WithinBounds
<1>2. CASE \E c \in Contacts : ContactStep(w, c)
  BY <1>2, ContactsMoveRows DEF Clean, MovesRow
<1>3. CASE SelectSends(w)
  BY <1>t, <1>3 DEF SelectSends, Reads
<1>4. CASE TakeJob(w) \/ ReadCampaign(w) \/ CountWhenEmpty(w) \/ MarkSentWhenEmpty(w)
           \/ CountRemaining(w) \/ MarkSent(w) \/ NextChunk(w) \/ EvaluateWinner(w)
           \/ AddWinnerJob(w) \/ CompleteJob(w)
  BY <1>t, <1>4 DEF TakeJob, ReadCampaign, CountWhenEmpty, MarkSentWhenEmpty, CountRemaining,
       MarkSent, NextChunk, EvaluateWinner, AddWinnerJob, CompleteJob, Release,
       SetStatusIfExists, SetStatus
<1>5. CASE SetWinner(w)
  BY <1>t, <1>5 DEF SetWinner, FailJob, Release
<1> QED BY <1>1, <1>2, <1>3, <1>4, <1>5 DEF WorkerStep, DispatchStep, JobThrows, WorkerDies

(* Settling a chunk moves its rows into the counters. *)
LEMMA ChunkCounted ==
  ASSUME Clean, CountersMatchRows, NEW w \in Workers, UpdateCounters(w)
  PROVE  CountersMatchRows'
<1> USE DEF tables, campaignRow, sendRows
<1>t. /\ DOMAIN wpc = Workers /\ wpc = [v \in Workers |-> wpc[v]]
      /\ wtask \in [Workers -> [Contacts -> TaskState]] /\ Exists
      /\ sentCount \in Nat /\ failedCount \in Nat
  BY DEF Clean, Struct, TInv, TypeOK, AtOnce, Exists
<1> DEFINE ok == TasksIn(w, {"ok"})
           ko == TasksIn(w, {"ko"})
<1>1. /\ wpc[w] = "sending" /\ AllSettled(w)
      /\ sentCount' = sentCount + Cardinality(ok)
      /\ failedCount' = failedCount + Cardinality(ko)
      /\ wpc' = [wpc EXCEPT ![w] = "count"] /\ UNCHANGED <<wtask, send>>
  BY <1>t DEF UpdateCounters, Goto
<1>2. \A c \in Contacts : c \in ok \/ c \in ko <=> wtask[w][c] # "none"
  BY <1>1 DEF AllSettled, ChunkOf, TasksIn
<1>3. \A c \in Contacts : /\ c \in ok => send[c] = "SENT"
                          /\ c \in ko => send[c] \in {"BOUNCED", "UNSUBSCRIBED"}
  BY <1>1 DEF TasksIn, Clean, Outcomes
<1>4. \A c \in Contacts : c \in Settling <=> c \in Settling' \/ wtask[w][c] # "none"
  <2> SUFFICES ASSUME NEW c \in Contacts
               PROVE  c \in Settling <=> c \in Settling' \/ wtask[w][c] # "none"
    OBVIOUS
  <2>1. c \in Settling <=> \E v \in Workers : wpc[v] = "sending" /\ wtask[v][c] # "none"
    BY DEF Settling, ChunkOf
  <2>2. c \in Settling' <=> \E v \in Workers : wpc'[v] = "sending" /\ wtask[v][c] # "none"
    BY <1>1 DEF Settling, ChunkOf
  <2>3. \A v \in Workers : wpc'[v] = "sending" <=> wpc[v] = "sending" /\ v # w
    BY <1>t, <1>1
  <2> QED BY <1>1, <2>1, <2>2, <2>3
<1>5. \A c \in Contacts : wtask[w][c] # "none" => c \notin Settling'
  <2> SUFFICES ASSUME NEW c \in Contacts, wtask[w][c] # "none", NEW v \in Workers,
                      wpc'[v] = "sending", wtask[v][c] # "none"
               PROVE  FALSE
    BY <1>1 DEF Settling, ChunkOf
  <2>1. v # w /\ wpc[v] = "sending"
    BY <1>t, <1>1
  <2> QED BY <1>1, <2>1 DEF Clean, OneHolder
<1>6. ok \subseteq Contacts /\ ko \subseteq Contacts
  BY DEF TasksIn
<1> HIDE DEF ok, ko
<1>7. /\ SentRows' = SentRows \cup ok /\ SentRows \cap ok = {}
      /\ FailedRows' = FailedRows \cup ko /\ FailedRows \cap ko = {}
  <2>1. \A c \in Contacts : c \in ok => c \in Settling /\ c \notin Settling'
    BY <1>2, <1>4, <1>5
  <2>2. \A c \in Contacts : c \in ko => c \in Settling /\ c \notin Settling'
    BY <1>2, <1>4, <1>5
  <2>3. \A c \in Contacts : c \notin Settling' => c \notin Settling \/ c \in ok \/ c \in ko
    BY <1>2, <1>4
  <2>4. \A c \in Contacts : c \notin Settling => c \notin Settling'
    BY <1>4
  <2>5. SentRows' = SentRows \cup ok /\ SentRows \cap ok = {}
    BY <1>1, <1>3, <1>6, <2>1, <2>3, <2>4 DEF SentRows
  <2>6. FailedRows' = FailedRows \cup ko /\ FailedRows \cap ko = {}
    BY <1>1, <1>3, <1>6, <2>2, <2>3, <2>4 DEF FailedRows
  <2> QED BY <2>5, <2>6
<1>8. /\ IsFiniteSet(SentRows) /\ IsFiniteSet(ok) /\ IsFiniteSet(FailedRows) /\ IsFiniteSet(ko)
  BY <1>6, ContactsAssumption, FS_Subset DEF SentRows, FailedRows
<1>9. Cardinality({}) = 0 /\ Cardinality(ok) \in Nat /\ Cardinality(ko) \in Nat
  BY <1>8, FS_EmptySet, FS_CardinalityType
<1>10. Cardinality(SentRows') = Cardinality(SentRows) + Cardinality(ok)
  <2>1. Cardinality(SentRows \cup ok) =
          Cardinality(SentRows) + Cardinality(ok) - Cardinality(SentRows \cap ok)
    BY <1>8, FS_Union
  <2>2. Cardinality(SentRows) \in Nat
    BY <1>8, FS_CardinalityType
  <2>3. SentRows \cap ok = {} /\ SentRows' = SentRows \cup ok
    BY <1>7
  <2>4. Cardinality(SentRows \cap ok) = 0
    BY <1>9, <2>3, Zenon
  <2>5. Cardinality(SentRows') = Cardinality(SentRows \cup ok)
    BY <2>3, Zenon
  <2> QED BY <1>9, <2>1, <2>2, <2>4, <2>5
<1>11. Cardinality(FailedRows') = Cardinality(FailedRows) + Cardinality(ko)
  <2>1. Cardinality(FailedRows \cup ko) =
          Cardinality(FailedRows) + Cardinality(ko) - Cardinality(FailedRows \cap ko)
    BY <1>8, FS_Union
  <2>2. Cardinality(FailedRows) \in Nat
    BY <1>8, FS_CardinalityType
  <2>3. FailedRows \cap ko = {} /\ FailedRows' = FailedRows \cup ko
    BY <1>7
  <2>4. Cardinality(FailedRows \cap ko) = 0
    BY <1>9, <2>3, Zenon
  <2>5. Cardinality(FailedRows') = Cardinality(FailedRows \cup ko)
    BY <2>3, Zenon
  <2> QED BY <1>9, <2>1, <2>2, <2>4, <2>5
<1>12. sentCount = Cardinality(SentRows) /\ failedCount = Cardinality(FailedRows)
  BY DEF CountersMatchRows, SentRows, FailedRows
<1>13. sentCount' = Cardinality(SentRows') /\ failedCount' = Cardinality(FailedRows')
  BY <1>1, <1>10, <1>11, <1>12
<1> QED BY <1>13 DEF CountersMatchRows, SentRows, FailedRows

(* A worker that counts its rows keeps the counters equal to the rows. *)
LEMMA WorkerKeepsCounters ==
  ASSUME MaxFaults = 0, MaxCrashes = 0, Clean, CountersMatchRows, RowsFresh,
         NEW w \in Workers, WorkerStep(w)
  PROVE  CountersMatchRows' /\ RowsFresh'
<1>t. wtask \in [Workers -> [Contacts -> TaskState]]
  BY DEF Clean, Struct, TInv, TypeOK
<1>1. Alone(w) /\ UNCHANGED rpc
  BY WorkerFrame DEF Clean, Struct, Untold
<1>2. RowsFresh'
  <2> SUFFICES ASSUME NEW r \in Clients, rpc[r] = "setSending", NEW c \in Contacts
               PROVE  send'[c] \in {"PENDING", "ABSENT"}
    BY <1>1 DEF RowsFresh
  <2>1. wpc[w] # "sending"
    BY DEF Clean, Struct, OneRequest, Untouched
  <2>2. send'[c] = send[c]
    BY <2>1, RowsWritten DEF Clean, Writes
  <2> QED BY <2>2 DEF RowsFresh
<1>3. CASE UpdateCounters(w)
  BY <1>2, <1>3, ChunkCounted
<1>4. CASE ~UpdateCounters(w)
  <2>1. UNCHANGED <<sentCount, failedCount>>
    BY <1>4, CountersKept
  <2>2. SentRows' = SentRows /\ FailedRows' = FailedRows
    <3>1. CASE UNCHANGED send /\ wpc[w] # "sending" /\ wpc'[w] # "sending"
      <4>1. Settling' = Settling
        BY <1>1, <3>1 DEF Settling, ChunkOf, Alone
      <4> QED BY <3>1, <4>1 DEF SentRows, FailedRows
    <3>2. CASE UNCHANGED send /\ Reads(w)
      <4>1. \A c \in Contacts : c \in Chunk(wjob[w]) => send[c] = "PENDING"
        BY DEF Chunk, Selectable, Matches, Pending
      <4>2. \A c \in Contacts :
              c \in Settling' <=> c \in Settling \/ (wpc'[w] = "sending" /\ wtask'[w][c] # "none")
        <5> SUFFICES ASSUME NEW c \in Contacts
                     PROVE  c \in Settling' <=>
                              c \in Settling \/ (wpc'[w] = "sending" /\ wtask'[w][c] # "none")
          OBVIOUS
        <5>1. c \in Settling <=> \E v \in Workers : wpc[v] = "sending" /\ wtask[v][c] # "none"
          BY DEF Settling, ChunkOf
        <5>2. c \in Settling' <=> \E v \in Workers : wpc'[v] = "sending" /\ wtask'[v][c] # "none"
          BY DEF Settling, ChunkOf
        <5>3. wpc[w] # "sending"
          BY <3>2 DEF Reads
        <5> QED BY <1>1, <5>1, <5>2, <5>3 DEF Alone
      <4>3. \A c \in Contacts : wtask'[w][c] # "none" => send[c] = "PENDING"
        BY <3>2, <4>1 DEF Reads
      <4>4. \A c \in Contacts : send[c] # "PENDING" => (c \in Settling' <=> c \in Settling)
        BY <4>2, <4>3
      <4> QED BY <3>2, <4>4 DEF SentRows, FailedRows
    <3>3. ASSUME NEW c \in Contacts, MovesRow(w, c)
          PROVE  SentRows' = SentRows /\ FailedRows' = FailedRows
      <4>1. Answered(w, c) \/ Written(w, c) \/ Charged(w, c)
        BY <3>3, NothingThrows DEF Clean
      <4>2. /\ wpc[w] = "sending" /\ UNCHANGED wpc
            /\ \A d \in Contacts : wtask'[w][d] # "none" <=> wtask[w][d] # "none"
            /\ \A d \in Contacts \ {c} : send'[d] = send[d]
            /\ wtask[w][c] # "none"
        BY <3>3, <4>1 DEF MovesRow, Answered, Written, Charged
      <4>3. \A v \in Workers : ChunkOf(v)' = ChunkOf(v)
        BY <1>1, <4>2 DEF ChunkOf, Alone
      <4>4. Settling' = Settling
        BY <4>2, <4>3 DEF Settling
      <4>5. c \in Settling
        BY <4>2 DEF Settling, ChunkOf
      <4> QED BY <4>2, <4>4, <4>5 DEF SentRows, FailedRows
    <3> QED BY <1>4, <3>1, <3>2, <3>3, CountersKept
  <2>3. sentCount' = Cardinality(SentRows') /\ failedCount' = Cardinality(FailedRows')
    BY <2>1, <2>2 DEF CountersMatchRows, SentRows, FailedRows
  <2> QED BY <1>2, <2>3 DEF CountersMatchRows, SentRows, FailedRows
<1> QED BY <1>3, <1>4

(* So does a request. *)
LEMMA RequestKeepsCounters ==
  ASSUME OneSend, Clean, CountersMatchRows, RowsFresh, NEW r \in Clients, SendingStep(r)
  PROVE  CountersMatchRows' /\ RowsFresh'
<1> USE DEF tables, campaignRow, sendRows, keepTables
<1>t. /\ DOMAIN rpc = Clients /\ rpc = [s \in Clients |-> rpc[s]]
  BY DEF Clean, Struct, TInv, TypeOK
<1>1. UNCHANGED <<wpc, wtask>>
  BY RequestKeepsStruct DEF Unworked, Clean
<1>2. Settling' = Settling
  BY <1>1 DEF Settling, ChunkOf
<1>3. CASE SendStart(r) \/ EnqueueFirst(r) \/ RequestFails(r)
  <2>1. UNCHANGED <<send, sentCount, failedCount>>
    BY <1>3 DEF SendStart, Begin, EnqueueFirst, RequestFails
  <2>2. \A s \in Clients : rpc'[s] = "setSending" => rpc[s] = "setSending"
    BY <1>t, <1>3 DEF SendStart, Begin, EnqueueFirst, RequestFails, Return
  <2>3. CountersMatchRows'
    BY <1>2, <2>1 DEF CountersMatchRows
  <2> QED BY <2>1, <2>2, <2>3 DEF RowsFresh
<1>4. CASE CreateSends(r)
  <2>1. NoRows /\ UNCHANGED <<sentCount, failedCount>>
    BY <1>4 DEF CreateSends, Clean, Struct, OneRequest
  <2>2. \A c \in Contacts : send'[c] \in {"PENDING", "ABSENT"} /\ send[c] = "ABSENT"
    BY <1>4, <2>1 DEF CreateSends, NoRows
  <2>3. SentRows' = SentRows /\ FailedRows' = FailedRows
    BY <1>2, <2>2 DEF SentRows, FailedRows
  <2>4. sentCount' = Cardinality(SentRows') /\ failedCount' = Cardinality(FailedRows')
    BY <2>1, <2>3 DEF CountersMatchRows, SentRows, FailedRows
  <2> QED BY <2>2, <2>4 DEF RowsFresh, CountersMatchRows, SentRows, FailedRows
<1>5. CASE SetSending(r)
  <2>1. UNCHANGED send /\ rpc[r] = "setSending" /\ Exists
    BY <1>5 DEF SetSending, Clean, Struct, AtOnce, Exists
  <2>2. sentCount' = 0 /\ failedCount' = 0
    BY <1>5, <2>1 DEF SetSending
  <2>3. \A c \in Contacts : send'[c] \in {"PENDING", "ABSENT"}
    BY <2>1 DEF RowsFresh
  <2>4. SentRows' = {} /\ FailedRows' = {}
    BY <2>3 DEF SentRows, FailedRows
  <2>5. sentCount' = Cardinality(SentRows') /\ failedCount' = Cardinality(FailedRows')
    BY <2>2, <2>4, FS_EmptySet
  <2> QED BY <2>3, <2>5 DEF RowsFresh, CountersMatchRows, SentRows, FailedRows
<1> QED BY <1>3, <1>4, <1>5 DEF SendingStep

(* When nothing throws and nobody dies, sentCount and failedCount are what the
   rows say, whatever chunks are being handled at the same time: no row is
   counted by two of them, and none is forgotten. *)
THEOREM CountersAreRows ==
  ASSUME OneSend, MaxFaults = 0, MaxCrashes = 0
  PROVE  Spec => []CountersMatchRows
<1>0. NeverRerun
  BY DEF NeverRerun
<1>1. ASSUME Init PROVE CountersMatchRows /\ RowsFresh
  <2>1. sentCount = 0 /\ failedCount = 0 /\ \A c \in Contacts : send[c] = "ABSENT"
    BY <1>1 DEF Init
  <2>2. SentRows = {} /\ FailedRows = {}
    BY <2>1 DEF SentRows, FailedRows
  <2>3. sentCount = Cardinality(SentRows) /\ failedCount = Cardinality(FailedRows)
    BY <2>1, <2>2, FS_EmptySet
  <2> QED BY <2>1, <2>3 DEF RowsFresh, CountersMatchRows, SentRows, FailedRows
<1>2. ASSUME Clean, CountersMatchRows, RowsFresh, [Next]_vars
      PROVE  CountersMatchRows' /\ RowsFresh'
  <2>1. CASE OtherStep
    <3>1. UNCHANGED <<send, wtask, wpc, rpc>>
      BY <1>2, <2>1, OtherKeepsStruct DEF Unworked, Clean
    <3>2. UNCHANGED <<sentCount, failedCount>>
      BY <2>1 DEF OtherStep, OptOut, SpendElsewhere, Tick, vars, tables, campaignRow
    <3> QED BY <1>2, <3>1, <3>2 DEF CountersMatchRows, RowsFresh, Settling, ChunkOf
  <2> QED BY <1>2, <2>1, PossibleSteps, WorkerKeepsCounters, RequestKeepsCounters DEF Clean, Struct
<1> QED BY <1>0, <1>1, <1>2, CleanHolds, PTL DEF Spec

=============================================================================
