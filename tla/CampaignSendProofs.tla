--------------------------- MODULE CampaignSendProofs ---------------------------
(***************************************************************************)
(* What becomes of a campaign that one request sends at once, for any      *)
(* contacts, plain or A/B, any number of workers, size of chunk, calls     *)
(* that throw and workers that die: who is written to, how often and at    *)
(* whose expense, and what the campaign's row says of it.                  *)
(*                                                                         *)
(* The argument counts claims.  A job on the queue, a running worker or    *)
(* the request still adding jobs has a claim on a contact while it may     *)
(* lead to a message for it.  Every step hands a claim on, drops it, or    *)
(* uses it up for a message; only a worker that dies adds one, because     *)
(* BullMQ runs its job again.                                              *)
(***************************************************************************)
EXTENDS CampaignProofs

(* The circumstances: one request, which sends the campaign and asks for no
   date.  Nothing is said of faults, crashes, opt-outs or other spending. *)
OneSend == Operations \subseteq {"send"} /\ Dates = {} /\ MaxRequests <= 1

-----------------------------------------------------------------------------
(* The request *)

(* Nothing is scheduled, so neither the trigger nor the cron has anything to do. *)
AtOnce ==
  /\ scheduledAt = Never /\ sched = NoSched /\ tpc = "idle"
  /\ \A i \in Crons : cpc[i] = "idle"
  /\ status \in {"DRAFT", "SENDING", "SENT"}

(* Before the request has put the first job on the queue. *)
Untouched ==
  /\ status = "DRAFT" /\ abWinner = "NONE"
  /\ queue = {} /\ \A w \in Workers : wpc[w] = "idle"
  /\ \A c \in Contacts : handed[c] = 0 /\ charged[c] = 0
NoRows == \A c \in Contacts : send[c] = "ABSENT"

(* The jobs still to be added. *)
AddSampleA == Add(SampleJob("A", "initial"), 0)
AddSampleB == Add(SampleJob("B", "initial"), 0)
AddEvaluate == Add(EvaluateJob, EvaluateDelay)
AddAll == Add(PlainJob("default"), 0)
Remaining ==
  IF isAB THEN {<<AddSampleA, AddSampleB, AddEvaluate>>, <<AddSampleB, AddEvaluate>>, <<AddEvaluate>>}
  ELSE {<<AddAll>>}

OneRequest ==
  /\ requests \in {0, 1}
  /\ requests = 0 => Untouched /\ NoRows /\ \A r \in Clients : rpc[r] = "idle"
  /\ \A r, s \in Clients : rpc[r] # "idle" /\ rpc[s] # "idle" => r = s
  /\ \A r \in Clients :
       /\ rpc[r] \in {"idle", "createSends", "setSending", "enqueue"}
       /\ rpc[r] # "idle" => req[r].when = Never
       /\ rpc[r] = "createSends" => Untouched /\ NoRows /\ req[r].who # {}
       /\ rpc[r] = "setSending" => Untouched
       /\ rpc[r] = "enqueue" => req[r].adds \in Remaining

-----------------------------------------------------------------------------
(* The jobs *)

(* An A/B campaign has jobs for the two samples, one that evaluates, and, once
   there is a winner, jobs for the remaining contacts; another campaign has
   jobs for everybody. *)
Fits(j) ==
  IF isAB
    THEN \/ j = EvaluateJob
         \/ /\ j.name # "evaluate" /\ j.variant \in Winners
            /\ j.remaining => j.variant = abWinner
    ELSE j.name # "evaluate" /\ j.variant = "NONE" /\ ~j.remaining

Evaluating == {"evaluate", "setWinner", "addWinner"}

JobsFit ==
  /\ \A e \in queue : Fits(e.job)
  /\ \A w \in Workers :
       /\ wpc[w] = "idle" => wjob[w] = NoJob
       /\ wpc[w] # "idle" => Fits(wjob[w])
       /\ wpc[w] \in Evaluating => wjob[w] = EvaluateJob
       /\ wpc[w] \notin Evaluating \cup {"idle", "done"} => wjob[w].name # "evaluate"
       /\ wpc[w] # "sending" => \A c \in Contacts : wtask[w][c] \in {"none", "ok", "ko"}

(* One evaluation is queued, running or still to be added: the winner is set
   once, and a job for the remaining contacts carries it. *)
OneEvaluation ==
  /\ \A w, v \in Workers : wjob[w] = EvaluateJob /\ wjob[v] = EvaluateJob => w = v
  /\ \A w \in Workers, e \in queue : ~(wjob[w] = EvaluateJob /\ e.job = EvaluateJob)
  /\ \A e, f \in queue : e.job = EvaluateJob /\ f.job = EvaluateJob => e = f
  /\ \A r \in Clients : rpc[r] = "enqueue" /\ isAB =>
       /\ \A w \in Workers : wjob[w] # EvaluateJob
       /\ \A e \in queue : e.job # EvaluateJob
  /\ \A w \in Workers :
       /\ wpc[w] = "setWinner" => abWinner = "NONE" /\ wpick[w] \in Winners
       /\ wpc[w] = "addWinner" => abWinner \in Winners /\ wpick[w] = abWinner

(* A row that was not sent with the winner's variant is sent with its own. *)
VariantsSeen ==
  /\ \A w \in Workers, c \in Contacts :
       isAB /\ wpc[w] = "sending" /\ wtask[w][c] # "none" /\ ~wjob[w].remaining
         => wseen[w][c] \in Winners
  /\ isAB => \A c \in Contacts : send[c] = "SENT" => variant[c] \in Winners

(* A worker that is about to write SENT found no PENDING row, and there will be
   no more. *)
Drained ==
  /\ \A w \in Workers : wpc[w] \in {"markSent", "markSentEmpty"} => Pending = {}
  /\ SentMeansDrained

-----------------------------------------------------------------------------
(* Claims *)

(* The rows a job's query asks for, whatever chunk of them it gets. *)
Asks(j, c) ==
  /\ send[c] = "PENDING"
  /\ IF j.name = "evaluate" THEN variant[c] = "NONE"
     ELSE j.variant = "NONE" \/ variant[c] = IF j.remaining THEN "NONE" ELSE j.variant
Claims(j, c) == Asks(j, c) /\ (j.cursor = 0 \/ c > j.cursor)

(* A worker claims the rows of its chunk while they are in one of the states
   S, and those after its chunk. *)
WorkerClaims(w, c, S) ==
  \/ wpc[w] \in {"read", "select"} \cup Evaluating /\ Claims(wjob[w], c)
  \/ wpc[w] = "sending" /\ wtask[w][c] \in S
  \/ /\ wpc[w] \in {"sending", "count", "markSent", "chain"}
     /\ Asks(wjob[w], c)
     /\ \A d \in ChunkOf(w) : d < c

ToAdd(c) ==
  \E r \in Clients :
    rpc[r] = "enqueue" /\ \E i \in DOMAIN req[r].adds : Claims(req[r].adds[i].job, c)

Queued(e) == <<"queued", e>>
Run(w) == <<"run", w>>
Adding == <<"add", "add">>
Claimants(c, S) ==
  {Queued(e) : e \in {x \in queue : Claims(x.job, c)}}
    \cup {Run(w) : w \in {x \in Workers : WorkerClaims(x, c, S)}}
    \cup {x \in {Adding} : ToAdd(c)}

ToHand == {"todo"}
Held == TaskState \ {"none"}

(* Who may still write to a contact, with those who did, is one, and one more
   for each worker that died; so is who works on its row. *)
ClaimsBounded ==
  \A c \in Contacts :
    /\ IsFiniteSet(Claimants(c, Held))
    /\ Cardinality(Claimants(c, Held)) <= 1 + crashes
    /\ IsFiniteSet(Claimants(c, ToHand))
    /\ handed[c] + Cardinality(Claimants(c, ToHand)) <= 1 + crashes

SendInv ==
  /\ TInv /\ AtOnce /\ OneRequest /\ JobsFit /\ OneEvaluation /\ VariantsSeen /\ Drained
  /\ ClaimsBounded

-----------------------------------------------------------------------------
(* What can happen at all *)

Struct ==
  /\ TInv /\ AtOnce /\ OneRequest /\ JobsFit /\ OneEvaluation /\ VariantsSeen /\ Drained

WorkerStep(w) == TakeJob(w) \/ DispatchStep(w) \/ JobThrows(w) \/ WorkerDies(w)
SendingStep(r) ==
  SendStart(r) \/ CreateSends(r) \/ SetSending(r) \/ EnqueueFirst(r) \/ RequestFails(r)
OtherStep ==
  (\E c \in Leavers : OptOut(c)) \/ SpendElsewhere \/ Tick \/ UNCHANGED vars

(* With nothing scheduled, the trigger and the cron do nothing. *)
LEMMA ScheduleIsIdle ==
  ASSUME TInv, AtOnce
  PROVE  ~ScheduleNext
<1> USE DEF AtOnce
<1>1. ~TakeTrigger
  BY DEF TakeTrigger, NoSched, SchedJob
<1>2. ~TriggerStep
  BY DEF TriggerStep, TriggerRead, CleanDelayed, DeferTrigger, TriggerCheckCredit, TriggerFailed,
         TriggerSending, TriggerUpdate, TriggerCount, TriggerAdd, CompleteTrigger
<1>3. ~TriggerThrows /\ ~TriggerDies
  BY DEF TriggerThrows, TriggerDies
<1>4. \A i \in Crons : ~CronStep(i) /\ ~CronThrows(i) /\ ~CronDies(i)
  BY DEF CronStep, CronRead, CronCheckCredit, CronAdd, CronMark, CronFail, CronWrite, CronThrows,
         CronDies
<1> QED BY <1>1, <1>2, <1>3, <1>4 DEF ScheduleNext

(* What is left are the workers, the request that sends, and what goes on
   around them. *)
LEMMA PossibleSteps ==
  ASSUME OneSend, TInv, AtOnce, OneRequest, [Next]_vars
  PROVE  \/ \E w \in Workers : WorkerStep(w)
         \/ \E r \in Clients : SendingStep(r)
         \/ OtherStep
<1>1. CASE DispatchNext
  BY <1>1 DEF DispatchNext, WorkerStep
<1>2. CASE ScheduleNext
  BY <1>2, ScheduleIsIdle
<1>3. CASE ApiNext
  <2>1. PICK r \in Clients : RequestStart(r) \/ RequestStep(r) \/ RequestFails(r)
    BY <1>3 DEF ApiNext
  <2>2. rpc[r] \in {"idle", "createSends", "setSending", "enqueue"}
    BY DEF OneRequest
  <2>3. CASE RequestStart(r)
    BY <2>3 DEF RequestStart, Asked, OneSend, SendingStep
  <2>4. CASE RequestStep(r)
    BY <2>2, <2>4 DEF RequestStep, SendingStep, EnqueueTrigger, CancelWrite, CancelRemoveJob,
         DeleteWrite, DraftWrite, RescheduleAdd, RescheduleWrite, EvaluateWrite, EvaluateAddJob
  <2> QED BY <2>1, <2>3, <2>4 DEF SendingStep
<1> QED BY <1>1, <1>2, <1>3 DEF Next, OtherStep

(* A worker's step leaves the request, the schedule and the other workers as
   they are, and writes no status but SENT. *)
Untold == <<isAB, scheduledAt, sched, tpc, cpc, rpc, req, requests>>
Alone(w) ==
  \A v \in Workers \ {w} :
    /\ wpc'[v] = wpc[v] /\ wjob'[v] = wjob[v] /\ wtask'[v] = wtask[v]
    /\ wseen'[v] = wseen[v] /\ wpick'[v] = wpick[v]

(* A step of a worker leaves requests, triggers and the other workers alone. *)
LEMMA WorkerFrame ==
  ASSUME TInv, AtOnce, NEW w \in Workers, WorkerStep(w)
  PROVE  UNCHANGED Untold /\ status' \in {status, "SENT"} /\ Alone(w)
<1> USE DEF Untold, Alone, TInv, TypeOK, AtOnce, Exists, tables, campaignRow, sendRows, dispatchQueue,
            workerVars, triggerVars, requestVars, history, bounds, elsewhere, Goto, SetTask
<1>0. ASSUME FailJob(w), requests' = requests
      PROVE  UNCHANGED Untold /\ status' \in {status, "SENT"} /\ Alone(w)
  BY <1>0 DEF FailJob, Release
<1>1. CASE TakeJob(w)
  BY <1>1 DEF TakeJob
<1>2. CASE ReadCampaign(w) \/ SelectSends(w) \/ CountWhenEmpty(w) \/ CountRemaining(w)
  BY <1>2 DEF ReadCampaign, SelectSends, CountWhenEmpty, CountRemaining
<1>3. CASE MarkSentWhenEmpty(w) \/ MarkSent(w)
  BY <1>3 DEF MarkSentWhenEmpty, MarkSent, SetStatusIfExists, SetStatus
<1>4. CASE UpdateCounters(w)
  BY <1>4, <1>0 DEF UpdateCounters
<1>5. CASE NextChunk(w)
  BY <1>5 DEF NextChunk
<1>6. CASE EvaluateWinner(w)
  BY <1>6 DEF EvaluateWinner
<1>7. CASE SetWinner(w)
  BY <1>7, <1>0 DEF SetWinner
<1>8. CASE AddWinnerJob(w)
  BY <1>8 DEF AddWinnerJob
<1>9. CASE CompleteJob(w)
  BY <1>9 DEF CompleteJob, Release
<1>10. ASSUME NEW c \in Contacts, ContactStep(w, c)
       PROVE  UNCHANGED Untold /\ status' \in {status, "SENT"} /\ Alone(w)
  <2>1. CASE HandToProvider(w, c)
    BY <2>1 DEF HandToProvider
  <2>2. CASE WriteSent(w, c) \/ WriteUnsubscribed(w, c) \/ WriteBounced(w, c)
    BY <2>2 DEF WriteSent, WriteUnsubscribed, WriteBounced, CallbackWrite, Fault
  <2>3. CASE ChargeSend(w, c) \/ ChargeThrows(w, c)
    BY <2>3 DEF ChargeSend, ChargeThrows, Fault
  <2> QED BY <1>10, <2>1, <2>2, <2>3 DEF ContactStep
<1>11. CASE JobThrows(w)
  BY <1>11, <1>0 DEF JobThrows, Fault
<1>12. CASE WorkerDies(w)
  BY <1>12 DEF WorkerDies, Release, Crash
<1> QED BY <1>1, <1>2, <1>3, <1>4, <1>5, <1>6, <1>7, <1>8, <1>9, <1>10, <1>11, <1>12
        DEF WorkerStep, DispatchStep

(* So what was true of the request and the schedule stays true. *)
LEMMA WorkerKeepsRequest ==
  ASSUME TInv, AtOnce, OneRequest, JobsFit, NEW w \in Workers, WorkerStep(w)
  PROVE  AtOnce' /\ OneRequest'
<1>1. UNCHANGED Untold /\ status' \in {status, "SENT"}
  BY WorkerFrame
<1>2. AtOnce'
  BY <1>1 DEF AtOnce, Untold
<1>3. ~Untouched
  <2> SUFFICES ASSUME Untouched PROVE FALSE
    OBVIOUS
  <2>1. wpc[w] = "idle" /\ queue = {}
    BY DEF Untouched
  <2>2. \A c \in Contacts : ~ContactStep(w, c)
    BY <2>1 DEF JobsFit, ContactStep, HandToProvider, WriteSent, WriteUnsubscribed, WriteBounced,
                CallbackWrite, ChargeSend, ChargeThrows
  <2> QED BY <2>1, <2>2 DEF WorkerStep, TakeJob, DispatchStep, ReadCampaign, SelectSends, CountWhenEmpty,
                      MarkSentWhenEmpty, UpdateCounters, CountRemaining, MarkSent, NextChunk,
                      EvaluateWinner, SetWinner, AddWinnerJob, CompleteJob, JobThrows, WorkerDies
<1> QED BY <1>1, <1>2, <1>3 DEF OneRequest, Untold, Remaining

-----------------------------------------------------------------------------
(* Workers and their jobs *)

Working == {"read", "select", "countEmpty", "markSentEmpty", "sending", "count", "markSent", "chain"}

(* A worker that goes on with its job, and may add one that is no evaluation. *)
LEMMA GoingOn ==
  ASSUME JobsFit, OneEvaluation, NEW w \in Workers, Alone(w), UNCHANGED Untold,
         wpc[w] # "idle", wpc'[w] # "idle", UNCHANGED <<wjob, abWinner>>,
         \A e \in queue' : e \in queue \/ (Fits(e.job) /\ e.job # EvaluateJob),
         \/ wpc[w] \in Working /\ wpc'[w] \in Working
         \/ wpc[w] \in Evaluating /\ wpc'[w] \in Evaluating
         \/ wpc'[w] = "done",
         wpc'[w] # "sending" => \A c \in Contacts : wtask'[w][c] \in {"none", "ok", "ko"},
         wpc'[w] = "setWinner" => abWinner = "NONE" /\ wpick'[w] \in Winners,
         wpc'[w] = "addWinner" => abWinner \in Winners /\ wpick'[w] = abWinner
  PROVE  JobsFit' /\ OneEvaluation'
<1> USE DEF Alone, Untold
<1>1. \A j : Fits(j)' <=> Fits(j)
  BY DEF Fits
<1>2. \A e \in queue' : Fits(e.job)'
  BY <1>1 DEF JobsFit
<1>3. ASSUME NEW v \in Workers
      PROVE  /\ wpc'[v] = "idle" => wjob'[v] = NoJob
             /\ wpc'[v] # "idle" => Fits(wjob'[v])
             /\ wpc'[v] \in Evaluating => wjob'[v] = EvaluateJob
             /\ wpc'[v] \notin Evaluating \cup {"idle", "done"} => wjob'[v].name # "evaluate"
             /\ wpc'[v] # "sending" => \A c \in Contacts : wtask'[v][c] \in {"none", "ok", "ko"}
  <2>1. CASE v = w
    BY <2>1 DEF JobsFit, Evaluating, Working
  <2>2. CASE v # w
    BY <2>2 DEF JobsFit
  <2> QED BY <2>1, <2>2
<1>4. JobsFit'
  BY <1>1, <1>2, <1>3 DEF JobsFit
<1>5. OneEvaluation'
  BY DEF OneEvaluation
<1> QED BY <1>4, <1>5

(* A worker that lets go of its job, which may be put back on the queue. *)
LEMMA LettingGo ==
  ASSUME JobsFit, OneEvaluation, NEW w \in Workers, Alone(w), UNCHANGED Untold,
         wpc[w] # "idle", wpc'[w] = "idle", wjob'[w] = NoJob, wtask'[w] = NoTasks,
         UNCHANGED abWinner,
         NEW e0, queue' = queue \/ queue' = queue \cup {e0}, e0.job = wjob[w]
  PROVE  JobsFit' /\ OneEvaluation'
<1> USE DEF Alone, Untold
<1>1. \A j : Fits(j)' <=> Fits(j)
  BY DEF Fits
<1>2. Fits(e0.job)
  BY DEF JobsFit
<1>3. \A e \in queue' : Fits(e.job)'
  BY <1>1, <1>2 DEF JobsFit
<1>4. ASSUME NEW v \in Workers
      PROVE  /\ wpc'[v] = "idle" => wjob'[v] = NoJob
             /\ wpc'[v] # "idle" => Fits(wjob'[v])
             /\ wpc'[v] \in Evaluating => wjob'[v] = EvaluateJob
             /\ wpc'[v] \notin Evaluating \cup {"idle", "done"} => wjob'[v].name # "evaluate"
             /\ wpc'[v] # "sending" => \A c \in Contacts : wtask'[v][c] \in {"none", "ok", "ko"}
  BY DEF JobsFit, Evaluating, NoTasks
<1>5. JobsFit'
  BY <1>1, <1>3, <1>4 DEF JobsFit
<1>6. NoJob # EvaluateJob
  BY DEF NoJob, EvaluateJob, Job
<1>7. OneEvaluation'
  BY <1>6 DEF OneEvaluation
<1> QED BY <1>5, <1>7

(* Jobs fit the campaign after every step of a worker: taking a job moves it,
   a step that goes on keeps it, the next chunk asks for what this one asked
   for, and the winner's job carries the winner that was just set. *)
LEMMA WorkerKeepsJobs ==
  ASSUME Struct, NEW w \in Workers, WorkerStep(w)
  PROVE  JobsFit' /\ OneEvaluation'
<1>1. UNCHANGED Untold /\ Alone(w)
  BY WorkerFrame DEF Struct
<1>2. JobsFit /\ OneEvaluation /\ Exists
  BY DEF Struct, AtOnce, Exists
<1>t. /\ DOMAIN wpc = Workers /\ DOMAIN wjob = Workers /\ DOMAIN wpick = Workers
      /\ wtask \in [Workers -> [Contacts -> TaskState]]
      /\ wpc = [v \in Workers |-> wpc[v]] /\ wjob = [v \in Workers |-> wjob[v]]
      /\ wpick = [v \in Workers |-> wpick[v]]
  BY DEF Struct, TInv, TypeOK
<1>e. EvaluateJob.name = "evaluate" /\ ~EvaluateJob.remaining /\ EvaluateJob.variant = "NONE"
  BY DEF EvaluateJob, Job
<1> USE DEF tables, campaignRow, sendRows, dispatchQueue,
            workerVars, elsewhere, Goto, SetTask, Working, Evaluating
<1>3. ASSUME wpc[w] # "idle", FailJob(w)
      PROVE  JobsFit' /\ OneEvaluation'
  <2>1. /\ wpc'[w] = "idle" /\ wjob'[w] = NoJob /\ wtask'[w] = NoTasks
        /\ UNCHANGED <<queue, abWinner>>
    BY <1>t, <1>3 DEF FailJob, Release
  <2>2. Entry(wjob[w], 0).job = wjob[w]
    BY DEF Entry
  <2> QED BY <1>1, <1>2, <1>3, <2>1, <2>2, LettingGo
<1>4. CASE TakeJob(w)
  <2>1. PICK e \in queue :
          /\ queue' = queue \ {e} /\ wjob' = [wjob EXCEPT ![w] = e.job]
          /\ wpc' = [wpc EXCEPT ![w] = IF e.job.name = "evaluate" THEN "evaluate" ELSE "read"]
    BY <1>4 DEF TakeJob
  <2>2. wpc[w] = "idle" /\ UNCHANGED <<abWinner, wtask, wpick>>
    BY <1>4 DEF TakeJob
  <2>3. Fits(e.job) /\ (e.job.name = "evaluate" => e.job = EvaluateJob)
    BY <1>2 DEF JobsFit, Fits
  <2>4. \A j : Fits(j)' <=> Fits(j)
    BY <1>1, <2>2 DEF Fits, Untold
  <2>5. /\ wjob'[w] = e.job /\ wtask'[w] = wtask[w]
        /\ wpc'[w] = IF e.job.name = "evaluate" THEN "evaluate" ELSE "read"
    BY <1>t, <2>1, <2>2
  <2>6. JobsFit'
    <3>1. \A f \in queue' : Fits(f.job)'
      BY <1>2, <2>1, <2>4 DEF JobsFit
    <3>2. ASSUME NEW v \in Workers
          PROVE  /\ wpc'[v] = "idle" => wjob'[v] = NoJob
                 /\ wpc'[v] # "idle" => Fits(wjob'[v])
                 /\ wpc'[v] \in Evaluating => wjob'[v] = EvaluateJob
                 /\ wpc'[v] \notin Evaluating \cup {"idle", "done"} => wjob'[v].name # "evaluate"
                 /\ wpc'[v] # "sending" => \A c \in Contacts : wtask'[v][c] \in {"none", "ok", "ko"}
      <4>1. CASE v = w
        BY <1>2, <2>2, <2>3, <2>4, <2>5, <4>1 DEF JobsFit
      <4>2. CASE v # w
        BY <1>1, <1>2, <2>4, <4>2 DEF JobsFit, Alone
      <4> QED BY <4>1, <4>2
    <3> QED BY <2>4, <3>1, <3>2 DEF JobsFit
  <2>7. NoJob # EvaluateJob
    BY DEF NoJob, EvaluateJob, Job
  <2>8. OneEvaluation'
    BY <1>1, <1>2, <2>1, <2>2, <2>3, <2>7 DEF OneEvaluation, Alone, Untold
  <2> QED BY <2>6, <2>8
<1>5. CASE ReadCampaign(w) \/ CountWhenEmpty(w) \/ MarkSentWhenEmpty(w) \/ CountRemaining(w)
           \/ MarkSent(w)
  <2>1. /\ wpc[w] \in Working \ {"sending"} /\ wpc'[w] \in (Working \cup {"done"}) \ {"sending"}
        /\ UNCHANGED <<wjob, abWinner, queue, wtask, wpick>>
    BY <1>t, <1>5 DEF ReadCampaign, CountWhenEmpty, MarkSentWhenEmpty, CountRemaining, MarkSent,
         SetStatusIfExists, SetStatus
  <2> QED BY <1>1, <1>2, <2>1, GoingOn DEF JobsFit
<1>6. CASE SelectSends(w)
  <2>1. /\ wpc[w] \in Working /\ wpc'[w] \in {"sending", "countEmpty"}
        /\ UNCHANGED <<wjob, abWinner, queue>>
        /\ wpc'[w] # "sending" => \A c \in Contacts : wtask'[w][c] = "none"
    BY <1>t, <1>6 DEF SelectSends
  <2> QED BY <1>1, <1>2, <2>1, GoingOn
<1>7. CASE UpdateCounters(w)
  <2>1. /\ wpc[w] \in Working /\ wpc'[w] = "count"
        /\ UNCHANGED <<wjob, abWinner, queue, wtask>>
    BY <1>t, <1>2, <1>7 DEF UpdateCounters
  <2>2. \A c \in Contacts : wtask[w][c] \in {"none", "ok", "ko"}
    BY <1>7 DEF UpdateCounters, AllSettled, ChunkOf, TasksIn
  <2> QED BY <1>1, <1>2, <2>1, <2>2, GoingOn
<1>8. CASE NextChunk(w)
  <2>1. /\ wpc[w] = "chain" /\ wpc'[w] = "done"
        /\ UNCHANGED <<wjob, abWinner, wtask, wpick>>
    BY <1>t, <1>8 DEF NextChunk
  <2> DEFINE next == Job("dispatch", wjob[w].variant, wjob[w].remaining, Max(ChunkOf(w)), "next")
  <2>2. Fits(next) /\ next # EvaluateJob
    BY <1>2, <1>e, <2>1 DEF JobsFit, Fits, Job
  <2>3. queue' = queue \/ queue' = queue \cup {Entry(next, 0)}
    BY <1>8 DEF NextChunk, Enqueue
  <2>4. Entry(next, 0).job = next
    BY DEF Entry
  <2> HIDE DEF next
  <2>5. \A e \in queue' : e \in queue \/ (Fits(e.job) /\ e.job # EvaluateJob)
    BY <2>2, <2>3, <2>4
  <2> QED BY <1>1, <1>2, <2>1, <2>5, GoingOn DEF JobsFit
<1>9. CASE EvaluateWinner(w)
  <2>1. /\ wpc[w] = "evaluate" /\ UNCHANGED <<wjob, abWinner, queue, wtask>>
        /\ \/ wpc'[w] = "setWinner" /\ abWinner = "NONE" /\ wpick'[w] \in Winners
           \/ wpc'[w] = "done"
    BY <1>t, <1>9 DEF EvaluateWinner, PossibleWinners, Winners
  <2> QED BY <1>1, <1>2, <2>1, GoingOn DEF JobsFit
<1>10. CASE SetWinner(w)
  <2>1. /\ wpc[w] = "setWinner" /\ wpc'[w] = "addWinner" /\ abWinner' = wpick[w]
        /\ UNCHANGED <<wjob, queue, wtask, wpick>>
    BY <1>t, <1>2, <1>10 DEF SetWinner
  <2>2. abWinner = "NONE" /\ wpick[w] \in Winners
    BY <1>2, <2>1 DEF OneEvaluation
  <2>3. \A j : Fits(j) => Fits(j)'
    BY <1>1, <2>2 DEF Fits, Untold, Winners
  <2>4. JobsFit'
    BY <1>1, <1>2, <1>t, <2>1, <2>3 DEF JobsFit, Alone
  <2>5. \A v \in Workers : v # w => wpc[v] \notin Evaluating
    BY <1>2, <2>1 DEF JobsFit, OneEvaluation
  <2>6. OneEvaluation'
    BY <1>1, <1>2, <2>1, <2>2, <2>5 DEF OneEvaluation, Alone, Untold
  <2> QED BY <2>4, <2>6
<1>11. CASE AddWinnerJob(w)
  <2>1. /\ wpc[w] = "addWinner" /\ wpc'[w] = "done"
        /\ UNCHANGED <<wjob, abWinner, wtask, wpick>>
    BY <1>t, <1>11 DEF AddWinnerJob
  <2> DEFINE next == WinnerJob(wpick[w], "winner")
  <2>2. wpick[w] = abWinner /\ abWinner \in Winners
    BY <1>2, <2>1 DEF OneEvaluation
  <2>3. isAB
    BY <1>2, <1>e, <2>1 DEF JobsFit, Fits
  <2>4. Fits(next) /\ next # EvaluateJob
    BY <2>2, <2>3 DEF Fits, WinnerJob, Job, EvaluateJob
  <2>5. queue' = queue \/ queue' = queue \cup {Entry(next, 0)}
    BY <1>11 DEF AddWinnerJob, Enqueue
  <2>6. Entry(next, 0).job = next
    BY DEF Entry
  <2> HIDE DEF next
  <2>7. \A e \in queue' : e \in queue \/ (Fits(e.job) /\ e.job # EvaluateJob)
    BY <2>4, <2>5, <2>6
  <2> QED BY <1>1, <1>2, <2>1, <2>7, GoingOn DEF JobsFit
<1>12. CASE CompleteJob(w)
  <2>1. /\ wpc[w] # "idle" /\ wpc'[w] = "idle" /\ wjob'[w] = NoJob /\ wtask'[w] = NoTasks
        /\ UNCHANGED <<queue, abWinner>>
    BY <1>t, <1>12 DEF CompleteJob, Release
  <2>2. Entry(wjob[w], 0).job = wjob[w]
    BY DEF Entry
  <2> QED BY <1>1, <1>2, <2>1, <2>2, LettingGo
<1>13. ASSUME NEW c \in Contacts, ContactStep(w, c)
       PROVE  JobsFit' /\ OneEvaluation'
  <2>1. wtask[w][c] \in {"todo", "accepted", "optedOut", "refused", "charging"}
    BY <1>13 DEF ContactStep, HandToProvider, WriteSent, WriteUnsubscribed, WriteBounced,
         CallbackWrite, ChargeSend, ChargeThrows
  <2>2. wpc[w] = "sending"
    BY <1>2, <2>1 DEF JobsFit
  <2>3. UNCHANGED <<wpc, wjob, abWinner, queue>>
    BY <1>13 DEF ContactStep, HandToProvider, WriteSent, WriteUnsubscribed, WriteBounced,
         CallbackWrite, ChargeSend, ChargeThrows
  <2> QED BY <1>1, <1>2, <2>2, <2>3, GoingOn
<1>14. CASE JobThrows(w)
  BY <1>3, <1>14 DEF JobThrows
<1>15. CASE WorkerDies(w)
  <2>1. /\ wpc[w] # "idle" /\ wpc'[w] = "idle" /\ wjob'[w] = NoJob /\ wtask'[w] = NoTasks
        /\ UNCHANGED abWinner
        /\ queue' = queue \/ queue' = queue \cup {Entry(wjob[w], 0)}
    BY <1>t, <1>15 DEF WorkerDies, Release
  <2>2. Entry(wjob[w], 0).job = wjob[w]
    BY DEF Entry
  <2> QED BY <1>1, <1>2, <2>1, <2>2, LettingGo
<1> QED BY <1>4, <1>5, <1>6, <1>7, <1>8, <1>9, <1>10, <1>11, <1>12, <1>13, <1>14, <1>15
        DEF WorkerStep, DispatchStep

-----------------------------------------------------------------------------
(* Workers and rows *)

(* A worker's step writes at most the row of one contact of its chunk: it gets
   an outcome, and the winner's variant or the one it was read with. *)
Resolved == {"SENT", "BOUNCED", "UNSUBSCRIBED"}
Writes(w, c) ==
  /\ wpc[w] = "sending" /\ wpc'[w] = "sending"
  /\ wtask[w][c] \in {"accepted", "optedOut", "refused"}
  /\ send[c] # "ABSENT" /\ send'[c] \in Resolved
  /\ variant'[c] = IF wjob[w].remaining THEN wjob[w].variant ELSE wseen[w][c]
  /\ UNCHANGED <<wjob, wseen>>

(* A step of a worker writes one row at most. *)
LEMMA RowsWritten ==
  ASSUME Struct, NEW w \in Workers, WorkerStep(w)
  PROVE  \/ UNCHANGED <<send, variant>>
         \/ \E c \in Contacts :
              /\ Writes(w, c)
              /\ \A d \in Contacts \ {c} : send'[d] = send[d] /\ variant'[d] = variant[d]
<1> USE DEF tables, sendRows, SetTask, Goto
<1>t. send \in [Contacts -> SendStatus \cup {"ABSENT"}] /\ variant \in [Contacts -> SendVariant]
  BY DEF Struct, TInv, TypeOK
<1>0. ASSUME FailJob(w) PROVE UNCHANGED <<send, variant>>
  BY <1>0 DEF FailJob
<1>1. ASSUME NEW c \in Contacts, ContactStep(w, c)
      PROVE  \/ UNCHANGED <<send, variant>>
             \/ /\ Writes(w, c)
                /\ \A d \in Contacts \ {c} : send'[d] = send[d] /\ variant'[d] = variant[d]
  <2>1. CASE HandToProvider(w, c) \/ ChargeSend(w, c) \/ ChargeThrows(w, c)
    BY <2>1 DEF HandToProvider, ChargeSend, ChargeThrows
  <2>2. ASSUME NEW from \in {"accepted", "optedOut", "refused"}, NEW st \in Resolved,
               NEW next, NEW onThrow, CallbackWrite(w, c, from, st, next, onThrow)
        PROVE  \/ UNCHANGED <<send, variant>>
               \/ /\ Writes(w, c)
                  /\ \A d \in Contacts \ {c} : send'[d] = send[d] /\ variant'[d] = variant[d]
    <3>1. wtask[w][c] = from /\ UNCHANGED <<wpc, wjob, wseen>>
      BY <2>2 DEF CallbackWrite
    <3>2. wpc[w] = "sending"
      BY <3>1 DEF Struct, JobsFit
    <3>3. CASE send[c] # "ABSENT" /\ WriteOutcome(w, c, st)
      <4>1. Writes(w, c)
        BY <1>t, <3>1, <3>2, <3>3 DEF Writes, WriteOutcome
      <4> QED BY <1>t, <3>3, <4>1 DEF WriteOutcome
    <3>4. CASE UNCHANGED sendRows
      BY <3>4
    <3> QED BY <2>2, <3>3, <3>4 DEF CallbackWrite
  <2>3. CASE WriteSent(w, c) \/ WriteUnsubscribed(w, c) \/ WriteBounced(w, c)
    BY <2>2, <2>3 DEF WriteSent, WriteUnsubscribed, WriteBounced, Resolved
  <2> QED BY <1>1, <2>1, <2>3 DEF ContactStep
<1>2. CASE TakeJob(w) \/ ReadCampaign(w) \/ SelectSends(w) \/ CountWhenEmpty(w) \/ MarkSentWhenEmpty(w)
           \/ CountRemaining(w) \/ MarkSent(w) \/ NextChunk(w) \/ EvaluateWinner(w)
           \/ AddWinnerJob(w) \/ CompleteJob(w) \/ WorkerDies(w)
  BY <1>2 DEF TakeJob, ReadCampaign, SelectSends, CountWhenEmpty, MarkSentWhenEmpty, CountRemaining,
       MarkSent, NextChunk, EvaluateWinner, AddWinnerJob, CompleteJob, WorkerDies
<1>3. CASE UpdateCounters(w) \/ SetWinner(w)
  BY <1>0, <1>3 DEF UpdateCounters, SetWinner
<1>4. CASE JobThrows(w)
  BY <1>0, <1>4 DEF JobThrows
<1> QED BY <1>1, <1>2, <1>3, <1>4 DEF WorkerStep, DispatchStep

(* No worker makes a row PENDING. *)
LEMMA PendingShrinks ==
  ASSUME Struct, NEW w \in Workers, WorkerStep(w)
  PROVE  Pending' \subseteq Pending
  BY RowsWritten DEF Pending, Writes, Resolved

(* SENT is written by a worker that found no PENDING row. *)
LEMMA WorkerKeepsDrained ==
  ASSUME Struct, NEW w \in Workers, WorkerStep(w)
  PROVE  Drained'
<1>1. Pending' \subseteq Pending /\ Alone(w) /\ Drained
  BY PendingShrinks, WorkerFrame DEF Struct
<1>t. DOMAIN wpc = Workers /\ wpc = [v \in Workers |-> wpc[v]]
  BY DEF Struct, TInv, TypeOK
<1>2. wpc'[w] \in {"markSent", "markSentEmpty"} => Pending = {} \/ wpc[w] \in {"markSent", "markSentEmpty"}
  <2>0. ASSUME FailJob(w) PROVE wpc'[w] = "idle"
    BY <1>t, <2>0 DEF FailJob, Release, Goto
  <2>1. CASE TakeJob(w) \/ ReadCampaign(w) \/ SelectSends(w) \/ CountWhenEmpty(w) \/ MarkSentWhenEmpty(w)
             \/ CountRemaining(w) \/ MarkSent(w) \/ NextChunk(w) \/ EvaluateWinner(w)
             \/ AddWinnerJob(w) \/ CompleteJob(w) \/ WorkerDies(w)
    BY <1>t, <2>1 DEF TakeJob, ReadCampaign, SelectSends, CountWhenEmpty, MarkSentWhenEmpty, CountRemaining,
         MarkSent, NextChunk, EvaluateWinner, AddWinnerJob, CompleteJob, WorkerDies, Release, Goto
  <2>2. CASE UpdateCounters(w) \/ SetWinner(w) \/ JobThrows(w)
    BY <1>t, <2>0, <2>2 DEF UpdateCounters, SetWinner, JobThrows, Goto
  <2>3. ASSUME NEW c \in Contacts, ContactStep(w, c) PROVE UNCHANGED wpc
    BY <2>3 DEF ContactStep, HandToProvider, WriteSent, WriteUnsubscribed, WriteBounced,
         CallbackWrite, ChargeSend, ChargeThrows
  <2> QED BY <2>1, <2>2, <2>3 DEF WorkerStep, DispatchStep
<1>3. status' # status => wpc[w] \in {"markSent", "markSentEmpty"}
  <2> USE DEF tables, campaignRow
  <2>0. ASSUME FailJob(w) PROVE UNCHANGED status
    BY <2>0 DEF FailJob
  <2>1. CASE TakeJob(w) \/ ReadCampaign(w) \/ SelectSends(w) \/ CountWhenEmpty(w) \/ MarkSentWhenEmpty(w)
             \/ CountRemaining(w) \/ MarkSent(w) \/ NextChunk(w) \/ EvaluateWinner(w)
             \/ AddWinnerJob(w) \/ CompleteJob(w) \/ WorkerDies(w)
    BY <2>1 DEF TakeJob, ReadCampaign, SelectSends, CountWhenEmpty, MarkSentWhenEmpty, CountRemaining,
         MarkSent, NextChunk, EvaluateWinner, AddWinnerJob, CompleteJob, WorkerDies
  <2>2. CASE UpdateCounters(w) \/ SetWinner(w) \/ JobThrows(w)
    BY <2>0, <2>2 DEF UpdateCounters, SetWinner, JobThrows
  <2>3. ASSUME NEW c \in Contacts, ContactStep(w, c) PROVE UNCHANGED status
    BY <2>3 DEF ContactStep, HandToProvider, WriteSent, WriteUnsubscribed, WriteBounced,
         CallbackWrite, ChargeSend, ChargeThrows
  <2> QED BY <2>1, <2>2, <2>3 DEF WorkerStep, DispatchStep
<1> QED BY <1>1, <1>2, <1>3 DEF Drained, SentMeansDrained, Alone

(* In an A/B campaign a worker sends a row of the sample with the variant the
   row has, and another with the winner. *)
LEMMA WorkerKeepsVariants ==
  ASSUME Struct, NEW w \in Workers, WorkerStep(w)
  PROVE  VariantsSeen'
<1>1. UNCHANGED Untold /\ Alone(w)
  BY WorkerFrame DEF Struct
<1>2. JobsFit /\ VariantsSeen
  BY DEF Struct
<1>t. /\ DOMAIN wpc = Workers /\ wpc = [v \in Workers |-> wpc[v]]
      /\ wtask \in [Workers -> [Contacts -> TaskState]]
      /\ wseen \in [Workers -> [Contacts -> SendVariant]]
  BY DEF Struct, TInv, TypeOK
<1>3. ASSUME isAB, NEW c \in Contacts, send'[c] = "SENT"
      PROVE  variant'[c] \in Winners
  <2>1. CASE UNCHANGED <<send, variant>>
    BY <1>2, <1>3, <2>1 DEF VariantsSeen
  <2>2. ASSUME NEW d \in Contacts, Writes(w, d),
               \A x \in Contacts \ {d} : send'[x] = send[x] /\ variant'[x] = variant[x]
        PROVE  variant'[c] \in Winners
    <3>1. CASE c # d
      BY <1>2, <1>3, <2>2, <3>1 DEF VariantsSeen
    <3>2. CASE c = d
      <4>1. Fits(wjob[w]) /\ wjob[w].name # "evaluate"
        BY <1>2, <2>2 DEF JobsFit, Writes, Evaluating
      <4>2. wjob[w].variant \in Winners
        BY <1>3, <4>1 DEF Fits, EvaluateJob, Job
      <4>3. ~wjob[w].remaining => wseen[w][d] \in Winners
        BY <1>2, <1>3, <2>2 DEF VariantsSeen, Writes
      <4> QED BY <2>2, <3>2, <4>2, <4>3 DEF Writes
    <3> QED BY <3>1, <3>2
  <2> QED BY <2>1, <2>2, RowsWritten
<1>4. ASSUME isAB, NEW c \in Contacts, wpc'[w] = "sending", wtask'[w][c] # "none", ~wjob'[w].remaining
      PROVE  wseen'[w][c] \in Winners
  <2>0. ASSUME FailJob(w) PROVE wpc'[w] = "idle"
    BY <1>t, <2>0 DEF FailJob, Release, Goto
  <2>1. CASE SelectSends(w)
    <3>1. wpc[w] = "select" /\ UNCHANGED wjob
      BY <2>1 DEF SelectSends
    <3>2. c \in Chunk(wjob[w]) /\ wseen'[w][c] = variant[c]
      BY <1>4, <1>t, <2>1 DEF SelectSends
    <3>3. c \in Matches(wjob[w])
      BY <3>2 DEF Chunk, Selectable
    <3>4. Fits(wjob[w]) /\ wjob[w].name # "evaluate"
      BY <1>2, <3>1 DEF JobsFit, Evaluating
    <3>5. wjob[w].variant \in Winners
      BY <1>4, <3>4 DEF Fits, EvaluateJob, Job
    <3> QED BY <1>4, <3>1, <3>2, <3>3, <3>5 DEF Matches, Winners
  <2>2. ASSUME NEW d \in Contacts, ContactStep(w, d) PROVE wseen'[w][c] \in Winners
    <3>1. UNCHANGED <<wpc, wjob, wseen>> /\ wtask[w][d] # "none"
      BY <2>2 DEF ContactStep, HandToProvider, WriteSent, WriteUnsubscribed, WriteBounced,
           CallbackWrite, ChargeSend, ChargeThrows
    <3>2. wtask'[w][c] = wtask[w][c] \/ c = d
      BY <1>t, <2>2 DEF ContactStep, HandToProvider, WriteSent, WriteUnsubscribed, WriteBounced,
           CallbackWrite, ChargeSend, ChargeThrows, SetTask
    <3> QED BY <1>2, <1>4, <3>1, <3>2 DEF VariantsSeen
  <2>3. CASE TakeJob(w) \/ ReadCampaign(w) \/ CountWhenEmpty(w) \/ MarkSentWhenEmpty(w)
             \/ CountRemaining(w) \/ MarkSent(w) \/ NextChunk(w) \/ EvaluateWinner(w)
             \/ AddWinnerJob(w) \/ CompleteJob(w) \/ WorkerDies(w)
    BY <1>4, <1>t, <2>3 DEF TakeJob, ReadCampaign, CountWhenEmpty, MarkSentWhenEmpty, CountRemaining,
         MarkSent, NextChunk, EvaluateWinner, AddWinnerJob, CompleteJob, WorkerDies, Release, Goto
  <2>4. CASE UpdateCounters(w) \/ SetWinner(w) \/ JobThrows(w)
    BY <1>4, <1>t, <2>0, <2>4 DEF UpdateCounters, SetWinner, JobThrows, Goto
  <2> QED BY <2>1, <2>2, <2>3, <2>4 DEF WorkerStep, DispatchStep
<1> QED BY <1>1, <1>2, <1>3, <1>4 DEF VariantsSeen, Alone, Untold

-----------------------------------------------------------------------------
(* The request and its jobs *)

(* Putting two sequences of known elements together. *)
LEMMA Pairs ==
  ASSUME NEW T, NEW a \in T, NEW e \in T
  PROVE  <<a>> \o <<e>> = <<a, e>>
<1>1. <<a>> \in Seq(T) /\ <<e>> \in Seq(T) /\ <<a, e>> \in Seq(T)
  OBVIOUS
<1>2. Len(<<a>>) = 1 /\ Len(<<e>>) = 1 /\ Len(<<a, e>>) = 2
  OBVIOUS
<1> DEFINE c == <<a>> \o <<e>>
<1>3. /\ c \in Seq(T) /\ Len(c) = 2
      /\ \A i \in 1..2 : c[i] = IF i <= 1 THEN <<a>>[i] ELSE <<e>>[i - 1]
  BY <1>1, <1>2, ConcatProperties
<1> HIDE DEF c
<1>4. <<a>>[1] = a /\ <<e>>[1] = e /\ <<a, e>>[1] = a /\ <<a, e>>[2] = e
  OBVIOUS
<1>5. \A i \in 1..2 : i = 1 \/ i = 2
  OBVIOUS
<1>6. \A i \in 1..2 : c[i] = <<a, e>>[i]
  <2>1. c[1] = a
    BY <1>3, <1>4
  <2>2. c[2] = e
    BY <1>3, <1>4
  <2> QED BY <1>4, <1>5, <2>1, <2>2
<1>7. c = <<a, e>>
  BY <1>1, <1>2, <1>3, <1>6, SeqEqual
<1> QED BY <1>7 DEF c

(* The same for three. *)
LEMMA Triples ==
  ASSUME NEW T, NEW a \in T, NEW b \in T, NEW e \in T
  PROVE  <<a, b>> \o <<e>> = <<a, b, e>>
<1>1. <<a, b>> \in Seq(T) /\ <<e>> \in Seq(T) /\ <<a, b, e>> \in Seq(T)
  OBVIOUS
<1>2. Len(<<a, b>>) = 2 /\ Len(<<e>>) = 1 /\ Len(<<a, b, e>>) = 3
  OBVIOUS
<1> DEFINE c == <<a, b>> \o <<e>>
<1>3. /\ c \in Seq(T) /\ Len(c) = 3
      /\ \A i \in 1..3 : c[i] = IF i <= 2 THEN <<a, b>>[i] ELSE <<e>>[i - 2]
  BY <1>1, <1>2, ConcatProperties
<1> HIDE DEF c
<1>4. /\ <<a, b>>[1] = a /\ <<a, b>>[2] = b /\ <<e>>[1] = e
      /\ <<a, b, e>>[1] = a /\ <<a, b, e>>[2] = b /\ <<a, b, e>>[3] = e
  OBVIOUS
<1>5. \A i \in 1..3 : i = 1 \/ i = 2 \/ i = 3
  OBVIOUS
<1>6. \A i \in 1..3 : c[i] = <<a, b, e>>[i]
  <2>1. c[1] = a /\ c[2] = b
    BY <1>3, <1>4
  <2>2. c[3] = e
    BY <1>3, <1>4
  <2> QED BY <1>4, <1>5, <2>1, <2>2
<1>7. c = <<a, b, e>>
  BY <1>1, <1>2, <1>3, <1>6, SeqEqual
<1> QED BY <1>7 DEF c

(* What an A/B campaign starts with, job by job. *)
LEMMA FirstJobsRemain ==
  ASSUME NEW q, q.when = Never
  PROVE  FirstJobs(q) \in Remaining
<1> DEFINE n == Cardinality(q.who)
           one(v) == IF v \in (IF SplitA(n) > 0 THEN {"A"} ELSE {}) \cup {"B"}
                       THEN <<Add(SampleJob(v, "initial"), 0)>> ELSE <<>>
           T == {AddSampleA, AddSampleB, AddEvaluate}
<1>1. CASE isAB
  <2>1. FirstJobs(q) = one("A") \o one("B") \o <<AddEvaluate>>
    BY <1>1 DEF FirstJobs, StartAB, AddEvaluate
  <2>2. one("A") \in {<<AddSampleA>>, <<>>} /\ one("B") = <<AddSampleB>>
    BY DEF AddSampleA, AddSampleB
  <2> HIDE DEF one
  <2>3. <<AddSampleA>> \o <<AddSampleB>> \o <<AddEvaluate>> = <<AddSampleA, AddSampleB, AddEvaluate>>
    <3>1. <<AddSampleA>> \o <<AddSampleB>> = <<AddSampleA, AddSampleB>>
      BY Pairs, AddSampleA \in T, AddSampleB \in T
    <3>2. <<AddSampleA, AddSampleB>> \o <<AddEvaluate>> = <<AddSampleA, AddSampleB, AddEvaluate>>
      BY Triples, AddSampleA \in T, AddSampleB \in T, AddEvaluate \in T
    <3> QED BY <3>1, <3>2
  <2>4. <<>> \o <<AddSampleB>> \o <<AddEvaluate>> = <<AddSampleB, AddEvaluate>>
    <3>1. <<>> \o <<AddSampleB>> = <<AddSampleB>>
      BY ConcatEmptySeq, <<AddSampleB>> \in Seq(T)
    <3>2. <<AddSampleB>> \o <<AddEvaluate>> = <<AddSampleB, AddEvaluate>>
      BY Pairs, AddSampleB \in T, AddEvaluate \in T
    <3> QED BY <3>1, <3>2
  <2> QED BY <1>1, <2>1, <2>2, <2>3, <2>4 DEF Remaining
<1>2. CASE ~isAB
  BY <1>2 DEF FirstJobs, Remaining, AddAll
<1> QED BY <1>1, <1>2

(* The job added next, and what is left then. *)
LEMMA NextOfRemaining ==
  ASSUME NEW s \in Remaining
  PROVE  \/ ~isAB /\ Len(s) = 1 /\ Head(s) = AddAll
         \/ isAB /\ s = <<AddEvaluate>> /\ Len(s) = 1 /\ Head(s) = AddEvaluate
         \/ isAB /\ Len(s) = 2 /\ Head(s) = AddSampleB /\ Tail(s) = <<AddEvaluate>>
         \/ isAB /\ Len(s) = 3 /\ Head(s) = AddSampleA /\ Tail(s) = <<AddSampleB, AddEvaluate>>
<1>1. CASE s = <<AddAll>> /\ ~isAB
  BY <1>1
<1>2. CASE s = <<AddEvaluate>> /\ isAB
  BY <1>2
<1>3. CASE s = <<AddSampleB, AddEvaluate>> /\ isAB
  BY <1>3
<1>4. CASE s = <<AddSampleA, AddSampleB, AddEvaluate>> /\ isAB
  BY <1>4
<1> QED BY <1>1, <1>2, <1>3, <1>4 DEF Remaining

(* What a request's step leaves alone: everything of the workers and of the
   schedule, and what was sent. *)
Unworked == <<isAB, sched, tpc, cpc, wpc, wjob, wtask, wseen, wpick, handed, charged>>

(* The request starts once, creates the sends, sets the campaign SENDING and
   adds its jobs; none of it disturbs a worker. *)
LEMMA RequestKeepsStruct ==
  ASSUME OneSend, Struct, NEW r \in Clients, SendingStep(r)
  PROVE  /\ AtOnce' /\ OneRequest' /\ JobsFit' /\ OneEvaluation' /\ VariantsSeen' /\ Drained'
         /\ UNCHANGED Unworked
<1> USE DEF tables, campaignRow, sendRows, dispatchQueue, workerVars, triggerVars, requestVars,
            history, bounds, outside, keepTables, keepQueues, Unworked
<1>1. AtOnce /\ OneRequest /\ JobsFit /\ OneEvaluation /\ VariantsSeen /\ Drained /\ Exists
  BY DEF Struct, AtOnce, Exists
<1>t. /\ DOMAIN rpc = Clients /\ rpc = [s \in Clients |-> rpc[s]]
      /\ DOMAIN req = Clients /\ req = [s \in Clients |-> req[s]] /\ req[r] \in Request
      /\ requests \in Nat
  BY DEF Struct, TInv, TypeOK
<1>n. NoReq.when = Never /\ NoReq.who = {}
  BY DEF NoReq
<1>f. ASSUME UNCHANGED <<isAB, abWinner>> PROVE \A j : Fits(j)' <=> Fits(j)
  BY <1>f DEF Fits
<1>2. ASSUME UNCHANGED Unworked, UNCHANGED <<abWinner, queue, send, variant, status, scheduledAt>>
      PROVE  /\ AtOnce' /\ JobsFit' /\ VariantsSeen' /\ Drained'
             /\ (\A s \in Clients : rpc'[s] = "enqueue" => rpc[s] = "enqueue") => OneEvaluation'
             /\ Untouched => Untouched'
             /\ NoRows => NoRows'
  <2>1. AtOnce'
    BY <1>1, <1>2 DEF AtOnce
  <2>2. JobsFit'
    BY <1>1, <1>2, <1>f DEF JobsFit
  <2>3. VariantsSeen' /\ Drained'
    BY <1>1, <1>2 DEF VariantsSeen, Drained, SentMeansDrained, Pending
  <2>4. (\A s \in Clients : rpc'[s] = "enqueue" => rpc[s] = "enqueue") => OneEvaluation'
    BY <1>1, <1>2 DEF OneEvaluation
  <2> QED BY <1>2, <2>1, <2>2, <2>3, <2>4 DEF Untouched, NoRows
<1>3. CASE SendStart(r)
  <2>1. PICK when \in Dates \cup {Never}, who \in SUBSET Contacts :
          who # {} /\ Begin(r, "createSends", [NoReq EXCEPT !.when = when, !.who = who])
    <3>1. PICK segment \in Segments, when \in Dates \cup {Never}, static \in BOOLEAN :
            LET contacts == {c \in segment : ~(static /\ optOut[c])}
                who == IF Channel = "SMS" THEN contacts \cap Reachable ELSE contacts
            IN  who # {} /\ Begin(r, "createSends", [NoReq EXCEPT !.when = when, !.who = who])
      BY <1>3 DEF SendStart
    <3> DEFINE contacts == {c \in segment : ~(static /\ optOut[c])}
               who == IF Channel = "SMS" THEN contacts \cap Reachable ELSE contacts
    <3>2. who \in SUBSET Contacts
      BY SegmentsAssumption
    <3> QED BY <3>1, <3>2
  <2>2. when = Never
    BY DEF OneSend
  <2> DEFINE q == [NoReq EXCEPT !.when = when, !.who = who]
  <2>3. q.when = Never /\ q.who = who
    BY <2>2 DEF NoReq
  <2>4. /\ requests = 0 /\ requests' = 1 /\ rpc' = [rpc EXCEPT ![r] = "createSends"]
        /\ req' = [req EXCEPT ![r] = q]
        /\ UNCHANGED Unworked /\ UNCHANGED <<abWinner, queue, send, variant, status, scheduledAt>>
    <3>1. /\ requests < MaxRequests /\ requests' = requests + 1
          /\ rpc' = [rpc EXCEPT ![r] = "createSends"] /\ req' = [req EXCEPT ![r] = q]
          /\ UNCHANGED Unworked /\ UNCHANGED <<abWinner, queue, send, variant, status, scheduledAt>>
      BY <2>1 DEF Begin
    <3>2. requests = 0
      BY <1>1, <3>1, SizesAssumption DEF OneRequest, OneSend
    <3> QED BY <3>1, <3>2
  <2> HIDE DEF q
  <2>5. Untouched /\ NoRows /\ \A s \in Clients : rpc[s] = "idle"
    BY <1>1, <2>4 DEF OneRequest
  <2>6. Untouched' /\ NoRows'
    BY <1>2, <2>4, <2>5
  <2>7. /\ rpc'[r] = "createSends" /\ req'[r].when = Never /\ req'[r].who # {}
        /\ \A s \in Clients : s # r => rpc'[s] = "idle"
    BY <1>t, <2>1, <2>2, <2>3, <2>4, <2>5
  <2>8. OneRequest'
    BY <2>4, <2>6, <2>7 DEF OneRequest
  <2> QED BY <1>t, <1>2, <2>4, <2>8
<1>4. CASE CreateSends(r)
  <2>1. rpc[r] = "createSends" /\ UNCHANGED Unworked /\ UNCHANGED <<requests, abWinner, queue, status, scheduledAt>>
    BY <1>4 DEF CreateSends
  <2>2. Untouched /\ NoRows /\ requests # 0
    BY <1>1, <2>1 DEF OneRequest
  <2>3. \/ Return(r) /\ UNCHANGED sendRows
        \/ Continue(r, "setSending") /\ \A c \in Contacts : send'[c] \in {"PENDING", "ABSENT"}
    BY <1>4, <2>2 DEF CreateSends, NoRows
  <2>4. \A s \in Clients : s # r => rpc[s] = "idle" /\ rpc'[s] = "idle"
    BY <1>1, <1>t, <2>1, <2>3 DEF OneRequest, Return, Continue
  <2>5. Untouched'
    BY <2>1, <2>2 DEF Untouched
  <2>6. AtOnce' /\ JobsFit'
    BY <1>1, <1>f, <2>1 DEF AtOnce, JobsFit
  <2>7. VariantsSeen' /\ Drained'
    BY <1>1, <2>1, <2>2, <2>3 DEF VariantsSeen, Drained, SentMeansDrained, Untouched, NoRows
  <2>8. OneEvaluation'
    BY <1>1, <1>t, <2>1, <2>3, <2>4 DEF OneEvaluation, Return, Continue
  <2>9. OneRequest'
    BY <1>1, <1>t, <2>1, <2>2, <2>3, <2>4, <2>5 DEF OneRequest, Return, Continue
  <2> QED BY <2>1, <2>6, <2>7, <2>8, <2>9
<1>5. CASE SetSending(r)
  <2>1. /\ rpc[r] = "setSending" /\ req[r].when = Never
        /\ UNCHANGED Unworked /\ UNCHANGED <<requests, queue, send, variant>>
    BY <1>1, <1>5 DEF SetSending, OneRequest
  <2>2. /\ status' = "SENDING" /\ scheduledAt' = Never /\ abWinner' = "NONE"
        /\ rpc' = [rpc EXCEPT ![r] = "enqueue"]
        /\ req' = [req EXCEPT ![r].adds = FirstJobs(req[r])]
    BY <1>1, <1>5, <2>1 DEF SetSending
  <2>3. Untouched /\ requests # 0 /\ abWinner = "NONE"
    BY <1>1, <2>1 DEF OneRequest, Untouched
  <2>4. req'[r].adds \in Remaining' /\ req'[r].when = Never
    <3>1. FirstJobs(req[r]) \in Remaining
      BY <2>1, FirstJobsRemain
    <3>2. req'[r].adds = FirstJobs(req[r]) /\ req'[r].when = req[r].when
      BY <1>t, <2>2 DEF Request
    <3> QED BY <2>1, <3>1, <3>2 DEF Remaining
  <2>5. \A s \in Clients : s # r => rpc[s] = "idle" /\ rpc'[s] = "idle"
    BY <1>1, <1>t, <2>1, <2>2 DEF OneRequest
  <2>6. AtOnce' /\ JobsFit'
    BY <1>1, <1>f, <2>1, <2>2, <2>3 DEF AtOnce, JobsFit
  <2>7. VariantsSeen' /\ Drained'
    BY <1>1, <2>1, <2>2, <2>3 DEF VariantsSeen, Drained, SentMeansDrained, Untouched
  <2>8. NoJob # EvaluateJob
    BY DEF NoJob, EvaluateJob, Job
  <2>9. OneEvaluation'
    BY <1>1, <2>1, <2>2, <2>3, <2>8 DEF OneEvaluation, JobsFit, Untouched
  <2>10. OneRequest'
    BY <1>1, <1>t, <2>1, <2>2, <2>3, <2>4, <2>5 DEF OneRequest
  <2> QED BY <2>1, <2>6, <2>7, <2>9, <2>10
<1>6. CASE EnqueueFirst(r)
  <2> DEFINE adds == req[r].adds
             e == Entry(Head(adds).job, Head(adds).delay)
  <2>1. /\ rpc[r] = "enqueue" /\ adds \in Remaining
        /\ UNCHANGED Unworked
        /\ UNCHANGED <<requests, abWinner, send, variant, status, scheduledAt>>
    BY <1>1, <1>6 DEF EnqueueFirst, OneRequest
  <2>2. queue' = queue \/ queue' = queue \cup {e}
    BY <1>6 DEF EnqueueFirst, Enqueue
  <2>3. e.job = Head(adds).job
    BY DEF Entry
  <2>4. requests # 0 /\ \A s \in Clients : s # r => rpc[s] = "idle"
    BY <1>1, <2>1 DEF OneRequest
  <2>5. \/ /\ Len(adds) = 1 /\ rpc' = [rpc EXCEPT ![r] = "idle"] /\ req' = [req EXCEPT ![r] = NoReq]
        \/ /\ Len(adds) # 1 /\ req' = [req EXCEPT ![r].adds = Tail(@)] /\ UNCHANGED rpc
    BY <1>6 DEF EnqueueFirst, Return
  <2>6. Len(adds) # 1 => req'[r].adds = Tail(adds) /\ req'[r].when = Never
    BY <1>1, <1>t, <2>1, <2>5 DEF OneRequest, Request
  <2>7. \/ ~isAB /\ Len(adds) = 1 /\ Head(adds) = AddAll
        \/ isAB /\ adds = <<AddEvaluate>> /\ Len(adds) = 1 /\ Head(adds) = AddEvaluate
        \/ isAB /\ Len(adds) = 2 /\ Head(adds) = AddSampleB /\ Tail(adds) = <<AddEvaluate>>
        \/ isAB /\ Len(adds) = 3 /\ Head(adds) = AddSampleA /\ Tail(adds) = <<AddSampleB, AddEvaluate>>
    BY <2>1, NextOfRemaining
  <2>8. Fits(e.job) /\ (isAB /\ Len(adds) # 1 => e.job # EvaluateJob)
    <3>1. AddEvaluate.job = EvaluateJob
      BY DEF AddEvaluate, Add
    <3>2. ~isAB => Fits(AddAll.job)
      BY DEF Fits, AddAll, Add, PlainJob, Job
    <3>3. isAB => \A a \in {AddSampleA, AddSampleB} : Fits(a.job) /\ a.job # EvaluateJob
      BY DEF Fits, AddSampleA, AddSampleB, Add, SampleJob, EvaluateJob, Job, Winners
    <3>4. isAB => Fits(EvaluateJob)
      BY DEF Fits
    <3> HIDE DEF e, adds
    <3> QED BY <2>3, <2>7, <3>1, <3>2, <3>3, <3>4
  <2> HIDE DEF e, adds
  <2>9. AtOnce' /\ VariantsSeen' /\ Drained'
    BY <1>1, <2>1 DEF AtOnce, VariantsSeen, Drained, SentMeansDrained, Pending
  <2>10. JobsFit'
    BY <1>1, <1>f, <2>1, <2>2, <2>8 DEF JobsFit
  <2>11. OneRequest'
    <3>1. CASE Len(adds) = 1
      BY <1>1, <1>t, <1>n, <2>1, <2>4, <2>5, <3>1 DEF OneRequest
    <3>2. CASE Len(adds) # 1
      <4>1. req'[r].adds \in Remaining'
        BY <2>1, <2>6, <2>7, <3>2 DEF Remaining
      <4> QED BY <1>1, <1>t, <2>1, <2>4, <2>5, <2>6, <3>2, <4>1 DEF OneRequest
    <3> QED BY <3>1, <3>2
  <2>12. OneEvaluation'
    <3>0. \A s \in Clients : rpc'[s] = "enqueue" => s = r /\ Len(adds) # 1
      BY <1>t, <2>4, <2>5
    <3>1. CASE ~isAB
      <4>1. e.job # EvaluateJob
        BY <3>1, <2>8 DEF Fits, EvaluateJob, Job
      <4> QED BY <1>1, <2>1, <2>2, <3>1, <4>1 DEF OneEvaluation
    <3>2. CASE isAB
      <4>1. /\ \A w \in Workers : wjob[w] # EvaluateJob
            /\ \A f \in queue : f.job # EvaluateJob
        BY <1>1, <2>1, <3>2 DEF OneEvaluation
      <4> QED BY <1>1, <2>1, <2>2, <2>8, <3>0, <3>2, <4>1 DEF OneEvaluation
    <3> QED BY <3>1, <3>2
  <2> QED BY <2>1, <2>9, <2>10, <2>11, <2>12
<1>7. CASE RequestFails(r)
  <2>1. /\ rpc[r] # "idle" /\ UNCHANGED Unworked /\ Return(r)
        /\ UNCHANGED <<requests, abWinner, queue, send, variant, status, scheduledAt>>
    BY <1>7 DEF RequestFails, Fault
  <2>2. requests # 0
    BY <1>1, <2>1 DEF OneRequest
  <2>3. OneRequest'
    BY <1>1, <1>t, <2>1, <2>2 DEF OneRequest, Return
  <2> QED BY <1>t, <1>2, <2>1, <2>3 DEF Return
<1> QED BY <1>3, <1>4, <1>5, <1>6, <1>7 DEF SendingStep

(* Opt-outs, other spending and time disturb none of it. *)
LEMMA OtherKeepsStruct ==
  ASSUME Struct, OtherStep
  PROVE  /\ AtOnce' /\ OneRequest' /\ JobsFit' /\ OneEvaluation' /\ VariantsSeen' /\ Drained'
         /\ UNCHANGED Unworked /\ UNCHANGED <<abWinner, queue, send, variant, rpc, req, bounds>>
<1>1. /\ UNCHANGED Unworked
      /\ UNCHANGED <<abWinner, queue, send, variant, rpc, req, bounds, requests, status, scheduledAt>>
  BY DEF OtherStep, OptOut, SpendElsewhere, Tick, vars, tables, campaignRow, sendRows, dispatchQueue,
     workerVars, triggerVars, requestVars, history, bounds, Unworked
<1> USE DEF Unworked
<1>2. AtOnce' /\ JobsFit' /\ OneEvaluation'
  BY <1>1 DEF Struct, AtOnce, JobsFit, Fits, OneEvaluation
<1>3. VariantsSeen' /\ Drained'
  BY <1>1 DEF Struct, VariantsSeen, Drained, SentMeansDrained, Pending
<1>4. OneRequest'
  BY <1>1 DEF Struct, OneRequest, Untouched, NoRows, Remaining
<1> QED BY <1>1, <1>2, <1>3, <1>4

-----------------------------------------------------------------------------
(* What holds so far *)

(* Before the request. *)
LEMMA InitStruct ==
  ASSUME OneSend, Init
  PROVE  Struct
<1>1. TInv
  BY InitTInv
<1>2. AtOnce /\ status = "DRAFT"
  BY DEF Init, Created, AtOnce, OneSend
<1>3. Untouched /\ NoRows
  BY <1>2 DEF Init, Untouched, NoRows
<1>4. OneRequest
  BY <1>3 DEF Init, OneRequest
<1>5. JobsFit
  BY DEF Init, JobsFit, Evaluating, NoTasks
<1>6. NoJob # EvaluateJob
  BY DEF NoJob, EvaluateJob, Job
<1>7. OneEvaluation
  BY <1>6 DEF Init, OneEvaluation
<1>8. VariantsSeen /\ Drained
  BY <1>2 DEF Init, VariantsSeen, Drained, SentMeansDrained
<1> QED BY <1>1, <1>2, <1>4, <1>5, <1>7, <1>8 DEF Struct

(* Every step. *)
LEMMA NextStruct ==
  ASSUME OneSend, Struct, [Next]_vars
  PROVE  Struct'
<1>1. TInv'
  BY NextTInv DEF Struct
<1>2. \/ \E w \in Workers : WorkerStep(w)
      \/ \E r \in Clients : SendingStep(r)
      \/ OtherStep
  BY PossibleSteps DEF Struct
<1>3. ASSUME NEW w \in Workers, WorkerStep(w) PROVE Struct'
  <2>1. AtOnce' /\ OneRequest'
    BY <1>3, WorkerKeepsRequest DEF Struct
  <2> QED BY <1>1, <1>3, <2>1, WorkerKeepsJobs, WorkerKeepsVariants, WorkerKeepsDrained DEF Struct
<1>4. ASSUME NEW r \in Clients, SendingStep(r) PROVE Struct'
  BY <1>1, <1>4, RequestKeepsStruct DEF Struct
<1>5. CASE OtherStep
  BY <1>1, <1>5, OtherKeepsStruct DEF Struct
<1> QED BY <1>2, <1>3, <1>4, <1>5

(* The structural invariant holds in every behaviour. *)
LEMMA StructHolds ==
  ASSUME OneSend
  PROVE  Spec => []Struct
<1>1. Init => Struct
  BY InitStruct
<1>2. Struct /\ [Next]_vars => Struct'
  BY NextStruct
<1> QED BY <1>1, <1>2, PTL DEF Spec

(* A campaign that one request sends is shown as SENT only when none of its
   sends is left to do, whatever throws and whoever dies. *)
THEOREM SentStaysDrained ==
  ASSUME OneSend
  PROVE  Spec => []SentMeansDrained
<1>1. Struct => SentMeansDrained
  BY DEF Struct, Drained
<1> QED BY <1>1, StructHolds, PTL

(* In an A/B campaign that one request sends, everybody who was written to got
   one of the two variants, and who is not in the sample the winner: it is
   chosen once, even when the evaluation is run again after its worker died. *)
THEOREM RemainderKeepsWinner ==
  ASSUME OneSend
  PROVE  Spec => []RemainderGetsWinner
<1>1. Struct => RemainderGetsWinner
  <2> SUFFICES ASSUME Struct, isAB, NEW w \in Workers, wjob[w].remaining
               PROVE  wjob[w].variant = abWinner
    BY DEF Struct, VariantsSeen, RemainderGetsWinner
  <2>1. wpc[w] # "idle"
    BY DEF Struct, JobsFit, NoJob, Job
  <2>2. Fits(wjob[w])
    BY <2>1 DEF Struct, JobsFit
  <2> QED BY <2>2 DEF Fits, EvaluateJob, Job
<1> QED BY <1>1, StructHolds, PTL

-----------------------------------------------------------------------------
(* Counting claims *)

(* Dropping claims, and how many there are. *)
LEMMA ClaimsDropped ==
  ASSUME NEW A, IsFiniteSet(A), NEW B, B \subseteq A
  PROVE  IsFiniteSet(B) /\ Cardinality(B) \in Nat /\ Cardinality(B) <= Cardinality(A)
  BY FS_Subset, FS_CardinalityType

(* Using one up. *)
LEMMA ClaimUsed ==
  ASSUME NEW A, IsFiniteSet(A), NEW t \in A, NEW B, B \subseteq A \ {t}
  PROVE  IsFiniteSet(B) /\ Cardinality(B) \in Nat /\ Cardinality(B) <= Cardinality(A) - 1
<1>1. IsFiniteSet(A \ {t}) /\ Cardinality(A \ {t}) = Cardinality(A) - 1
  BY FS_RemoveElement
<1> QED BY <1>1, FS_Subset, FS_CardinalityType

(* Making one. *)
LEMMA ClaimMade ==
  ASSUME NEW A, IsFiniteSet(A), NEW u, NEW B, B \subseteq A \cup {u}
  PROVE  IsFiniteSet(B) /\ Cardinality(B) \in Nat /\ Cardinality(B) <= Cardinality(A) + 1
<1>1. IsFiniteSet(A \cup {u}) /\ Cardinality(A) \in Nat
  BY FS_AddElement, FS_CardinalityType
<1>2. Cardinality(A \cup {u}) <= Cardinality(A) + 1
  BY <1>1, FS_AddElement
<1>3. Cardinality(A \cup {u}) \in Nat /\ IsFiniteSet(B) /\ Cardinality(B) \in Nat
      /\ Cardinality(B) <= Cardinality(A \cup {u})
  BY <1>1, FS_Subset, FS_CardinalityType
<1> QED BY <1>1, <1>2, <1>3

(* Handing one on. *)
LEMMA ClaimHandedOn ==
  ASSUME NEW A, IsFiniteSet(A), NEW t \in A, NEW u, NEW B, B \subseteq (A \ {t}) \cup {u}
  PROVE  IsFiniteSet(B) /\ Cardinality(B) \in Nat /\ Cardinality(B) <= Cardinality(A)
<1>1. IsFiniteSet(A \ {t}) /\ Cardinality(A \ {t}) <= Cardinality(A) - 1
      /\ Cardinality(A \ {t}) \in Nat
  BY ClaimUsed
<1>2. IsFiniteSet(B) /\ Cardinality(B) \in Nat /\ Cardinality(B) <= Cardinality(A \ {t}) + 1
  BY <1>1, ClaimMade
<1> QED BY <1>1, <1>2, FS_CardinalityType

(* Who is a claimant. *)
LEMMA ClaimantsAre ==
  ASSUME NEW c, NEW S
  PROVE  \A x : x \in Claimants(c, S) <=>
           \/ \E e \in queue : x = Queued(e) /\ Claims(e.job, c)
           \/ \E w \in Workers : x = Run(w) /\ WorkerClaims(w, c, S)
           \/ x = Adding /\ ToAdd(c)
  BY DEF Claimants

(* A queued job, a worker and the request are different claimants. *)
LEMMA ClaimantsDiffer ==
  /\ \A e, f : Queued(e) = Queued(f) => e = f
  /\ \A w, v : Run(w) = Run(v) => w = v
  /\ \A e, w : Queued(e) # Run(w)
  /\ \A e : Queued(e) # Adding
  /\ \A w : Run(w) # Adding
  BY DEF Queued, Run, Adding

(* A claim moves from t to u, or none does. *)
LEMMA ClaimsMove ==
  ASSUME NEW A, IsFiniteSet(A), NEW t, NEW u, NEW B, B \subseteq (A \ {t}) \cup {u},
         u \in B => t \in A
  PROVE  IsFiniteSet(B) /\ Cardinality(B) \in Nat /\ Cardinality(B) <= Cardinality(A)
<1>1. CASE t \in A
  BY <1>1, ClaimHandedOn
<1>2. CASE t \notin A
  <2>1. B \subseteq A
    BY <1>2
  <2> QED BY <2>1, ClaimsDropped
<1> QED BY <1>1, <1>2

-----------------------------------------------------------------------------
(* Workers and claims *)

(* A chunk is made of rows its job claims, and the rows after it are claimed
   too: the row skipped is at the cursor, or after it and lost to this job. *)
LEMMA ChunkIsClaimed ==
  ASSUME NEW j \in DispatchJob, j.name # "evaluate", NEW c \in Contacts, NEW d \in Chunk(j)
  PROVE  d \in Contacts /\ Claims(j, d) /\ (Asks(j, c) /\ d < c => Claims(j, c))
<1> DEFINE from == {x \in Matches(j) : x >= j.cursor}
<1>1. d \in from /\ (j.cursor # 0 => d # Min(from))
  BY DEF Chunk, Selectable
<1>2. from \subseteq Contacts /\ j.cursor \in Nat /\ \A x \in Contacts : x \in Nat
  <2>1. from \subseteq Contacts
    BY DEF Matches, Pending
  <2>2. \A x \in Contacts : x \in Nat
    BY ContactsAssumption
  <2>3. j.cursor \in Contacts \/ j.cursor = 0
    BY DEF DispatchJob
  <2> HIDE DEF from
  <2> QED BY <2>1, <2>2, <2>3
<1>3. Asks(j, d)
  BY <1>1 DEF Asks, Matches, Pending
<1>4. ASSUME d = j.cursor PROVE d = Min(from)
  <2>1. d \in from /\ \A x \in from : d <= x
    BY <1>1, <1>4
  <2> HIDE DEF from
  <2>2. Min(from) \in from /\ \A x \in from : Min(from) <= x
    BY <2>1 DEF Min
  <2>3. Min(from) <= d /\ d <= Min(from)
    BY <2>1, <2>2
  <2>4. Min(from) \in Nat /\ d \in Nat
    BY <1>2, <2>1, <2>2
  <2> QED BY <2>3, <2>4
<1>5. j.cursor = 0 \/ d > j.cursor
  BY <1>1, <1>2, <1>4
<1>6. d \in Nat /\ d \in Contacts
  BY <1>1, <1>2
<1> HIDE DEF from
<1> QED BY <1>2, <1>3, <1>5, <1>6 DEF Claims

(* Nobody's claim grows when a worker makes a step, except its own. *)
LEMMA OthersClaims ==
  ASSUME Struct, NEW w \in Workers, WorkerStep(w), NEW c \in Contacts
  PROVE  /\ \A j : Asks(j, c)' => Asks(j, c)
         /\ \A j : Claims(j, c)' => Claims(j, c)
         /\ \A S : \A v \in Workers \ {w} : WorkerClaims(v, c, S)' => WorkerClaims(v, c, S)
         /\ ToAdd(c)' => ToAdd(c)
<1>1. UNCHANGED Untold /\ Alone(w)
  BY WorkerFrame DEF Struct
<1>2. send'[c] = "PENDING" => send[c] = "PENDING" /\ variant'[c] = variant[c]
  BY RowsWritten DEF Writes, Resolved
<1>3. \A j : Asks(j, c)' => Asks(j, c)
  BY <1>2 DEF Asks
<1>4. \A j : Claims(j, c)' => Claims(j, c)
  BY <1>3 DEF Claims
<1>5. ASSUME NEW S, NEW v \in Workers \ {w}, WorkerClaims(v, c, S)'
      PROVE  WorkerClaims(v, c, S)
  <2>1. wpc'[v] = wpc[v] /\ wjob'[v] = wjob[v] /\ wtask'[v] = wtask[v] /\ ChunkOf(v)' = ChunkOf(v)
    BY <1>1 DEF Alone, ChunkOf
  <2> QED BY <1>3, <1>4, <1>5, <2>1 DEF WorkerClaims
<1>6. ToAdd(c)' => ToAdd(c)
  BY <1>1, <1>4 DEF ToAdd, Untold
<1> QED BY <1>3, <1>4, <1>5, <1>6

(* A worker that goes on with its job without adding another claims no more
   than before. *)
GoesOn(w) ==
  \/ ReadCampaign(w) \/ SelectSends(w) \/ CountWhenEmpty(w) \/ MarkSentWhenEmpty(w)
  \/ UpdateCounters(w) \/ CountRemaining(w) \/ MarkSent(w) \/ EvaluateWinner(w) \/ SetWinner(w)
  \/ \E c \in Contacts : ContactStep(w, c)
  \/ CompleteJob(w) \/ JobThrows(w)

(* Going on with a job, a worker claims nothing it did not claim. *)
LEMMA GoingOnClaimsNoMore ==
  ASSUME Struct, NEW w \in Workers, GoesOn(w), NEW c \in Contacts, NEW S \in {Held, ToHand}
  PROVE  UNCHANGED queue /\ (WorkerClaims(w, c, S)' => WorkerClaims(w, c, S))
<1> USE DEF tables, campaignRow, sendRows, dispatchQueue, workerVars, elsewhere, Goto, SetTask,
            Evaluating
<1>s. WorkerStep(w)
  BY DEF GoesOn, WorkerStep, DispatchStep
<1>1. \A j : (Asks(j, c)' => Asks(j, c)) /\ (Claims(j, c)' => Claims(j, c))
  BY <1>s, OthersClaims
<1>t. /\ DOMAIN wpc = Workers /\ DOMAIN wjob = Workers
      /\ wtask \in [Workers -> [Contacts -> TaskState]]
      /\ wpc = [v \in Workers |-> wpc[v]] /\ wjob = [v \in Workers |-> wjob[v]]
  BY DEF Struct, TInv, TypeOK
<1>f. JobsFit /\ BusyHasJob
  BY DEF Struct, TInv
<1>2. ASSUME FailJob(w) \/ CompleteJob(w)
      PROVE  UNCHANGED queue /\ (WorkerClaims(w, c, S)' => WorkerClaims(w, c, S))
  <2>1. UNCHANGED queue /\ wpc'[w] = "idle"
    BY <1>t, <1>2 DEF FailJob, CompleteJob, Release
  <2> QED BY <2>1 DEF WorkerClaims
<1>3. CASE ReadCampaign(w) \/ CountWhenEmpty(w) \/ MarkSentWhenEmpty(w) \/ CountRemaining(w)
           \/ MarkSent(w) \/ EvaluateWinner(w)
  <2>1. /\ UNCHANGED <<queue, wjob, wtask>>
        /\ \/ wpc[w] \in {"read", "evaluate"} /\ wpc'[w] \in {"select", "setWinner", "done"}
           \/ wpc[w] \in {"countEmpty", "markSentEmpty"} /\ wpc'[w] \in {"markSentEmpty", "done"}
           \/ wpc[w] \in {"count", "markSent"} /\ wpc'[w] \in {"markSent", "chain"}
    BY <1>t, <1>3 DEF ReadCampaign, CountWhenEmpty, MarkSentWhenEmpty, CountRemaining, MarkSent,
         EvaluateWinner, SetStatusIfExists, SetStatus
  <2>2. UNCHANGED ChunkOf(w)
    BY <2>1 DEF ChunkOf
  <2> QED BY <1>1, <2>1, <2>2 DEF WorkerClaims
<1>4. CASE SelectSends(w)
  <2>1. /\ wpc[w] = "select" /\ wpc'[w] \in {"countEmpty", "sending"} /\ UNCHANGED <<queue, wjob>>
        /\ wpc'[w] = "sending" => Chunk(wjob[w]) # {}
        /\ \A d \in Contacts : wtask'[w][d] # "none" <=> d \in Chunk(wjob[w])
    BY <1>t, <1>4 DEF SelectSends
  <2>2. wjob[w] \in DispatchJob /\ wjob[w].name # "evaluate"
    BY <1>f, <2>1 DEF JobsFit, BusyHasJob
  <2>3. "none" \notin S
    BY DEF Held, ToHand
  <2>4. ASSUME WorkerClaims(w, c, S)' PROVE Claims(wjob[w], c)
    <3>1. wpc'[w] = "sending"
      BY <2>1, <2>4 DEF WorkerClaims
    <3>2. CASE wtask'[w][c] \in S
      <4>1. c \in Chunk(wjob[w])
        BY <2>1, <2>3, <3>2
      <4> QED BY <2>2, <4>1, ChunkIsClaimed
    <3>3. CASE Asks(wjob[w], c)' /\ \A d \in ChunkOf(w)' : d < c
      <4>1. PICK d \in Chunk(wjob[w]) : TRUE
        BY <2>1, <3>1
      <4>2. d \in Contacts
        BY <2>2, ChunkIsClaimed
      <4>3. d \in ChunkOf(w)'
        BY <2>1, <4>1, <4>2 DEF ChunkOf
      <4>4. Asks(wjob[w], c) /\ d < c
        BY <1>1, <2>1, <3>3, <4>3
      <4> QED BY <2>2, <4>1, <4>4, ChunkIsClaimed
    <3> QED BY <2>1, <2>4, <3>1, <3>2, <3>3 DEF WorkerClaims
  <2> QED BY <2>1, <2>4 DEF WorkerClaims
<1>5. CASE UpdateCounters(w)
  <2>1. CASE FailJob(w)
    BY <1>2, <2>1
  <2>2. CASE ~FailJob(w)
    <3>1. /\ UNCHANGED <<queue, wjob, wtask>> /\ wpc[w] = "sending" /\ wpc'[w] = "count"
      BY <1>t, <1>5, <2>2 DEF UpdateCounters
    <3>2. UNCHANGED ChunkOf(w)
      BY <3>1 DEF ChunkOf
    <3> QED BY <1>1, <3>1, <3>2 DEF WorkerClaims
  <2> QED BY <2>1, <2>2
<1>6. CASE SetWinner(w)
  <2>1. CASE FailJob(w)
    BY <1>2, <2>1
  <2>2. CASE ~FailJob(w)
    <3>1. UNCHANGED <<queue, wjob>> /\ wpc[w] = "setWinner" /\ wpc'[w] = "addWinner"
      BY <1>t, <1>6, <2>2 DEF SetWinner
    <3> QED BY <1>1, <3>1 DEF WorkerClaims
  <2> QED BY <2>1, <2>2
<1>7. ASSUME NEW d \in Contacts, ContactStep(w, d)
      PROVE  UNCHANGED queue /\ (WorkerClaims(w, c, S)' => WorkerClaims(w, c, S))
  <2>1. /\ UNCHANGED <<queue, wpc, wjob>>
        /\ wtask[w][d] \in {"todo", "accepted", "optedOut", "refused", "charging"}
        /\ \E st \in {"accepted", "refused", "charging", "ok", "ko"} :
             wtask' = [wtask EXCEPT ![w][d] = st]
    BY <1>7 DEF ContactStep, HandToProvider, WriteSent, WriteUnsubscribed, WriteBounced,
         CallbackWrite, ChargeSend, ChargeThrows
  <2>2. /\ \A x \in Contacts \ {d} : wtask'[w][x] = wtask[w][x]
        /\ wtask'[w][d] \in {"accepted", "refused", "charging", "ok", "ko"}
    BY <1>t, <2>1
  <2>3. UNCHANGED ChunkOf(w)
    BY <2>1, <2>2 DEF ChunkOf
  <2>4. wtask'[w][c] \in S => wtask[w][c] \in S
    BY <2>1, <2>2 DEF Held, ToHand, TaskState
  <2> QED BY <1>1, <2>1, <2>3, <2>4 DEF WorkerClaims
<1>8. CASE JobThrows(w)
  BY <1>2, <1>8 DEF JobThrows
<1> QED BY <1>2, <1>3, <1>4, <1>5, <1>6, <1>7, <1>8 DEF GoesOn

(* Who claims a contact after a worker's step: who did before, the worker
   itself, or a job it has just put on the queue. *)
LEMMA ClaimantsAfter ==
  ASSUME Struct, NEW w \in Workers, WorkerStep(w), NEW c \in Contacts, NEW S \in {Held, ToHand},
         NEW x \in Claimants(c, S)'
  PROVE  /\ \/ x \in Claimants(c, S) \ {Run(w)}
            \/ x = Run(w) /\ WorkerClaims(w, c, S)'
            \/ \E e \in queue' \ queue : x = Queued(e) /\ Claims(e.job, c)
         /\ \A e : x = Queued(e) => e \in queue'
<1> USE ClaimantsDiffer
<1>1. \/ \E e \in queue' : x = Queued(e) /\ Claims(e.job, c)'
      \/ \E v \in Workers : x = Run(v) /\ WorkerClaims(v, c, S)'
      \/ x = Adding /\ ToAdd(c)'
  BY DEF Claimants
<1>2. CASE \E e \in queue' : x = Queued(e) /\ Claims(e.job, c)'
  <2>1. PICK e \in queue' : x = Queued(e) /\ Claims(e.job, c)'
    BY <1>2
  <2>2. Claims(e.job, c)
    BY <2>1, OthersClaims
  <2> QED BY <2>1, <2>2, ClaimantsAre
<1>3. CASE \E v \in Workers : x = Run(v) /\ WorkerClaims(v, c, S)'
  BY <1>3, OthersClaims, ClaimantsAre
<1>4. CASE x = Adding /\ ToAdd(c)'
  BY <1>4, OthersClaims, ClaimantsAre
<1> QED BY <1>1, <1>2, <1>3, <1>4

(* A job that is added claims what its worker claimed, and is not working on. *)
LEMMA AddedJobClaims ==
  ASSUME Struct, NEW w \in Workers, NextChunk(w) \/ AddWinnerJob(w), NEW c \in Contacts, NEW S,
         NEW e \in queue' \ queue, Claims(e.job, c)
  PROVE  WorkerClaims(w, c, S) /\ queue' = queue \cup {e}
<1> USE DEF dispatchQueue
<1>f. JobsFit /\ BusyHasJob
  BY DEF Struct, TInv
<1>1. CASE NextChunk(w)
  <2> DEFINE chunk == ChunkOf(w)
             next == Job("dispatch", wjob[w].variant, wjob[w].remaining, Max(chunk), "next")
  <2>1. wpc[w] = "chain" /\ Cardinality(chunk) = ChunkSize /\ queue' = queue \cup {Entry(next, 0)}
    BY <1>1 DEF NextChunk, Enqueue
  <2>2. e.job = next /\ e = Entry(next, 0)
    BY <2>1 DEF Entry
  <2>3. chunk \in SUBSET Contacts
    BY DEF ChunkOf
  <2>4. chunk # {}
    BY <2>1, SizesAssumption, FS_EmptySet
  <2> HIDE DEF chunk
  <2>5. \A x \in Contacts : x \in Nat /\ x # 0
    BY ContactsAssumption
  <2>6. /\ next.name = "dispatch" /\ next.variant = wjob[w].variant
        /\ next.remaining = wjob[w].remaining /\ next.cursor = Max(chunk)
    BY DEF Job
  <2> HIDE DEF next
  <2>7. Max(chunk) \in chunk
    BY <2>3, <2>4, MaxIsMember
  <2>8. \A d \in chunk : Max(chunk) >= d
    <3>1. IsFiniteSet(chunk) /\ chunk \subseteq Nat
      BY <2>3, ContactsAssumption, FS_Subset
    <3> QED BY <3>1, <2>4, GreatestExists DEF Max
  <2>9. wjob[w].name # "evaluate"
    BY <1>f, <2>1 DEF JobsFit, Evaluating
  <2>10. Asks(wjob[w], c) /\ c > Max(chunk)
    BY <2>2, <2>3, <2>5, <2>6, <2>7, <2>9 DEF Claims, Asks
  <2>11. \A d \in chunk : d < c
    BY <2>3, <2>5, <2>7, <2>8, <2>10
  <2> QED BY <2>1, <2>2, <2>10, <2>11 DEF WorkerClaims, chunk
<1>2. CASE AddWinnerJob(w)
  <2> DEFINE next == WinnerJob(wpick[w], "winner")
  <2>1. wpc[w] = "addWinner" /\ queue' = queue \cup {Entry(next, 0)}
    BY <1>2 DEF AddWinnerJob, Enqueue
  <2>2. e.job = next /\ e = Entry(next, 0)
    BY <2>1 DEF Entry
  <2>3. next.name = "winner" /\ next.remaining /\ next.cursor = 0 /\ next.variant = wpick[w]
    BY DEF WinnerJob, Job
  <2> HIDE DEF next
  <2>4. wpick[w] \in Winners
    BY <2>1 DEF Struct, OneEvaluation
  <2>5. wjob[w] = EvaluateJob
    BY <1>f, <2>1 DEF JobsFit, Evaluating
  <2>6. send[c] = "PENDING" /\ variant[c] = "NONE"
    BY <2>2, <2>3, <2>4 DEF Claims, Asks, Winners
  <2>7. Claims(wjob[w], c)
    BY <2>5, <2>6 DEF Claims, Asks, EvaluateJob, Job
  <2> QED BY <2>1, <2>2, <2>7 DEF WorkerClaims, Evaluating
<1> QED BY <1>1, <1>2

(* A worker's step moves a claim or drops it, except that a worker that dies
   leaves one behind: BullMQ runs its job again. *)
LEMMA WorkerMovesClaims ==
  ASSUME Struct, NEW w \in Workers, WorkerStep(w), NEW c \in Contacts, NEW S \in {Held, ToHand}
  PROVE  \/ \E t, u : /\ Claimants(c, S)' \subseteq (Claimants(c, S) \ {t}) \cup {u}
                      /\ u \in Claimants(c, S)' => t \in Claimants(c, S)
         \/ WorkerDies(w) /\ \E u : Claimants(c, S)' \subseteq Claimants(c, S) \cup {u}
<1> USE ClaimantsDiffer
<1>t. DOMAIN wpc = Workers /\ wpc = [v \in Workers |-> wpc[v]]
      /\ DOMAIN wjob = Workers /\ wjob = [v \in Workers |-> wjob[v]]
  BY DEF Struct, TInv, TypeOK
<1>1. CASE GoesOn(w)
  <2>1. UNCHANGED queue /\ (WorkerClaims(w, c, S)' => WorkerClaims(w, c, S))
    BY <1>1, GoingOnClaimsNoMore
  <2>2. Claimants(c, S)' \subseteq (Claimants(c, S) \ {Run(w)}) \cup {Run(w)}
    BY <2>1, ClaimantsAfter
  <2>3. Run(w) \in Claimants(c, S)' => Run(w) \in Claimants(c, S)
    BY <2>1, ClaimantsAfter, ClaimantsAre
  <2> QED BY <2>2, <2>3
<1>2. CASE TakeJob(w)
  <2>1. PICK e \in queue :
          /\ queue' = queue \ {e} /\ wjob'[w] = e.job
          /\ wpc'[w] = IF e.job.name = "evaluate" THEN "evaluate" ELSE "read"
    BY <1>t, <1>2 DEF TakeJob, Goto
  <2>2. WorkerClaims(w, c, S)' => Claims(e.job, c)
    <3>1. WorkerClaims(w, c, S)' => Claims(wjob[w], c)'
      BY <2>1 DEF WorkerClaims, Evaluating
    <3> QED BY <2>1, <3>1, OthersClaims
  <2>3. Claimants(c, S)' \subseteq (Claimants(c, S) \ {Queued(e)}) \cup {Run(w)}
    BY <2>1, ClaimantsAfter
  <2>4. Run(w) \in Claimants(c, S)' => Queued(e) \in Claimants(c, S)
    BY <2>1, <2>2, ClaimantsAfter, ClaimantsAre
  <2> QED BY <2>3, <2>4
<1>3. CASE NextChunk(w) \/ AddWinnerJob(w)
  <2>1. wpc'[w] = "done"
    BY <1>t, <1>3 DEF NextChunk, AddWinnerJob, Goto
  <2>2. ~WorkerClaims(w, c, S)'
    BY <2>1 DEF WorkerClaims, Evaluating
  <2>3. CASE \E e \in queue' \ queue : Claims(e.job, c)
    <3>1. PICK e \in queue' \ queue : Claims(e.job, c)
      BY <2>3
    <3>2. WorkerClaims(w, c, S) /\ queue' = queue \cup {e}
      BY <1>3, <3>1, AddedJobClaims
    <3>3. Run(w) \in Claimants(c, S)
      BY <3>2, ClaimantsAre
    <3>4. Claimants(c, S)' \subseteq (Claimants(c, S) \ {Run(w)}) \cup {Queued(e)}
      BY <2>2, <3>2, ClaimantsAfter
    <3> QED BY <3>3, <3>4
  <2>4. CASE ~\E e \in queue' \ queue : Claims(e.job, c)
    <3>1. Claimants(c, S)' \subseteq (Claimants(c, S) \ {Run(w)}) \cup {Run(w)}
      BY <2>2, <2>4, ClaimantsAfter
    <3>2. Run(w) \notin Claimants(c, S)'
      BY <2>2, ClaimantsAfter
    <3> QED BY <3>1, <3>2
  <2> QED BY <2>3, <2>4
<1>4. CASE WorkerDies(w)
  <2>1. wpc'[w] = "idle" /\ queue' \subseteq queue \cup {Entry(wjob[w], 0)}
    BY <1>t, <1>4 DEF WorkerDies, Release, Goto
  <2>2. ~WorkerClaims(w, c, S)'
    BY <2>1 DEF WorkerClaims, Evaluating
  <2>3. Claimants(c, S)' \subseteq Claimants(c, S) \cup {Queued(Entry(wjob[w], 0))}
    BY <2>1, <2>2, ClaimantsAfter
  <2> QED BY <1>4, <2>3
<1> QED BY <1>1, <1>2, <1>3, <1>4 DEF WorkerStep, DispatchStep, GoesOn

(* A message uses up the claim of the worker that hands it over. *)
LEMMA HandingUsesClaim ==
  ASSUME Struct, NEW w \in Workers, WorkerStep(w), NEW c \in Contacts
  PROVE  \/ handed'[c] = handed[c]
         \/ /\ handed'[c] = handed[c] + 1
            /\ Run(w) \in Claimants(c, ToHand)
            /\ Claimants(c, ToHand)' \subseteq Claimants(c, ToHand) \ {Run(w)}
<1>t. /\ handed \in [Contacts -> Nat] /\ wtask \in [Workers -> [Contacts -> TaskState]]
  BY DEF Struct, TInv, TypeOK
<1>0. ASSUME FailJob(w) PROVE UNCHANGED handed
  BY <1>0 DEF FailJob, history
<1>1. CASE HandToProvider(w, c)
  <2>1. /\ wtask[w][c] = "todo" /\ wtask'[w][c] \in {"refused", "accepted"}
        /\ UNCHANGED <<wpc, wjob, queue>>
        /\ handed'[c] \in {handed[c], handed[c] + 1}
    BY <1>t, <1>1 DEF HandToProvider, SetTask, dispatchQueue
  <2>2. wpc[w] = "sending"
    BY <2>1 DEF Struct, JobsFit
  <2>3. Run(w) \in Claimants(c, ToHand)
    BY <2>1, <2>2, ClaimantsAre DEF WorkerClaims, ToHand
  <2>4. ~WorkerClaims(w, c, ToHand)'
    <3>1. c \in ChunkOf(w)' /\ wpc'[w] = "sending"
      BY <2>1, <2>2 DEF ChunkOf
    <3>2. ~(c < c)
      BY ContactsAssumption
    <3> QED BY <2>1, <3>1, <3>2 DEF WorkerClaims, ToHand, Evaluating
  <2>5. Claimants(c, ToHand)' \subseteq Claimants(c, ToHand) \ {Run(w)}
    BY <2>1, <2>4, ClaimantsAfter
  <2> QED BY <2>1, <2>3, <2>5
<1>2. ASSUME NEW d \in Contacts, ContactStep(w, d), ~HandToProvider(w, c)
      PROVE  handed'[c] = handed[c]
  <2>1. CASE HandToProvider(w, d)
    BY <1>t, <1>2, <2>1 DEF HandToProvider
  <2>2. CASE ~HandToProvider(w, d)
    BY <1>2, <2>2 DEF ContactStep, WriteSent, WriteUnsubscribed, WriteBounced, CallbackWrite,
         ChargeSend, ChargeThrows, history
  <2> QED BY <2>1, <2>2
<1>3. CASE TakeJob(w) \/ ReadCampaign(w) \/ SelectSends(w) \/ CountWhenEmpty(w) \/ MarkSentWhenEmpty(w)
           \/ CountRemaining(w) \/ MarkSent(w) \/ NextChunk(w) \/ EvaluateWinner(w)
           \/ AddWinnerJob(w) \/ CompleteJob(w) \/ WorkerDies(w)
  BY <1>3 DEF TakeJob, ReadCampaign, SelectSends, CountWhenEmpty, MarkSentWhenEmpty, CountRemaining,
       MarkSent, NextChunk, EvaluateWinner, AddWinnerJob, CompleteJob, WorkerDies, history
<1>4. CASE UpdateCounters(w) \/ SetWinner(w) \/ JobThrows(w)
  BY <1>0, <1>4 DEF UpdateCounters, SetWinner, JobThrows, history
<1> QED BY <1>1, <1>2, <1>3, <1>4 DEF WorkerStep, DispatchStep

(* Only a death counts as a crash. *)
LEMMA DeathsCounted ==
  ASSUME Struct, NEW w \in Workers, WorkerStep(w)
  PROVE  crashes' \in Nat /\ crashes' >= crashes /\ (WorkerDies(w) => crashes' = crashes + 1)
<1>t. crashes \in Nat
  BY DEF Struct, TInv, TypeOK
<1>0. TInv'
  BY NextTInv DEF WorkerStep, Next, DispatchNext, Struct
<1>1. crashes' \in Nat
  BY <1>0 DEF TInv, TypeOK
<1>2. WorkerDies(w) => crashes' = crashes + 1
  BY DEF WorkerDies, Crash
<1>3. ~WorkerDies(w) => crashes' = crashes
  BY DEF WorkerStep, DispatchStep, ContactStep, TakeJob, ReadCampaign, SelectSends, CountWhenEmpty,
     MarkSentWhenEmpty, UpdateCounters, CountRemaining, MarkSent, NextChunk, EvaluateWinner, SetWinner,
     AddWinnerJob, CompleteJob, HandToProvider, WriteSent, WriteUnsubscribed, WriteBounced,
     CallbackWrite, ChargeSend, ChargeThrows, JobThrows, Fault, bounds
<1> QED BY <1>t, <1>1, <1>2, <1>3

(* A step of a worker keeps the bound on claims. *)
LEMMA WorkerKeepsClaims ==
  ASSUME Struct, ClaimsBounded, NEW w \in Workers, WorkerStep(w)
  PROVE  ClaimsBounded'
<1> SUFFICES ASSUME NEW c \in Contacts
             PROVE  /\ IsFiniteSet(Claimants(c, Held)')
                    /\ Cardinality(Claimants(c, Held)') <= 1 + crashes'
                    /\ IsFiniteSet(Claimants(c, ToHand)')
                    /\ handed'[c] + Cardinality(Claimants(c, ToHand)') <= 1 + crashes'
  BY DEF ClaimsBounded, Held, ToHand
<1>1. /\ crashes \in Nat /\ crashes' \in Nat /\ crashes' >= crashes
      /\ WorkerDies(w) => crashes' = crashes + 1
  BY DeathsCounted DEF Struct, TInv, TypeOK
<1>2. /\ IsFiniteSet(Claimants(c, Held)) /\ Cardinality(Claimants(c, Held)) <= 1 + crashes
      /\ IsFiniteSet(Claimants(c, ToHand))
      /\ handed[c] + Cardinality(Claimants(c, ToHand)) <= 1 + crashes
  BY DEF ClaimsBounded
<1>h. handed[c] \in Nat
  BY DEF Struct, TInv, TypeOK
<1>3. ASSUME NEW S \in {Held, ToHand}
      PROVE  /\ IsFiniteSet(Claimants(c, S)') /\ Cardinality(Claimants(c, S)') \in Nat
             /\ Cardinality(Claimants(c, S)) \in Nat
             /\ Cardinality(Claimants(c, S)') - crashes' <= Cardinality(Claimants(c, S)) - crashes
  <2>1. IsFiniteSet(Claimants(c, S)) /\ Cardinality(Claimants(c, S)) \in Nat
    BY <1>2, FS_CardinalityType
  <2>2. CASE \E t, u : /\ Claimants(c, S)' \subseteq (Claimants(c, S) \ {t}) \cup {u}
                       /\ u \in Claimants(c, S)' => t \in Claimants(c, S)
    <3>1. /\ IsFiniteSet(Claimants(c, S)') /\ Cardinality(Claimants(c, S)') \in Nat
          /\ Cardinality(Claimants(c, S)') <= Cardinality(Claimants(c, S))
      BY <2>1, <2>2, ClaimsMove
    <3> QED BY <1>1, <2>1, <3>1
  <2>3. CASE WorkerDies(w) /\ \E u : Claimants(c, S)' \subseteq Claimants(c, S) \cup {u}
    <3>1. /\ IsFiniteSet(Claimants(c, S)') /\ Cardinality(Claimants(c, S)') \in Nat
          /\ Cardinality(Claimants(c, S)') <= Cardinality(Claimants(c, S)) + 1
      BY <2>1, <2>3, ClaimMade
    <3> QED BY <1>1, <2>1, <2>3, <3>1
  <2> QED BY <2>2, <2>3, WorkerMovesClaims
<1>4. IsFiniteSet(Claimants(c, Held)') /\ Cardinality(Claimants(c, Held)') <= 1 + crashes'
  <2>1. /\ IsFiniteSet(Claimants(c, Held)') /\ Cardinality(Claimants(c, Held)') \in Nat
        /\ Cardinality(Claimants(c, Held)) \in Nat
        /\ Cardinality(Claimants(c, Held)') - crashes' <= Cardinality(Claimants(c, Held)) - crashes
    BY <1>3
  <2> QED BY <1>1, <1>2, <2>1
<1>5. /\ IsFiniteSet(Claimants(c, ToHand)')
      /\ handed'[c] + Cardinality(Claimants(c, ToHand)') <= 1 + crashes'
  <2>1. /\ IsFiniteSet(Claimants(c, ToHand)') /\ Cardinality(Claimants(c, ToHand)') \in Nat
        /\ Cardinality(Claimants(c, ToHand)) \in Nat
        /\ Cardinality(Claimants(c, ToHand)') - crashes' <= Cardinality(Claimants(c, ToHand)) - crashes
    BY <1>3
  <2>2. CASE handed'[c] = handed[c]
    BY <1>1, <1>2, <1>h, <2>1, <2>2
  <2>3. CASE /\ handed'[c] = handed[c] + 1 /\ Run(w) \in Claimants(c, ToHand)
             /\ Claimants(c, ToHand)' \subseteq Claimants(c, ToHand) \ {Run(w)}
    <3>1. Cardinality(Claimants(c, ToHand)') <= Cardinality(Claimants(c, ToHand)) - 1
      BY <1>2, <2>3, ClaimUsed
    <3> QED BY <1>1, <1>2, <1>h, <2>1, <2>3, <3>1
  <2> QED BY <2>2, <2>3, HandingUsesClaim
<1> QED BY <1>4, <1>5

-----------------------------------------------------------------------------
(* The request and claims *)

(* Before a job is added nobody claims anything. *)
LEMMA NobodyClaims ==
  ASSUME Untouched, \A r \in Clients : rpc[r] # "enqueue", NEW c, NEW S
  PROVE  Claimants(c, S) = {}
  BY ClaimantsAre DEF Untouched, WorkerClaims, Evaluating, ToAdd

(* A request that adds nothing leaves every claim as it is, or drops its own. *)
LEMMA RequestDropsClaims ==
  ASSUME UNCHANGED <<wpc, wjob, wtask, queue, send, variant>>, NEW c \in Contacts, NEW S,
         ToAdd(c)' => ToAdd(c)
  PROVE  Claimants(c, S)' \subseteq Claimants(c, S)
<1>1. \A j : (Claims(j, c)' <=> Claims(j, c)) /\ (Asks(j, c)' <=> Asks(j, c))
  BY DEF Claims, Asks
<1>2. \A v \in Workers : WorkerClaims(v, c, S)' => WorkerClaims(v, c, S)
  <2>1. \A v \in Workers : UNCHANGED ChunkOf(v)
    BY DEF ChunkOf
  <2> QED BY <1>1, <2>1 DEF WorkerClaims
<1> QED BY <1>1, <1>2 DEF Claimants

(* The jobs of an A/B campaign are for different contacts. *)
LEMMA JobsClaimApart ==
  /\ \A c : ~(Claims(AddSampleA.job, c) /\ Claims(AddSampleB.job, c))
  /\ \A c : ~(Claims(AddSampleA.job, c) /\ Claims(AddEvaluate.job, c))
  /\ \A c : ~(Claims(AddSampleB.job, c) /\ Claims(AddEvaluate.job, c))
  BY DEF Claims, Asks, AddSampleA, AddSampleB, AddEvaluate, Add, SampleJob, EvaluateJob, Job

(* Adding a job hands the claim on to it. *)
LEMMA AddingMovesClaims ==
  ASSUME Struct, NEW r \in Clients, EnqueueFirst(r), NEW c \in Contacts, NEW S
  PROVE  \E t, u : /\ Claimants(c, S)' \subseteq (Claimants(c, S) \ {t}) \cup {u}
                   /\ u \in Claimants(c, S)' => t \in Claimants(c, S)
<1> USE ClaimantsDiffer DEF requestVars, outside, keepTables, workerVars, sendRows, campaignRow
<1>t. /\ DOMAIN rpc = Clients /\ rpc = [s \in Clients |-> rpc[s]]
      /\ DOMAIN req = Clients /\ req = [s \in Clients |-> req[s]] /\ req[r] \in Request
  BY DEF Struct, TInv, TypeOK
<1> DEFINE adds == req[r].adds
           e == Entry(Head(adds).job, Head(adds).delay)
<1>1. /\ rpc[r] = "enqueue" /\ adds \in Remaining /\ \A s \in Clients : s # r => rpc[s] = "idle"
      /\ UNCHANGED <<wpc, wjob, wtask, send, variant>>
      /\ queue' = queue \/ queue' = queue \cup {e}
      /\ \/ Len(adds) = 1 /\ rpc' = [rpc EXCEPT ![r] = "idle"]
         \/ Len(adds) # 1 /\ req' = [req EXCEPT ![r].adds = Tail(@)] /\ UNCHANGED rpc
  BY DEF EnqueueFirst, Enqueue, Return, Struct, OneRequest
<1>2. e.job = Head(adds).job
  BY DEF Entry
<1>3. \A j : (Claims(j, c)' <=> Claims(j, c)) /\ (Asks(j, c)' <=> Asks(j, c))
  BY <1>1 DEF Claims, Asks
<1>4. Len(adds) # 1 => req'[r].adds = Tail(adds)
  BY <1>t, <1>1 DEF Request
<1> DEFINE ahead(s) == \E i \in DOMAIN s : Claims(s[i].job, c)
<1>5. \/ Len(adds) = 1 /\ (Claims(Head(adds).job, c) => ahead(adds))
      \/ /\ Len(adds) # 1
         /\ (Claims(Head(adds).job, c) \/ ahead(Tail(adds))) => ahead(adds)
         /\ ~(Claims(Head(adds).job, c) /\ ahead(Tail(adds)))
  <2>1. ASSUME NEW a, adds = <<a>>
        PROVE  Len(adds) = 1 /\ (Claims(Head(adds).job, c) => ahead(adds))
    <3>1. Len(adds) = 1 /\ Head(adds) = a /\ 1 \in DOMAIN adds /\ adds[1] = a
      BY <2>1
    <3> HIDE DEF adds
    <3> QED BY <3>1
  <2>2. CASE adds = <<AddSampleB, AddEvaluate>>
    <3>1. ahead(adds) <=> Claims(AddSampleB.job, c) \/ Claims(AddEvaluate.job, c)
      BY <2>2
    <3>2. Tail(adds) = <<AddEvaluate>> /\ Head(adds) = AddSampleB /\ Len(adds) = 2
      BY <2>2
    <3>3. ahead(<<AddEvaluate>>) <=> Claims(AddEvaluate.job, c)
      OBVIOUS
    <3> HIDE DEF adds, ahead
    <3> QED BY <3>1, <3>2, <3>3, JobsClaimApart
  <2>3. CASE adds = <<AddSampleA, AddSampleB, AddEvaluate>>
    <3>1. ahead(adds) <=> Claims(AddSampleA.job, c) \/ Claims(AddSampleB.job, c) \/ Claims(AddEvaluate.job, c)
      BY <2>3
    <3>2. Tail(adds) = <<AddSampleB, AddEvaluate>> /\ Head(adds) = AddSampleA /\ Len(adds) = 3
      BY <2>3
    <3>3. ahead(<<AddSampleB, AddEvaluate>>) <=> Claims(AddSampleB.job, c) \/ Claims(AddEvaluate.job, c)
      OBVIOUS
    <3> HIDE DEF adds, ahead
    <3> QED BY <3>1, <3>2, <3>3, JobsClaimApart
  <2> QED BY <1>1, <2>1, <2>2, <2>3 DEF Remaining
<1>6. ToAdd(c) <=> ahead(adds)
  BY <1>1 DEF ToAdd
<1>7. ToAdd(c)' => Len(adds) # 1 /\ ahead(Tail(adds))
  BY <1>t, <1>1, <1>3, <1>4 DEF ToAdd
<1> HIDE DEF adds, ahead, e
<1>8. \A v \in Workers : WorkerClaims(v, c, S)' => WorkerClaims(v, c, S)
  <2>1. \A v \in Workers : UNCHANGED ChunkOf(v)
    BY <1>1 DEF ChunkOf
  <2> QED BY <1>1, <1>3, <2>1 DEF WorkerClaims
<1>9. Claimants(c, S)' \subseteq Claimants(c, S) \cup {x \in {Queued(e)} : Claims(e.job, c)}
  <2> SUFFICES ASSUME NEW x \in Claimants(c, S)'
               PROVE  x \in Claimants(c, S) \/ (x = Queued(e) /\ Claims(e.job, c))
    OBVIOUS
  <2>1. \/ \E f \in queue' : x = Queued(f) /\ Claims(f.job, c)'
        \/ \E v \in Workers : x = Run(v) /\ WorkerClaims(v, c, S)'
        \/ x = Adding /\ ToAdd(c)'
    BY DEF Claimants
  <2> QED BY <1>1, <1>3, <1>5, <1>6, <1>7, <1>8, <2>1, ClaimantsAre
<1>10. CASE Claims(e.job, c)
  <2>1. Adding \in Claimants(c, S)
    BY <1>2, <1>5, <1>6, <1>10, ClaimantsAre
  <2>2. ~ToAdd(c)'
    BY <1>2, <1>5, <1>7, <1>10
  <2>3. Adding \notin Claimants(c, S)'
    BY <2>2 DEF Claimants
  <2>4. Claimants(c, S)' \subseteq (Claimants(c, S) \ {Adding}) \cup {Queued(e)}
    BY <1>9, <2>3
  <2> QED BY <2>1, <2>4
<1>11. CASE ~Claims(e.job, c)
  <2>1. Claimants(c, S)' \subseteq (Claimants(c, S) \ {Adding}) \cup {Adding}
    BY <1>9, <1>11
  <2>2. Adding \in Claimants(c, S)' => Adding \in Claimants(c, S)
    BY <1>9, <1>11
  <2> QED BY <2>1, <2>2
<1> QED BY <1>10, <1>11

(* So does a step of a request. *)
LEMMA RequestKeepsClaims ==
  ASSUME OneSend, Struct, ClaimsBounded, NEW r \in Clients, SendingStep(r)
  PROVE  ClaimsBounded'
<1>t. /\ DOMAIN rpc = Clients /\ rpc = [s \in Clients |-> rpc[s]]
      /\ DOMAIN req = Clients /\ req = [s \in Clients |-> req[s]]
      /\ crashes \in Nat /\ handed \in [Contacts -> Nat]
  BY DEF Struct, TInv, TypeOK
<1>1. /\ OneRequest /\ Exists
      /\ UNCHANGED <<wpc, wjob, wtask, handed>>
  BY RequestKeepsStruct DEF Struct, AtOnce, Exists, Unworked
<1>2. OneRequest'
  BY RequestKeepsStruct
<1>3. ASSUME crashes' = crashes,
             \A c \in Contacts, S \in {Held, ToHand} :
               \E t, u : /\ Claimants(c, S)' \subseteq (Claimants(c, S) \ {t}) \cup {u}
                         /\ u \in Claimants(c, S)' => t \in Claimants(c, S)
      PROVE  ClaimsBounded'
  <2> SUFFICES ASSUME NEW c \in Contacts
               PROVE  /\ IsFiniteSet(Claimants(c, Held)')
                      /\ Cardinality(Claimants(c, Held)') <= 1 + crashes
                      /\ IsFiniteSet(Claimants(c, ToHand)')
                      /\ handed[c] + Cardinality(Claimants(c, ToHand)') <= 1 + crashes
    BY <1>1, <1>3 DEF ClaimsBounded, Held, ToHand
  <2>1. /\ IsFiniteSet(Claimants(c, Held)) /\ Cardinality(Claimants(c, Held)) <= 1 + crashes
        /\ IsFiniteSet(Claimants(c, ToHand))
        /\ handed[c] + Cardinality(Claimants(c, ToHand)) <= 1 + crashes
        /\ Cardinality(Claimants(c, Held)) \in Nat /\ Cardinality(Claimants(c, ToHand)) \in Nat
    BY FS_CardinalityType DEF ClaimsBounded
  <2>2. /\ IsFiniteSet(Claimants(c, Held)') /\ Cardinality(Claimants(c, Held)') \in Nat
        /\ Cardinality(Claimants(c, Held)') <= Cardinality(Claimants(c, Held))
    BY <1>3, <2>1, ClaimsMove
  <2>3. /\ IsFiniteSet(Claimants(c, ToHand)') /\ Cardinality(Claimants(c, ToHand)') \in Nat
        /\ Cardinality(Claimants(c, ToHand)') <= Cardinality(Claimants(c, ToHand))
    BY <1>3, <2>1, ClaimsMove
  <2>4. handed[c] \in Nat
    BY <1>t
  <2> QED BY <1>t, <2>1, <2>2, <2>3, <2>4
<1>4. ASSUME crashes' = crashes,
             \A c \in Contacts, S \in {Held, ToHand} : Claimants(c, S)' \subseteq Claimants(c, S)
      PROVE  ClaimsBounded'
  BY <1>3, <1>4
<1>5. ASSUME crashes' = crashes, UNCHANGED <<queue, send, variant>>,
             \A s \in Clients : rpc'[s] = "enqueue" => rpc[s] = "enqueue" /\ req'[s] = req[s]
      PROVE  ClaimsBounded'
  <2>1. \A c, j : Claims(j, c)' <=> Claims(j, c)
    BY <1>5 DEF Claims, Asks
  <2>2. \A c : ToAdd(c)' => ToAdd(c)
    BY <1>5, <2>1 DEF ToAdd
  <2>3. \A c \in Contacts, S \in {Held, ToHand} : Claimants(c, S)' \subseteq Claimants(c, S)
    BY <1>1, <1>5, <2>2, RequestDropsClaims
  <2> QED BY <1>4, <1>5, <2>3
<1> USE DEF sendRows, campaignRow, dispatchQueue, bounds, keepTables, keepQueues
<1>6. CASE SendStart(r)
  <2>1. PICK q : Begin(r, "createSends", q)
    BY <1>6 DEF SendStart
  <2> QED BY <1>t, <1>5, <2>1 DEF Begin
<1>7. CASE CreateSends(r)
  <2>1. rpc[r] = "createSends" /\ UNCHANGED <<queue, crashes>>
    BY <1>7 DEF CreateSends
  <2>2. Untouched /\ \A s \in Clients : s # r => rpc[s] = "idle"
    BY <1>1, <2>1 DEF OneRequest
  <2>3. rpc'[r] \in {"idle", "setSending"} /\ \A s \in Clients : s # r => rpc'[s] = "idle"
    BY <1>t, <1>7, <2>2 DEF CreateSends, Return, Continue
  <2>4. Untouched'
    <3>1. UNCHANGED <<status, abWinner>>
      BY <1>7 DEF CreateSends
    <3>2. UNCHANGED <<wpc, handed, charged>>
      BY RequestKeepsStruct DEF Unworked
    <3> QED BY <2>1, <2>2, <3>1, <3>2 DEF Untouched
  <2>5. \A s \in Clients : rpc'[s] # "enqueue"
    BY <2>3
  <2>6. \A c \in Contacts, S \in {Held, ToHand} : Claimants(c, S)' = {}
    BY <2>4, <2>5 DEF Claimants, Untouched, WorkerClaims, Evaluating, ToAdd
  <2> QED BY <1>4, <2>1, <2>6
<1>8. CASE SetSending(r)
  <2>1. rpc[r] = "setSending" /\ UNCHANGED <<queue, crashes, send, variant>>
    BY <1>8 DEF SetSending
  <2>2. Untouched
    BY <1>1, <2>1 DEF OneRequest
  <2>3. \A c \in Contacts, S \in {Held, ToHand} : Claimants(c, S)' \subseteq {Adding}
    BY <1>1, <2>1, <2>2 DEF Claimants, Untouched, WorkerClaims, Evaluating
  <2>4. IsFiniteSet({Adding}) /\ Cardinality({Adding}) = 1
    BY FS_Singleton
  <2>5. \A c \in Contacts, S \in {Held, ToHand} :
           /\ IsFiniteSet(Claimants(c, S)') /\ Cardinality(Claimants(c, S)') \in Nat
           /\ Cardinality(Claimants(c, S)') <= 1
    BY <2>3, <2>4, ClaimsDropped
  <2>6. ASSUME NEW c \in Contacts
        PROVE  /\ IsFiniteSet(Claimants(c, Held)') /\ Cardinality(Claimants(c, Held)') <= 1 + crashes'
               /\ IsFiniteSet(Claimants(c, ToHand)')
               /\ handed'[c] + Cardinality(Claimants(c, ToHand)') <= 1 + crashes'
    <3>1. handed'[c] = 0
      BY <1>1, <2>2 DEF Untouched
    <3> QED BY <1>t, <2>1, <2>5, <3>1
  <2> QED BY <2>6 DEF ClaimsBounded, Held, ToHand
<1>9. CASE EnqueueFirst(r)
  <2>1. crashes' = crashes
    BY <1>9 DEF EnqueueFirst
  <2> QED BY <1>3, <1>9, <2>1, AddingMovesClaims
<1>10. CASE RequestFails(r)
  BY <1>t, <1>5, <1>10 DEF RequestFails, Return, Fault
<1> QED BY <1>6, <1>7, <1>8, <1>9, <1>10 DEF SendingStep

(* The invariant holds before the request and after every step: however jobs of
   one campaign overlap, fail and are run again, there is at most one claim on a
   row, and one more for each worker that died. *)
THEOREM SendInvHolds ==
  ASSUME OneSend
  PROVE  Spec => []SendInv
<1>1. SendInv <=> Struct /\ ClaimsBounded
  BY DEF SendInv, Struct
<1>2. ASSUME Init PROVE SendInv
  <2>1. Struct
    BY <1>2, InitStruct
  <2>2. \A c, S : Claimants(c, S) = {}
    BY <1>2 DEF Init, Claimants, WorkerClaims, Evaluating, ToAdd
  <2>3. ClaimsBounded
    <3>1. crashes = 0 /\ \A c \in Contacts : handed[c] = 0
      BY <1>2 DEF Init
    <3>2. IsFiniteSet({}) /\ Cardinality({}) = 0
      BY FS_EmptySet
    <3> QED BY <2>2, <3>1, <3>2 DEF ClaimsBounded
  <2> QED BY <1>1, <2>1, <2>3
<1>3. ASSUME SendInv, [Next]_vars PROVE SendInv'
  <2>1. Struct /\ ClaimsBounded
    BY <1>1, <1>3
  <2>2. Struct'
    BY <1>3, <2>1, NextStruct
  <2>3. \/ \E w \in Workers : WorkerStep(w)
        \/ \E r \in Clients : SendingStep(r)
        \/ OtherStep
    BY <1>3, <2>1, PossibleSteps DEF Struct
  <2>4. ASSUME OtherStep PROVE ClaimsBounded'
    <3>1. UNCHANGED <<queue, send, variant, rpc, req, bounds, wpc, wjob, wtask, handed>>
      BY <2>1, <2>4, OtherKeepsStruct DEF Unworked
    <3>2. \A c : ToAdd(c)' <=> ToAdd(c)
      BY <3>1 DEF ToAdd, Claims, Asks
    <3>3. \A c \in Contacts, S \in {Held, ToHand} : Claimants(c, S)' = Claimants(c, S)
      BY <3>1, <3>2 DEF Claimants, Claims, Asks, WorkerClaims, ChunkOf
    <3> QED BY <2>1, <3>1, <3>3 DEF ClaimsBounded, bounds
  <2>5. ClaimsBounded'
    BY <2>1, <2>3, <2>4, WorkerKeepsClaims, RequestKeepsClaims
  <2> QED BY <2>2, <2>5 DEF SendInv, Struct
<1> QED BY <1>2, <1>3, PTL DEF Spec

(* Errors and deaths are counted, and counted up to the bounds. *)
LEMMA FailuresCounted ==
  ASSUME OneSend, Struct, [Next]_vars
  PROVE  Fault \/ Crash \/ UNCHANGED <<faults, crashes>>
<1> USE DEF bounds
<1>1. ASSUME NEW w \in Workers, WorkerStep(w)
      PROVE  Fault \/ Crash \/ UNCHANGED <<faults, crashes>>
  BY <1>1 DEF WorkerStep, DispatchStep, ContactStep, TakeJob, ReadCampaign, SelectSends, CountWhenEmpty,
     MarkSentWhenEmpty, UpdateCounters, CountRemaining, MarkSent, NextChunk, EvaluateWinner, SetWinner,
     AddWinnerJob, CompleteJob, HandToProvider, WriteSent, WriteUnsubscribed, WriteBounced,
     CallbackWrite, ChargeSend, ChargeThrows, JobThrows, WorkerDies
<1>2. ASSUME NEW r \in Clients, SendingStep(r)
      PROVE  Fault \/ Crash \/ UNCHANGED <<faults, crashes>>
  BY <1>2 DEF SendingStep, SendStart, Begin, CreateSends, SetSending, EnqueueFirst, RequestFails
<1>3. CASE OtherStep
  BY <1>3, OtherKeepsStruct
<1> QED BY <1>1, <1>2, <1>3, PossibleSteps DEF Struct

WithinBounds == faults <= MaxFaults /\ crashes <= MaxCrashes

(* No more goes wrong than the constants say. *)
LEMMA BoundsHold ==
  ASSUME OneSend
  PROVE  Spec => []WithinBounds
<1>1. ASSUME Init PROVE WithinBounds
  BY <1>1, SizesAssumption DEF Init, WithinBounds
<1>2. ASSUME Struct, WithinBounds, [Next]_vars PROVE WithinBounds'
  <2>1. faults \in Nat /\ crashes \in Nat /\ MaxFaults \in Nat /\ MaxCrashes \in Nat
    BY <1>2, SizesAssumption DEF Struct, TInv, TypeOK
  <2> QED BY <1>2, <2>1, FailuresCounted DEF Fault, Crash, WithinBounds
<1> QED BY <1>1, <1>2, StructHolds, PTL DEF Spec

-----------------------------------------------------------------------------
(* Who is written to, and how often *)

(* Whatever throws and however many workers die, a contact is written to at
   most once more for each death: a call that throws never makes the code send
   a message again, since its row leaves PENDING or keeps a single claim. *)
THEOREM HandedAgainOnlyByDeaths ==
  ASSUME OneSend
  PROVE  Spec => []HandedAgainOnlyAfterDeath
<1>1. SendInv => HandedAgainOnlyAfterDeath
  <2> SUFFICES ASSUME SendInv, NEW c \in Contacts PROVE handed[c] <= 1 + crashes
    BY DEF HandedAgainOnlyAfterDeath
  <2>1. /\ handed[c] \in Nat /\ crashes \in Nat
        /\ Cardinality(Claimants(c, ToHand)) \in Nat
        /\ handed[c] + Cardinality(Claimants(c, ToHand)) <= 1 + crashes
    BY FS_CardinalityType DEF SendInv, TInv, TypeOK, ClaimsBounded
  <2> QED BY <2>1
<1> QED BY <1>1, SendInvHolds, PTL

(* As long as no worker dies, nobody gets the message twice: not when workers
   run the two samples, the next chunk and the winner's job at the same time,
   and not when calls throw. *)
THEOREM NobodyHandedTwice ==
  ASSUME OneSend, MaxCrashes = 0
  PROVE  Spec => []HandedOnce
<1>1. SendInv /\ WithinBounds => HandedOnce
  <2> SUFFICES ASSUME SendInv, WithinBounds, NEW c \in Contacts PROVE handed[c] <= 1
    BY DEF HandedOnce
  <2>1. /\ handed[c] \in Nat /\ crashes \in Nat
        /\ Cardinality(Claimants(c, ToHand)) \in Nat
        /\ handed[c] + Cardinality(Claimants(c, ToHand)) <= 1 + crashes
    BY FS_CardinalityType DEF SendInv, TInv, TypeOK, ClaimsBounded
  <2>2. crashes = 0
    BY <2>1 DEF WithinBounds
  <2> QED BY <2>1, <2>2
<1> QED BY <1>1, SendInvHolds, BoundsHold, PTL

=============================================================================
