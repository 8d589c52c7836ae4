--------------------------- MODULE CampaignDispatch ---------------------------
(***************************************************************************)
(* CampaignDispatchProcessor (queues/campaign.dispatch.queue.ts): the      *)
(* workers of the queue campaign-dispatch.                                 *)
(*                                                                         *)
(* A dispatch job reads a chunk of PENDING sends and handles them          *)
(* concurrently: wtask[w][c] is where the async callback of contact c is.  *)
(* An evaluate job picks the winner of an A/B test.  A job that throws is  *)
(* failed and kept (no attempts are configured); a job whose worker dies   *)
(* is put back once by BullMQ, and failed the second time.                 *)
(*                                                                         *)
(* The content of messages, tracking links and the notification mail are   *)
(* left out, and so are openings and clicks: which variant did better is   *)
(* a free choice wherever the comparison can go both ways.                 *)
(***************************************************************************)
EXTENDS CampaignStore

TaskState ==
  {"none", "todo", "optedOut", "accepted", "charging", "refused", "ok", "ko"}

WorkerPC ==
  {"idle", "read", "select", "countEmpty", "markSentEmpty", "sending", "count",
   "markSent", "chain", "evaluate", "setWinner", "addWinner", "done"}

NoTasks == [c \in Contacts |-> "none"]
NoVariants == [c \in Contacts |-> "NONE"]

ChunkOf(w) == {c \in Contacts : wtask[w][c] # "none"}
TasksIn(w, states) == {c \in Contacts : wtask[w][c] \in states}

AllSettled(w) == ChunkOf(w) = TasksIn(w, {"ok", "ko"})

Goto(w, pc) == wpc' = [wpc EXCEPT ![w] = pc]
SetTask(w, c, st) == wtask' = [wtask EXCEPT ![w][c] = st]

(* The worker lets go of its job. *)
Release(w) ==
  /\ Goto(w, "idle")
  /\ wjob' = [wjob EXCEPT ![w] = NoJob]
  /\ wtask' = [wtask EXCEPT ![w] = NoTasks]
  /\ wseen' = [wseen EXCEPT ![w] = NoVariants]
  /\ wpick' = [wpick EXCEPT ![w] = "NONE"]

(* What the other processes own; no dispatch step touches it. *)
elsewhere == <<sched, now, triggerVars, cpc, requestVars>>

-----------------------------------------------------------------------------
(* process() *)

TakeJob(w) ==
  /\ wpc[w] = "idle"
  /\ \E e \in queue :
       /\ e.at <= now
       /\ queue' = queue \ {e}
       /\ wjob' = [wjob EXCEPT ![w] = e.job]
       /\ Goto(w, IF e.job.name = "evaluate" THEN "evaluate" ELSE "read")
  /\ UNCHANGED <<tables, dead, stalledOnce, wtask, wseen, wpick, elsewhere,
                 history, bounds>>

CompleteJob(w) ==
  /\ wpc[w] = "done"
  /\ Release(w)
  /\ stalledOnce' = stalledOnce \ {wjob[w]}
  /\ UNCHANGED <<tables, queue, dead, elsewhere, history, bounds>>

(* A statement outside the per-contact callbacks throws: the job is failed. *)
FailJob(w) ==
  /\ Release(w)
  /\ dead' = dead \cup {wjob[w]}
  /\ stalledOnce' = stalledOnce \ {wjob[w]}
  /\ UNCHANGED <<tables, queue, elsewhere, history>>

JobThrows(w) ==
  /\ wpc[w] \notin {"idle", "done"}
  /\ wpc[w] = "sending" => AllSettled(w)
  /\ Fault
  /\ FailJob(w)

(* The process dies.  BullMQ finds the lock of the job expired. *)
WorkerDies(w) ==
  /\ wpc[w] # "idle"
  /\ Crash
  /\ Release(w)
  /\ IF wjob[w] \in stalledOnce
       THEN /\ dead' = dead \cup {wjob[w]}
            /\ stalledOnce' = stalledOnce \ {wjob[w]}
            /\ UNCHANGED queue
       ELSE /\ queue' = queue \cup {Entry(wjob[w], 0)}
            /\ stalledOnce' = stalledOnce \cup {wjob[w]}
            /\ UNCHANGED dead
  /\ UNCHANGED <<tables, elsewhere, history>>

-----------------------------------------------------------------------------
(* handleDispatch *)

ReadCampaign(w) ==
  /\ wpc[w] = "read"
  /\ Goto(w, IF status \in {"SENDING", "SCHEDULED"} THEN "select" ELSE "done")
  /\ UNCHANGED <<tables, dispatchQueue, wjob, wtask, wseen, wpick, elsewhere,
                 history, bounds>>

(* Mutants: the winner's job takes the sample too; a variant's job takes every
   variant; rows are not filtered by status. *)
MatchesSampleToo(j) ==
  {c \in Pending : j.variant = "NONE" \/ j.remaining \/ variant[c] = j.variant}
MatchesAnyVariant(j) == Pending
MatchesAnyStatus(j) ==
  {c \in Contacts :
     /\ send[c] # "ABSENT"
     /\ j.variant = "NONE" \/ variant[c] = IF j.remaining THEN "NONE" ELSE j.variant}

(* pendingWhere *)
Matches(j) ==
  {c \in Pending :
     j.variant = "NONE" \/ variant[c] = IF j.remaining THEN "NONE" ELSE j.variant}

(* Prisma turns `cursor` into the condition id >= cursor, adds it to `where`
   and applies `skip` to what is left.  The row of the cursor itself was
   handled by the previous chunk, so it is normally no longer PENDING and the
   row skipped is the next one. *)
Selectable(j) ==
  LET from == {c \in Matches(j) : c >= j.cursor}
  IN  IF j.cursor = 0 \/ from = {} THEN from ELSE from \ {Min(from)}

Chunk(j) ==
  {c \in Selectable(j) :
     Cardinality({d \in Selectable(j) : d <= c}) <= ChunkSize}

(* send.findMany, with the opt-out flag and the variant of each row. *)
SelectSends(w) ==
  LET chunk == Chunk(wjob[w]) IN
  /\ wpc[w] = "select"
  /\ Goto(w, IF chunk = {} THEN "countEmpty" ELSE "sending")
  /\ wtask' = [wtask EXCEPT ![w] =
       [c \in Contacts |-> IF c \notin chunk THEN "none"
                           ELSE IF optOut[c] THEN "optedOut" ELSE "todo"]]
  /\ wseen' = [wseen EXCEPT ![w] =
       [c \in Contacts |-> IF c \in chunk THEN variant[c] ELSE "NONE"]]
  /\ UNCHANGED <<tables, dispatchQueue, wjob, wpick, elsewhere, history, bounds>>

(* No send left for this job: the campaign is SENT if none is left at all. *)
CountWhenEmpty(w) ==
  /\ wpc[w] = "countEmpty"
  /\ Goto(w, IF Pending = {} THEN "markSentEmpty" ELSE "done")
  /\ UNCHANGED <<tables, dispatchQueue, wjob, wtask, wseen, wpick, elsewhere,
                 history, bounds>>

MarkSentWhenEmpty(w) ==
  /\ wpc[w] = "markSentEmpty"
  /\ SetStatusIfExists("SENT")
  /\ Goto(w, "done")
  /\ UNCHANGED <<sendRows, optOut, balance, dispatchQueue, wjob, wtask, wseen,
                 wpick, elsewhere, history, bounds>>

-----------------------------------------------------------------------------
(* One contact of the chunk *)

(* sendSms, sendWhatsApp, sendEmail: the provider takes the message or not,
   and the call throws or not.  SMS and WhatsApp swallow a permanent failure.
   A call can also throw after the provider took the message (a timeout); a
   contact without a usable address throws before. *)
HandToProvider(w, c) ==
  /\ wtask[w][c] = "todo"
  /\ \E taken, throws \in BOOLEAN :
       /\ taken \/ throws \/ Channel # "EMAIL"
       /\ c \notin Reachable => ~taken /\ throws
       /\ handed' = [handed EXCEPT ![c] = @ + IF taken THEN 1 ELSE 0]
       /\ SetTask(w, c, IF throws THEN "refused" ELSE "accepted")
  /\ UNCHANGED <<tables, dispatchQueue, wpc, wjob, wseen, wpick, elsewhere,
                 charged, bounds>>

(* Mutant: the remaining rows keep the variant they were read with. *)
WriteOutcomeAsRead(w, c, st) ==
  /\ send' = [send EXCEPT ![c] = st]
  /\ variant' = [variant EXCEPT ![c] = wseen[w][c]]

(* send.update of this contact's row; with `remaining` the row gets the
   winner, otherwise the variant it was read with. *)
WriteOutcome(w, c, st) ==
  /\ send' = [send EXCEPT ![c] = st]
  /\ variant' = [variant EXCEPT ![c] =
       IF wjob[w].remaining THEN wjob[w].variant ELSE wseen[w][c]]

(* A write of the callback, then the next step; a write that throws, or that
   finds no row, goes to `onThrow`. *)
CallbackWrite(w, c, from, st, next, onThrow) ==
  /\ wtask[w][c] = from
  /\ \/ /\ send[c] # "ABSENT"
        /\ WriteOutcome(w, c, st)
        /\ SetTask(w, c, next)
        /\ UNCHANGED bounds
     \/ /\ IF send[c] = "ABSENT" THEN UNCHANGED bounds ELSE Fault
        /\ SetTask(w, c, onThrow)
        /\ UNCHANGED sendRows
  /\ UNCHANGED <<campaignRow, optOut, balance, dispatchQueue, wpc, wjob, wseen,
                 wpick, elsewhere, history>>

(* Mutants: the send is not paid for; a contact that opted out is charged; it is
   counted as sent. *)
WriteSentForFree(w, c) == CallbackWrite(w, c, "accepted", "SENT", "ok", "refused")
ChargeUnsubscribed(w, c) ==
  CallbackWrite(w, c, "optedOut", "UNSUBSCRIBED", "charging", "refused")
CountUnsubscribedAsSent(w, c) ==
  CallbackWrite(w, c, "optedOut", "UNSUBSCRIBED", "ok", "refused")

WriteSent(w, c) == CallbackWrite(w, c, "accepted", "SENT", "charging", "refused")
WriteUnsubscribed(w, c) ==
  CallbackWrite(w, c, "optedOut", "UNSUBSCRIBED", "ko", "refused")
WriteBounced(w, c) == CallbackWrite(w, c, "refused", "BOUNCED", "ko", "ko")

(* Mutant: the update does not look at the balance. *)
ChargeWithoutCredit(w, c) ==
  /\ wtask[w][c] = "charging"
  /\ balance' = balance - UnitCost
  /\ charged' = [charged EXCEPT ![c] = @ + 1]
  /\ SetTask(w, c, "ok")
  /\ UNCHANGED <<campaignRow, sendRows, optOut, dispatchQueue, wpc, wjob, wseen,
                 wpick, elsewhere, handed, bounds>>

(* deductSendCredit: UPDATE ... WHERE creditBalance >= cost. *)
ChargeSend(w, c) ==
  /\ wtask[w][c] = "charging"
  /\ IF balance >= UnitCost
       THEN /\ balance' = balance - UnitCost
            /\ charged' = [charged EXCEPT ![c] = @ + 1]
       ELSE UNCHANGED <<balance, charged>>
  /\ SetTask(w, c, "ok")
  /\ UNCHANGED <<campaignRow, sendRows, optOut, dispatchQueue, wpc, wjob, wseen,
                 wpick, elsewhere, handed, bounds>>

(* Mutant: the update is done when the call throws. *)
ChargeThrowsAfterDebit(w, c) ==
  /\ wtask[w][c] = "charging"
  /\ balance >= UnitCost
  /\ Fault
  /\ balance' = balance - UnitCost
  /\ charged' = [charged EXCEPT ![c] = @ + 1]
  /\ SetTask(w, c, "refused")
  /\ UNCHANGED <<campaignRow, sendRows, optOut, dispatchQueue, wpc, wjob, wseen,
                 wpick, elsewhere, handed>>

(* The payment throws, and did not happen.  (One that is committed and whose
   answer is lost would leave a paid row BOUNCED; it is left out, as for every
   statement sent to the database.) *)
ChargeThrows(w, c) ==
  /\ wtask[w][c] = "charging"
  /\ Fault
  /\ SetTask(w, c, "refused")
  /\ UNCHANGED <<tables, dispatchQueue, wpc, wjob, wseen, wpick, elsewhere, history>>

-----------------------------------------------------------------------------
(* handleDispatch, after Promise.allSettled *)

UpdateCounters(w) ==
  /\ wpc[w] = "sending"
  /\ AllSettled(w)
  /\ IF Exists
       THEN /\ sentCount' = sentCount + Cardinality(TasksIn(w, {"ok"}))
            /\ failedCount' = failedCount + Cardinality(TasksIn(w, {"ko"}))
            /\ Goto(w, "count")
            /\ UNCHANGED <<status, scheduledAt, isAB, abWinner, sendRows, optOut,
                           balance, dispatchQueue, wjob, wtask, wseen, wpick,
                           elsewhere, history>>
       ELSE FailJob(w)
  /\ UNCHANGED bounds

(* Mutant: only the rows of the job's own variant are counted. *)
CountRemainingOfVariant(w) ==
  /\ wpc[w] = "count"
  /\ Goto(w, IF Matches(wjob[w]) = {} THEN "markSent" ELSE "chain")
  /\ UNCHANGED <<tables, dispatchQueue, wjob, wtask, wseen, wpick, elsewhere,
                 history, bounds>>

CountRemaining(w) ==
  /\ wpc[w] = "count"
  /\ Goto(w, IF Pending = {} THEN "markSent" ELSE "chain")
  /\ UNCHANGED <<tables, dispatchQueue, wjob, wtask, wseen, wpick, elsewhere,
                 history, bounds>>

MarkSent(w) ==
  /\ wpc[w] = "markSent"
  /\ SetStatusIfExists("SENT")
  /\ Goto(w, "chain")
  /\ UNCHANGED <<sendRows, optOut, balance, dispatchQueue, wjob, wtask, wseen,
                 wpick, elsewhere, history, bounds>>

(* A full chunk is followed by a job for the next one. *)
NextChunk(w) ==
  LET j == wjob[w] IN
  /\ wpc[w] = "chain"
  /\ IF Cardinality(ChunkOf(w)) = ChunkSize
       THEN Enqueue(Job("dispatch", j.variant, j.remaining, Max(ChunkOf(w)), "next"), 0)
       ELSE UNCHANGED dispatchQueue
  /\ Goto(w, "done")
  /\ UNCHANGED <<tables, wjob, wtask, wseen, wpick, elsewhere, history, bounds>>

-----------------------------------------------------------------------------
(* handleEvaluateABWinner *)

Sample(v) == {c \in Contacts : variant[c] = v /\ send[c] = "SENT"}

(* Click rate first, then open rate; B has to be strictly better, which it
   cannot be without a send. *)
PossibleWinners ==
  IF Sample("A") = {} /\ Sample("B") = {} THEN {}
  ELSE IF Sample("B") = {} THEN {"A"} ELSE Winners

(* Mutant: a winner that is stored already is chosen again. *)
EvaluateWinnerAgain(w) ==
  /\ wpc[w] = "evaluate"
  /\ IF Exists /\ isAB /\ PossibleWinners # {}
       THEN /\ \E v \in PossibleWinners : wpick' = [wpick EXCEPT ![w] = v]
            /\ Goto(w, "setWinner")
       ELSE Goto(w, "done") /\ UNCHANGED wpick
  /\ UNCHANGED <<tables, dispatchQueue, wjob, wtask, wseen, elsewhere, history, bounds>>

EvaluateWinner(w) ==
  /\ wpc[w] = "evaluate"
  /\ IF Exists /\ isAB /\ abWinner = "NONE" /\ PossibleWinners # {}
       THEN /\ \E v \in PossibleWinners : wpick' = [wpick EXCEPT ![w] = v]
            /\ Goto(w, "setWinner")
       ELSE Goto(w, "done") /\ UNCHANGED wpick
  /\ UNCHANGED <<tables, dispatchQueue, wjob, wtask, wseen, elsewhere, history, bounds>>

SetWinner(w) ==
  /\ wpc[w] = "setWinner"
  /\ IF Exists
       THEN /\ abWinner' = wpick[w]
            /\ Goto(w, "addWinner")
            /\ UNCHANGED <<status, scheduledAt, isAB, sentCount, failedCount, sendRows,
                           optOut, balance, dispatchQueue, wjob, wtask, wseen, wpick,
                           elsewhere, history>>
       ELSE FailJob(w)
  /\ UNCHANGED bounds

(* Mutant: the remaining contacts are looked for among the sends already done. *)
AddWinnerJobIfSent(w) ==
  /\ wpc[w] = "addWinner"
  /\ IF \E c \in Contacts : variant[c] = "NONE" /\ send[c] = "SENT"
       THEN Enqueue(WinnerJob(wpick[w], "winner"), 0)
       ELSE UNCHANGED dispatchQueue
  /\ Goto(w, "done")
  /\ UNCHANGED <<tables, wjob, wtask, wseen, wpick, elsewhere, history, bounds>>

(* The rows of ABTestResult are reports and are left out.  The remaining
   contacts are those no variant was chosen for. *)
AddWinnerJob(w) ==
  /\ wpc[w] = "addWinner"
  /\ IF \E c \in Pending : variant[c] = "NONE"
       THEN Enqueue(WinnerJob(wpick[w], "winner"), 0)
       ELSE UNCHANGED dispatchQueue
  /\ Goto(w, "done")
  /\ UNCHANGED <<tables, wjob, wtask, wseen, wpick, elsewhere, history, bounds>>

-----------------------------------------------------------------------------

ContactStep(w, c) ==
  \/ HandToProvider(w, c)
  \/ WriteSent(w, c)
  \/ WriteUnsubscribed(w, c)
  \/ WriteBounced(w, c)
  \/ ChargeSend(w, c)
  \/ ChargeThrows(w, c)

DispatchStep(w) ==
  \/ ReadCampaign(w) \/ SelectSends(w)
  \/ CountWhenEmpty(w) \/ MarkSentWhenEmpty(w)
  \/ UpdateCounters(w) \/ CountRemaining(w) \/ MarkSent(w) \/ NextChunk(w)
  \/ EvaluateWinner(w) \/ SetWinner(w) \/ AddWinnerJob(w)
  \/ CompleteJob(w)
  \/ \E c \in Contacts : ContactStep(w, c)

DispatchNext ==
  \E w \in Workers :
    TakeJob(w) \/ DispatchStep(w) \/ JobThrows(w) \/ WorkerDies(w)

=============================================================================
