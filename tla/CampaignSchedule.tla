--------------------------- MODULE CampaignSchedule ---------------------------
(***************************************************************************)
(* What starts a scheduled campaign:                                       *)
(*   - CampaignScheduleProcessor (queues/campaign.schedule.queue.ts), the  *)
(*     worker of campaign-schedule, runs the job `sched-<campaign>`;       *)
(*   - CampaignScheduleWorker (queues/campaign.schedule.worker.ts), a cron *)
(*     of every minute in every backend process, catches up with campaigns *)
(*     that are still SCHEDULED after their date.                          *)
(***************************************************************************)
EXTENDS CampaignStore

TriggerPC ==
  {"idle", "read", "clean", "defer", "credit", "setFailed", "setSending", "count",
   "add", "done"}
CronPC == {"idle", "credit", "add", "mark", "fail"}
JobAdd == [job : DispatchJob, delay : Nat]

(* What the other processes own. *)
besides == <<sendRows, optOut, balance, now, workerVars, requestVars, history>>

-----------------------------------------------------------------------------
(* handleTrigger *)

TriggerGoto(pc) == tpc' = pc /\ UNCHANGED tadd

TakeTrigger ==
  /\ tpc = "idle"
  /\ sched.st = "queued" /\ sched.at <= now
  /\ sched' = [sched EXCEPT !.st = "active"]
  /\ TriggerGoto("read")
  /\ UNCHANGED <<campaignRow, dispatchQueue, cpc, besides, bounds>>

TriggerRead ==
  /\ tpc = "read"
  /\ TriggerGoto(CASE ~Exists             -> "done"
                   [] status = "CANCELLED" -> "clean"
                   [] now \in QuietHours   -> "defer"
                   [] OTHER                -> "credit")
  /\ UNCHANGED <<campaignRow, dispatchQueue, sched, cpc, besides, bounds>>

(* dispatchQueue.clean(0, 1000, 'delayed'): every delayed job, whatever its
   campaign. *)
CleanDelayed ==
  /\ tpc = "clean"
  /\ queue' = {e \in queue : e.at <= now}
  /\ TriggerGoto("done")
  /\ UNCHANGED <<campaignRow, dead, stalledOnce, sched, cpc, besides, bounds>>

(* The trigger is put off, on the dispatch queue: what handles that job is
   handleDispatch.  Its id ends with the time, so it is always new. *)
DeferTrigger ==
  /\ tpc = "defer"
  /\ EnqueueNew(Job("reschedule", "NONE", FALSE, 0, "quiet"), QuietDelay)
  /\ TriggerGoto("done")
  /\ UNCHANGED <<campaignRow, sched, cpc, besides, bounds>>

(* Mutant: a balance that is just enough is refused. *)
TriggerCheckMoreCredit ==
  /\ tpc = "credit"
  /\ TriggerGoto(IF balance <= EstimatedCost THEN "setFailed" ELSE "setSending")
  /\ UNCHANGED <<campaignRow, dispatchQueue, sched, cpc, besides, bounds>>

TriggerCheckCredit ==
  /\ tpc = "credit"
  /\ TriggerGoto(IF balance < EstimatedCost THEN "setFailed" ELSE "setSending")
  /\ UNCHANGED <<campaignRow, dispatchQueue, sched, cpc, besides, bounds>>

(* campaign.update, which throws when the campaign was deleted. *)
TriggerUpdate(from, st, next) ==
  /\ tpc = from
  /\ IF Exists
       THEN SetStatus(st) /\ TriggerGoto(next) /\ UNCHANGED sched
       ELSE TriggerGoto("idle") /\ sched' = KeptSched /\ UNCHANGED campaignRow
  /\ UNCHANGED <<dispatchQueue, cpc, besides, bounds>>

TriggerFailed == TriggerUpdate("setFailed", "FAILED", "done")
TriggerSending == TriggerUpdate("setSending", "SENDING", "count")

Add(j, delay) == [job |-> j, delay |-> delay]
SampleJob(v, tag) == Job("dispatch", v, FALSE, 0, tag)
PlainJob(tag) == Job("dispatch", "NONE", FALSE, 0, tag)

(* The jobs an A/B campaign starts with: one per variant that has sends, and
   the evaluation. *)
StartAB(variants, tag) ==
  LET one(v) == IF v \in variants THEN <<Add(SampleJob(v, tag), 0)>> ELSE <<>>
  IN  one("A") \o one("B") \o <<Add(EvaluateJob, EvaluateDelay)>>

TriggerCount ==
  /\ tpc = "count"
  /\ tpc' = "add"
  /\ tadd' = IF isAB
               THEN StartAB({variant[c] : c \in Pending}, "scheduled")
               ELSE <<Add(PlainJob("scheduled"), 0)>>
  /\ UNCHANGED <<campaignRow, dispatchQueue, sched, cpc, besides, bounds>>

TriggerAdd ==
  /\ tpc = "add"
  /\ Enqueue(Head(tadd).job, Head(tadd).delay)
  /\ tadd' = Tail(tadd)
  /\ tpc' = IF Len(tadd) = 1 THEN "done" ELSE "add"
  /\ UNCHANGED <<campaignRow, sched, cpc, besides, bounds>>

CompleteTrigger ==
  /\ tpc = "done"
  /\ sched' = IF sched.keep THEN KeptSched ELSE NoSched
  /\ TriggerGoto("idle")
  /\ UNCHANGED <<campaignRow, dispatchQueue, cpc, besides, bounds>>

TriggerThrows ==
  /\ tpc \notin {"idle", "clean", "done"}
  /\ Fault
  /\ sched' = KeptSched
  /\ tpc' = "idle" /\ tadd' = <<>>
  /\ UNCHANGED <<campaignRow, dispatchQueue, cpc, besides>>

TriggerDies ==
  /\ tpc # "idle"
  /\ Crash
  /\ sched' = IF sched.stalled THEN KeptSched
              ELSE SchedJob("queued", now, sched.keep, TRUE)
  /\ tpc' = "idle" /\ tadd' = <<>>
  /\ UNCHANGED <<campaignRow, dispatchQueue, cpc, besides>>

TriggerStep ==
  \/ TriggerRead \/ CleanDelayed \/ DeferTrigger \/ TriggerCheckCredit
  \/ TriggerFailed \/ TriggerSending \/ TriggerCount \/ TriggerAdd
  \/ CompleteTrigger

-----------------------------------------------------------------------------
(* handleScheduledCampaigns *)

CronGoto(i, pc) == cpc' = [cpc EXCEPT ![i] = pc]

(* Mutant: only the campaigns of this very minute are read. *)
CronReadOnTime(i) ==
  /\ cpc[i] = "idle"
  /\ status = "SCHEDULED" /\ scheduledAt = now
  /\ CronGoto(i, "credit")
  /\ UNCHANGED <<campaignRow, dispatchQueue, sched, triggerVars, besides, bounds>>

CronRead(i) ==
  /\ cpc[i] = "idle"
  /\ status = "SCHEDULED" /\ scheduledAt # Never /\ scheduledAt <= now
  /\ CronGoto(i, "credit")
  /\ UNCHANGED <<campaignRow, dispatchQueue, sched, triggerVars, besides, bounds>>

(* `creditBalance < estimatedCost` on two Decimal objects: JavaScript asks
   each for its primitive value, Decimal answers with its decimal text, and
   two texts are compared character by character. *)
Digits[n \in Nat] ==
  IF n < 10 THEN <<n>> ELSE Append(Digits[n \div 10], n % 10)

TextLess(m, n) ==
  LET a == Digits[m]
      b == Digits[n]
  IN  \E k \in 0..Len(a) :
        /\ k < Len(b)
        /\ \A i \in 1..k : a[i] = b[i]
        /\ k = Len(a) \/ a[k + 1] < b[k + 1]

CronCheckCredit(i) ==
  /\ cpc[i] = "credit"
  /\ CronGoto(i, IF TextLess(balance, EstimatedCost) THEN "fail" ELSE "add")
  /\ UNCHANGED <<campaignRow, dispatchQueue, sched, triggerVars, besides, bounds>>

CronAdd(i) ==
  /\ cpc[i] = "add"
  /\ EnqueueSched(now, FALSE)
  /\ CronGoto(i, "mark")
  /\ UNCHANGED <<campaignRow, dispatchQueue, triggerVars, besides, bounds>>

(* The write that ends the campaign's turn: SENDING, or FAILED.  On a deleted
   campaign it throws, and so does the write of the catch clause. *)
CronWrite(i, from, st) ==
  /\ cpc[i] = from
  /\ SetStatusIfExists(st)
  /\ CronGoto(i, "idle")
  /\ UNCHANGED <<dispatchQueue, sched, triggerVars, besides, bounds>>

CronMark(i) == CronWrite(i, "mark", "SENDING")
CronFail(i) == CronWrite(i, "fail", "FAILED")

(* A call throws: the catch clause writes FAILED, unless it is its own write
   that throws. *)
CronThrows(i) ==
  /\ cpc[i] # "idle"
  /\ Fault
  /\ \/ CronGoto(i, "fail")
     \/ cpc[i] = "fail" /\ CronGoto(i, "idle")
  /\ UNCHANGED <<campaignRow, dispatchQueue, sched, triggerVars, besides>>

CronDies(i) ==
  /\ cpc[i] # "idle"
  /\ Crash
  /\ CronGoto(i, "idle")
  /\ UNCHANGED <<campaignRow, dispatchQueue, sched, triggerVars, besides>>

CronStep(i) == CronRead(i) \/ CronCheckCredit(i) \/ CronAdd(i) \/ CronMark(i) \/ CronFail(i)

-----------------------------------------------------------------------------

ScheduleNext ==
  \/ TakeTrigger \/ TriggerStep \/ TriggerThrows \/ TriggerDies
  \/ \E i \in Crons : CronStep(i) \/ CronThrows(i) \/ CronDies(i)

=============================================================================
