------------------------------ MODULE CampaignApi ------------------------------
(***************************************************************************)
(* The HTTP operations on a campaign (campaigns/campaigns.service.ts) that *)
(* change its status, its sends or its jobs.  Each starts with the reads   *)
(* that decide whether it may proceed, remembers in req[r] what it needs,  *)
(* and writes in later steps; nothing is done in a transaction.            *)
(***************************************************************************)
EXTENDS CampaignSchedule, CampaignDispatch

RequestPC ==
  {"idle", "createSends", "setSending", "enqueue", "enqueueSched", "cancel",
   "removeJob", "delete", "draft", "addSched", "setScheduled", "setWinner", "addWinner"}
Request ==
  [when : Nat \cup {Never}, who : SUBSET Contacts, seen : CampaignStatus,
   pick : SendVariant, adds : Seq(JobAdd)]

(* when: the date asked for; who: the contacts of the segment; seen: the status
   read; pick: the A/B winner; adds: the jobs left to add. *)
NoReq == [when |-> Never, who |-> {}, seen |-> "DRAFT", pick |-> "NONE", adds |-> <<>>]

(* What the other processes own. *)
outside == <<isAB, optOut, balance, now, cpc, triggerVars, workerVars, history>>
keepTables == <<campaignRow, sendRows>>
keepQueues == <<dispatchQueue, sched>>

(* A request of client r starts and remembers q, at most MaxRequests in all. *)
Begin(r, pc, q) ==
  /\ rpc[r] = "idle"
  /\ requests < MaxRequests
  /\ requests' = requests + 1
  /\ rpc' = [rpc EXCEPT ![r] = pc]
  /\ req' = [req EXCEPT ![r] = q]
  /\ UNCHANGED <<keepTables, keepQueues, outside, faults, crashes>>

Return(r) == rpc' = [rpc EXCEPT ![r] = "idle"] /\ req' = [req EXCEPT ![r] = NoReq]
Continue(r, pc) == rpc' = [rpc EXCEPT ![r] = pc] /\ UNCHANGED req

(* A call throws, or the process dies: the request ends where it is. *)
RequestFails(r) ==
  /\ rpc[r] # "idle"
  /\ Fault
  /\ Return(r)
  /\ UNCHANGED <<keepTables, keepQueues, outside>>

-----------------------------------------------------------------------------
(* sendCampaign *)

EstimatedTotal(n) == n * Parts * UnitCost

(* The reads: the campaign, the contacts of its segment, the balance.  Only a
   static segment leaves out contacts that opted out.  The status is not
   looked at, and no credit is set aside. *)
SendStart(r) ==
  \E segment \in Segments, when \in Dates \cup {Never}, static \in BOOLEAN :
    LET contacts == {c \in segment : ~(static /\ optOut[c])}
        who == IF Channel = "SMS" THEN contacts \cap Reachable ELSE contacts
    IN  /\ Exists
        /\ who # {}
        /\ balance >= EstimatedTotal(Cardinality(contacts))
        /\ Begin(r, "createSends", [NoReq EXCEPT !.when = when, !.who = who])

SampleSize(n) ==
  LET share == (n * (IF SamplePct = 0 THEN 50 ELSE SamplePct)) \div 100
      atLeastTwo == IF share < 2 THEN 2 ELSE share
  IN  IF atLeastTwo < n THEN atLeastTwo ELSE n
SplitA(n) == SampleSize(n) \div 2

(* Which contacts get A and which B, after the shuffle. *)
Splits(who) ==
  LET n == Cardinality(who)
  IN  IF ~isAB THEN {<<{}, {}>>}
      ELSE {s \in (SUBSET who) \X (SUBSET who) :
              /\ s[1] \cap s[2] = {}
              /\ Cardinality(s[1]) = SplitA(n)
              /\ Cardinality(s[2]) = SampleSize(n) - SplitA(n)}

(* send.createMany: all rows or none.  It throws on a pair that exists and on
   a deleted campaign.  (creditUsage.create follows; it is a report.) *)
CreateSends(r) ==
  LET who == req[r].who IN
  /\ rpc[r] = "createSends"
  /\ IF Exists /\ \A c \in who : send[c] = "ABSENT"
       THEN \E s \in Splits(who) :
              /\ send' = [c \in Contacts |-> IF c \in who THEN "PENDING" ELSE send[c]]
              /\ variant' = [c \in Contacts |-> IF c \notin who THEN variant[c]
                               ELSE IF c \in s[1] THEN "A"
                               ELSE IF c \in s[2] THEN "B" ELSE "NONE"]
              /\ Continue(r, "setSending")
       ELSE Return(r) /\ UNCHANGED sendRows
  /\ UNCHANGED <<campaignRow, keepQueues, outside, bounds>>

FirstJobs(q) ==
  LET n == Cardinality(q.who)
  IN  IF q.when # Never THEN <<>>
      ELSE IF isAB THEN StartAB((IF SplitA(n) > 0 THEN {"A"} ELSE {}) \cup {"B"}, "initial")
      ELSE <<Add(PlainJob("default"), 0)>>

SetSending(r) ==
  /\ rpc[r] = "setSending"
  /\ IF Exists
       THEN /\ status' = IF req[r].when = Never THEN "SENDING" ELSE "SCHEDULED"
            /\ scheduledAt' = req[r].when
            /\ sentCount' = 0 /\ failedCount' = 0 /\ abWinner' = "NONE"
            /\ rpc' = [rpc EXCEPT ![r] = IF req[r].when = Never THEN "enqueue"
                                         ELSE "enqueueSched"]
            /\ req' = [req EXCEPT ![r].adds = FirstJobs(req[r])]
       ELSE Return(r) /\ UNCHANGED <<status, scheduledAt, sentCount, failedCount, abWinner>>
  /\ UNCHANGED <<sendRows, keepQueues, outside, bounds>>

EnqueueFirst(r) ==
  /\ rpc[r] = "enqueue"
  /\ Enqueue(Head(req[r].adds).job, Head(req[r].adds).delay)
  /\ IF Len(req[r].adds) = 1
       THEN Return(r)
       ELSE req' = [req EXCEPT ![r].adds = Tail(@)] /\ UNCHANGED rpc
  /\ UNCHANGED <<keepTables, sched, outside, bounds>>

(* Added without removeOnComplete. *)
EnqueueTrigger(r) ==
  /\ rpc[r] = "enqueueSched"
  /\ EnqueueSched(Max({req[r].when, now}), TRUE)
  /\ Return(r)
  /\ UNCHANGED <<keepTables, dispatchQueue, outside, bounds>>

-----------------------------------------------------------------------------
(* cancelCampaign, cancelScheduled *)

CancelStart(r) ==
  /\ status \in {"DRAFT", "SCHEDULED"}
  /\ Begin(r, "cancel", [NoReq EXCEPT !.seen = status])

CancelScheduledStart(r) ==
  /\ Exists
  /\ scheduledAt # Never /\ scheduledAt - now >= CancelMargin
  /\ Begin(r, "cancel", [NoReq EXCEPT !.seen = "SCHEDULED"])

CancelWrite(r) ==
  /\ rpc[r] = "cancel"
  /\ SetStatusIfExists("CANCELLED")
  /\ IF Exists /\ req[r].seen = "SCHEDULED" THEN Continue(r, "removeJob") ELSE Return(r)
  /\ UNCHANGED <<sendRows, keepQueues, optOut, balance, now, cpc, triggerVars, workerVars,
                 history, bounds>>

CancelRemoveJob(r) ==
  /\ rpc[r] = "removeJob"
  /\ RemoveSched
  /\ Return(r)
  /\ UNCHANGED <<keepTables, dispatchQueue, outside, bounds>>

-----------------------------------------------------------------------------
(* deleteCampaign: the sends go with the campaign (onDelete: Cascade). *)

DeleteStart(r) ==
  /\ Exists /\ status \notin {"SENT", "SENDING"}
  /\ Begin(r, "delete", NoReq)

DeleteWrite(r) ==
  /\ rpc[r] = "delete"
  /\ SetStatus("DELETED")
  /\ send' = [c \in Contacts |-> "ABSENT"]
  /\ variant' = [c \in Contacts |-> "NONE"]
  /\ Return(r)
  /\ UNCHANGED <<keepQueues, optOut, balance, now, cpc, triggerVars, workerVars,
                 history, bounds>>

-----------------------------------------------------------------------------
(* saveDraft: DRAFT or AUTOMATION, SCHEDULED with a date; whatever the status
   was, and without a job. *)

DraftStart(r) ==
  \E when \in Dates \cup {Never}, asked \in {"DRAFT", "AUTOMATION"} :
    /\ Exists
    /\ when = Never \/ when > now
    /\ Begin(r, "draft",
             [NoReq EXCEPT !.when = when,
                           !.seen = IF when = Never THEN asked ELSE "SCHEDULED"])

DraftWrite(r) ==
  /\ rpc[r] = "draft"
  /\ status' = IF Exists THEN req[r].seen ELSE status
  /\ scheduledAt' = IF Exists /\ req[r].when # Never THEN req[r].when ELSE scheduledAt
  /\ Return(r)
  /\ UNCHANGED <<abWinner, sentCount, failedCount, sendRows, keepQueues, outside, bounds>>

-----------------------------------------------------------------------------
(* update with a date: the job first, then the row. *)

RescheduleStart(r) ==
  \E when \in Dates :
    /\ Exists
    /\ when > now
    /\ Begin(r, "addSched", [NoReq EXCEPT !.when = when])

(* An error of the queue is only logged. *)
RescheduleAdd(r) ==
  /\ rpc[r] = "addSched"
  /\ \/ EnqueueSched(Max({req[r].when, now}), FALSE) /\ UNCHANGED bounds
     \/ Fault /\ UNCHANGED sched
  /\ Continue(r, "setScheduled")
  /\ UNCHANGED <<keepTables, dispatchQueue, outside>>

RescheduleWrite(r) ==
  /\ rpc[r] = "setScheduled"
  /\ status' = IF Exists THEN "SCHEDULED" ELSE status
  /\ scheduledAt' = IF Exists THEN req[r].when ELSE scheduledAt
  /\ Return(r)
  /\ UNCHANGED <<abWinner, sentCount, failedCount, sendRows, keepQueues, outside, bounds>>

-----------------------------------------------------------------------------
(* evaluateABWinner on request: the open rate alone, over all the sends of a
   variant; B can only win if one of its messages was opened. *)

EvaluateStart(r) ==
  \E v \in Winners :
    /\ Exists /\ isAB /\ abWinner = "NONE"
    /\ v = "B" => \E c \in Contacts : variant[c] = "B" /\ handed[c] > 0
    /\ Begin(r, "setWinner", [NoReq EXCEPT !.pick = v])

EvaluateWrite(r) ==
  /\ rpc[r] = "setWinner"
  /\ abWinner' = IF Exists THEN req[r].pick ELSE abWinner
  /\ IF Exists THEN Continue(r, "addWinner") ELSE Return(r)
  /\ UNCHANGED <<status, scheduledAt, sentCount, failedCount, sendRows, keepQueues,
                 outside, bounds>>

(* The job has no jobId of ours. *)
EvaluateAddJob(r) ==
  /\ rpc[r] = "addWinner"
  /\ EnqueueNew(WinnerJob(req[r].pick, r), 0)
  /\ Return(r)
  /\ UNCHANGED <<keepTables, sched, outside, bounds>>

-----------------------------------------------------------------------------

Asked(op) == op \in Operations

RequestStart(r) ==
  \/ Asked("send") /\ SendStart(r)
  \/ Asked("cancel") /\ CancelStart(r)
  \/ Asked("cancelScheduled") /\ CancelScheduledStart(r)
  \/ Asked("delete") /\ DeleteStart(r)
  \/ Asked("saveDraft") /\ DraftStart(r)
  \/ Asked("update") /\ RescheduleStart(r)
  \/ Asked("evaluate") /\ EvaluateStart(r)

RequestStep(r) ==
  \/ CreateSends(r) \/ SetSending(r) \/ EnqueueFirst(r) \/ EnqueueTrigger(r)
  \/ CancelWrite(r) \/ CancelRemoveJob(r)
  \/ DeleteWrite(r) \/ DraftWrite(r)
  \/ RescheduleAdd(r) \/ RescheduleWrite(r)
  \/ EvaluateWrite(r) \/ EvaluateAddJob(r)

ApiNext == \E r \in Clients : RequestStart(r) \/ RequestStep(r) \/ RequestFails(r)

=============================================================================
