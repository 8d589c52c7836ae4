---------------------------- MODULE CampaignSystem ----------------------------
(***************************************************************************)
(* The campaign subsystem: requests, the schedule queue, the cron, the     *)
(* dispatch queue and its workers, over the tables they share.             *)
(***************************************************************************)
EXTENDS CampaignApi

vars == <<tables, dispatchQueue, sched, now, workerVars, triggerVars, cpc,
          requestVars, history, bounds>>

(* create(): a draft, or a campaign SCHEDULED at a date with its job; the job
   may be missing, since an error of the queue is only logged. *)
Created ==
  \/ /\ status = "DRAFT" /\ scheduledAt = Never /\ sched = NoSched
  \/ \E d \in Dates :
       /\ d > 0
       /\ status = "SCHEDULED" /\ scheduledAt = d
       /\ sched \in {NoSched, SchedJob("queued", d, FALSE, FALSE)}

Init ==
  /\ Created
  /\ isAB \in ABKinds
  /\ abWinner = "NONE" /\ sentCount = 0 /\ failedCount = 0
  /\ send = [c \in Contacts |-> "ABSENT"]
  /\ variant = NoVariants
  /\ optOut \in {f \in [Contacts -> BOOLEAN] : \A c \in Contacts \ Leavers : ~f[c]}
  /\ balance \in Credits
  /\ queue = {} /\ dead = {} /\ stalledOnce = {}
  /\ now = 0
  /\ wpc = [w \in Workers |-> "idle"]
  /\ wjob = [w \in Workers |-> NoJob]
  /\ wtask = [w \in Workers |-> NoTasks]
  /\ wseen = [w \in Workers |-> NoVariants]
  /\ wpick = [w \in Workers |-> "NONE"]
  /\ tpc = "idle" /\ tadd = <<>>
  /\ cpc = [i \in Crons |-> "idle"]
  /\ rpc = [r \in Clients |-> "idle"]
  /\ req = [r \in Clients |-> NoReq]
  /\ handed = [c \in Contacts |-> 0]
  /\ charged = [c \in Contacts |-> 0]
  /\ requests = 0 /\ faults = 0 /\ crashes = 0

(* A contact withdraws its consent (contacts.service.ts, and the unsubscribe
   link and STOP messages, which set the same flag). *)
OptOut(c) ==
  /\ ~optOut[c]
  /\ optOut' = [optOut EXCEPT ![c] = TRUE]
  /\ UNCHANGED <<campaignRow, sendRows, balance, dispatchQueue, sched, now,
                 workerVars, triggerVars, cpc, requestVars, history, bounds>>

(* The credit belongs to the account, and its other campaigns use it up. *)
SpendElsewhere ==
  /\ OthersSpend
  /\ balance >= UnitCost
  /\ balance' = 0
  /\ UNCHANGED <<campaignRow, sendRows, optOut, dispatchQueue, sched, now,
                 workerVars, triggerVars, cpc, requestVars, history, bounds>>

Tick ==
  /\ now < MaxTime
  /\ now' = now + 1
  /\ UNCHANGED <<tables, dispatchQueue, sched, workerVars, triggerVars, cpc,
                 requestVars, history, bounds>>

Next ==
  \/ DispatchNext
  \/ ScheduleNext
  \/ ApiNext
  \/ \E c \in Leavers : OptOut(c)
  \/ SpendElsewhere
  \/ Tick

Spec == Init /\ [][Next]_vars

(* Workers and crons that are alive take the next step of what they do, BullMQ
   hands out due jobs, requests run to their end, and time passes.  Nothing is
   assumed of clients, contacts, providers, faults and crashes. *)
Fairness ==
  /\ \A w \in Workers : WF_vars(TakeJob(w)) /\ WF_vars(DispatchStep(w))
  /\ WF_vars(TakeTrigger) /\ WF_vars(TriggerStep)
  /\ \A i \in Crons : WF_vars(CronStep(i))
  /\ \A r \in Clients : WF_vars(RequestStep(r))
  /\ WF_vars(Tick)

FairSpec == Spec /\ Fairness

=============================================================================
