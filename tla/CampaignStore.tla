---------------------------- MODULE CampaignStore ----------------------------
(***************************************************************************)
(* What the campaign subsystem stores, and who works on it.                *)
(*                                                                         *)
(*   - PostgreSQL (prisma/schema.prisma): one Campaign row, its Send rows, *)
(*     the opt-out flags of its contacts, the credit of its account;       *)
(*   - Redis (BullMQ): the queues campaign-schedule and campaign-dispatch; *)
(*   - the processes: workers of campaign-dispatch, the worker of          *)
(*     campaign-schedule, the every-minute cron of each backend process,   *)
(*     and the HTTP requests being served.                                 *)
(*                                                                         *)
(* A process is a program counter with what its handler remembers between  *)
(* two awaits.  One action is the code between two awaits that matter:     *)
(* each statement sent to the database or to Redis is atomic, and nothing  *)
(* larger is.  The handlers are in CampaignDispatch, CampaignSchedule and  *)
(* CampaignApi; CampaignSystem composes them.                              *)
(*                                                                         *)
(* One campaign is modelled.  A Send row is named by its contact (the pair *)
(* is unique), and contacts are numbered in the order of their rows' ids,  *)
(* which is the order dispatching reads them in.                           *)
(***************************************************************************)
EXTENDS Integers, FiniteSets, Sequences, FiniteSetsExt

CONSTANTS
  Contacts,       \* contacts of the account, numbered by the order of their Send ids
  Workers,        \* concurrent executions of campaign-dispatch jobs
  Clients,        \* concurrent HTTP requests on the campaign
  Crons,          \* backend processes, each running the every-minute cron
  ChunkSize,      \* Send rows one dispatch job handles (500 in the code)
  Channel,        \* "EMAIL", "SMS" or "WHATSAPP"
  UnitCost,       \* calculateSendCost(channel, 1, '').total
  Parts,          \* SMS parts of the message, 1 on the other channels
  Segments,       \* what the campaign's segment may contain when it is resolved
  Reachable,      \* contacts with a usable phone number or e-mail address
  EstimatedCost,  \* Campaign.estimatedCost, set by the client that drafts it
  Credits,        \* the balances the account may start with
  QuietHours,     \* the instants when getUTCHours() is in [22, 24) or [0, 8)
  QuietDelay,     \* how long a trigger is put off in quiet hours (30 min)
  EvaluateDelay,  \* abTestDuration, before an A/B winner is looked for
  CancelMargin,   \* minCancelableDelayMs of cancelScheduled (5 min)
  SamplePct,      \* abSplitPct, the share of contacts in the A/B sample
  \* What the environment does, and how often.
  ABKinds,        \* whether the campaign may be an A/B test
  Operations,     \* the HTTP operations clients call
  Dates,          \* the dates they ask for
  Leavers,        \* contacts that may opt out
  OthersSpend,    \* whether other campaigns of the account use up its credit
  MaxTime,        \* the last instant
  MaxRequests,    \* HTTP requests in a behaviour
  MaxFaults,      \* database, Redis or provider calls that throw
  MaxCrashes,     \* processes that die
  MaxFailures     \* the two together

ASSUME ContactsAssumption ==
  IsFiniteSet(Contacts) /\ Contacts \subseteq Nat \ {0}
ASSUME SizesAssumption ==
  /\ ChunkSize \in Nat \ {0}
  /\ UnitCost \in Nat /\ Parts \in Nat \ {0} /\ EstimatedCost \in Nat /\ Credits \subseteq Nat
  /\ QuietHours \subseteq Nat /\ QuietDelay \in Nat
  /\ EvaluateDelay \in Nat /\ CancelMargin \in Nat /\ SamplePct \in 0..100
  /\ {MaxTime, MaxRequests, MaxFaults, MaxCrashes, MaxFailures} \subseteq Nat
ASSUME SegmentsAssumption ==
  Segments \subseteq SUBSET Contacts /\ Reachable \subseteq Contacts
ASSUME EnvironmentAssumption ==
  /\ ABKinds \subseteq BOOLEAN /\ Dates \subseteq Nat
  /\ Leavers \subseteq Contacts /\ OthersSpend \in BOOLEAN
ASSUME ChannelAssumption == Channel \in {"EMAIL", "SMS", "WHATSAPP"}

VARIABLES
  status,       \* Campaign.status, "DELETED" once the row is gone
  scheduledAt,  \* Campaign.scheduledAt, Never when null
  isAB,         \* Campaign.subjectB is set
  abWinner,     \* Campaign.abWinner, "NONE" when null
  sentCount, failedCount,
  send,         \* contact -> status of its Send row, "ABSENT" without a row
  variant,      \* contact -> variant of its Send row
  optOut,       \* contact -> Contact.optOut
  balance,      \* Account.creditBalance
  queue,        \* waiting and delayed jobs of campaign-dispatch
  dead,         \* its failed jobs: BullMQ keeps them, and their ids
  stalledOnce,  \* its jobs whose worker died once
  sched,        \* the job `sched-<campaign>` of campaign-schedule
  now,
  wpc, wjob, wtask, wseen, wpick,    \* per dispatch worker
  tpc, tadd,                         \* the campaign-schedule worker
  cpc,                               \* per cron
  rpc, req,                          \* per request
  handed,       \* contact -> messages a provider accepted for it
  charged,      \* contact -> times its send was paid for
  requests, faults, crashes          \* how much of the bounds is used

campaignRow == <<status, scheduledAt, isAB, abWinner, sentCount, failedCount>>
sendRows == <<send, variant>>
dispatchQueue == <<queue, dead, stalledOnce>>
workerVars == <<wpc, wjob, wtask, wseen, wpick>>
triggerVars == <<tpc, tadd>>
requestVars == <<rpc, req>>
tables == <<campaignRow, sendRows, optOut, balance>>
history == <<handed, charged>>
bounds == <<requests, faults, crashes>>

-----------------------------------------------------------------------------
(* Types *)

Never == -1
CampaignStatus ==
  {"DRAFT", "SCHEDULED", "SENDING", "SENT", "CANCELLED", "FAILED", "AUTOMATION"}
SendStatus == {"PENDING", "SENT", "BOUNCED", "UNSUBSCRIBED"}
SendVariant == {"A", "B", "NONE"}
Winners == {"A", "B"}

(* A job of campaign-dispatch: its name, the variant, remainingContacts and
   cursor of its data ("NONE", FALSE and 0 when absent), and the part of its
   jobId that tells it from another job with the same data. *)
Tags == {"default", "initial", "scheduled", "next", "evaluate", "winner", "quiet"}
DispatchJob ==
  [name : {"dispatch", "evaluate", "winner", "reschedule"}, variant : SendVariant,
   remaining : BOOLEAN, cursor : Contacts \cup {0}, tag : Tags \cup Clients]

Job(name, v, remaining, cursor, tag) ==
  [name |-> name, variant |-> v, remaining |-> remaining,
   cursor |-> cursor, tag |-> tag]

EvaluateJob == Job("evaluate", "NONE", FALSE, 0, "evaluate")
WinnerJob(v, tag) == Job("winner", v, TRUE, 0, tag)
NoJob == Job("dispatch", "NONE", FALSE, 0, "none")

-----------------------------------------------------------------------------
(* Something outside the code goes wrong, as often as the bounds allow. *)

MayFail == faults + crashes < MaxFailures
Fault ==
  MayFail /\ faults < MaxFaults /\ faults' = faults + 1 /\ UNCHANGED <<requests, crashes>>
Crash ==
  MayFail /\ crashes < MaxCrashes /\ crashes' = crashes + 1 /\ UNCHANGED <<requests, faults>>

-----------------------------------------------------------------------------
(* Tables *)

Exists == status # "DELETED"
Pending == {c \in Contacts : send[c] = "PENDING"}

(* prisma.campaign.update of one column: it throws when the row is gone, and
   callers guard it with Exists. *)
SetStatus(s) ==
  /\ status' = s
  /\ UNCHANGED <<scheduledAt, isAB, abWinner, sentCount, failedCount>>

(* prisma.campaign.updateMany never throws. *)
SetStatusIfExists(s) == SetStatus(IF Exists THEN s ELSE status)

-----------------------------------------------------------------------------
(* Queues *)

(* BullMQ ignores an add whose jobId it already knows: waiting, delayed,
   active, or failed and kept. *)
Known(j) ==
  \/ \E e \in queue : e.job = j
  \/ j \in dead
  \/ \E w \in Workers : wjob[w] = j

Entry(j, delay) == [job |-> j, at |-> now + delay]

Enqueue(j, delay) ==
  /\ queue' = IF Known(j) THEN queue ELSE queue \cup {Entry(j, delay)}
  /\ UNCHANGED <<dead, stalledOnce>>

(* BullMQ: a job added with an id of its own is always new. *)
EnqueueNew(j, delay) ==
  /\ queue' = queue \cup {Entry(j, delay)}
  /\ UNCHANGED <<dead, stalledOnce>>

(* The single job id `sched-<campaign>`.  It exists, and blocks a new add,
   while delayed, waiting or active, and after it ended when it is kept: it
   failed, or it was added without removeOnComplete. *)
SchedState ==
  [st : {"none", "queued", "active", "kept"}, at : Nat, keep : BOOLEAN,
   stalled : BOOLEAN]
SchedJob(st, at, keep, stalled) ==
  [st |-> st, at |-> at, keep |-> keep, stalled |-> stalled]
NoSched == SchedJob("none", 0, FALSE, FALSE)
KeptSched == SchedJob("kept", 0, FALSE, FALSE)

EnqueueSched(at, keep) ==
  sched' = IF sched.st = "none" THEN SchedJob("queued", at, keep, FALSE) ELSE sched

(* queue.remove(jobId): a job being executed is locked and stays. *)
RemoveSched == sched' = IF sched.st = "active" THEN sched ELSE NoSched

=============================================================================
