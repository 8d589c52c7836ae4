------------------------------ MODULE Automations ------------------------------
(***************************************************************************)
(* One automation: what triggers it, the executions it gets, and the       *)
(* worker of the queue automation-execute that takes an execution through  *)
(* its workflow (automations/).                                            *)
(*                                                                         *)
(* An execution is a WorkflowExecution row, a job whose id is the row's,   *)
(* and what the process that works on it has in memory: first the listener *)
(* or request that creates row and job, then the worker.  The crons create *)
(* several, one after the other.                                           *)
(***************************************************************************)
EXTENDS EngagementStore

VARIABLES
  status,     \* Automation.status, "gone" once it is deleted
  config,     \* Automation.triggerConfig: the date, and the day it last fired
  sendCount,  \* Automation.sendCount
  exec,       \* execution -> its row
  job,        \* execution -> the job with its id
  mem,        \* execution -> what the process working on it remembers
  cron,       \* run of a cron -> what it remembers
  ran,        \* backend -> the last day its daily cron ran
  laps,       \* runs that began before the last of their process had ended
  req,        \* client -> its request
  handed,     \* execution -> node -> messages a provider took
  charged,    \* execution -> node -> times they were paid for
  late        \* execution -> messages handed over after the automation was deleted

automation == <<status, config, sendCount>>
executions == <<exec, job, mem>>
firing == <<cron, ran, laps, req>>
history == <<handed, charged, late>>
automationVars == <<automation, executions, firing, history>>

Never == -1
Done == -1
AutomationStatus == {"Draft", "Active", "Inactive"}
ExecutionStatus == {"none", "Running", "Completed", "Failed", "gone"}
JobState == {"none", "waiting", "active", "failed"}

Daily == {"inactivity_window", "birthday", "recurring_schedule"}

NoJob == [st |-> "none", made |-> 0, stalled |-> FALSE]
NoCron == [pc |-> "idle", todo |-> {}, cur |-> 0, seen |-> [date |-> 0, fired |-> Never],
           by |-> None, now |-> 0]

Row(st, c) == [st |-> st, contact |-> c, node |-> 0, tries |-> 0]
HasRow(e) == exec[e].st \notin {"none", "gone"}
Unused(e) ==
  /\ exec[e].st = "none" /\ mem[e].pc = "idle"
  /\ \A f \in Executions : f < e => exec[f].st # "none" \/ mem[f].pc # "idle"

Goto(e, pc) == mem' = [mem EXCEPT ![e].pc = pc]
Rest(e) == mem' = [mem EXCEPT ![e] = [pc |-> "idle", at |-> 0, tags |-> {}]]

-----------------------------------------------------------------------------
(* normalizeWorkflow: a workflow is a sequence of nodes with ids 1, 2, ... and
   of edges, as the canvas editor draws them.  0 stands for null.  Nobody looks
   whether there is a node with the id that an edge or a node speaks of. *)

WorkflowNode ==
  [type : STRING, next : Nat, yes : Nat, no : Nat, retries : Int, tag : Tags \cup {None},
   remove : BOOLEAN]
WorkflowEdge == [from : Nat, to : Nat, port : STRING]
Workflow ==
  [isFlow : BOOLEAN, start : Nat, nodes : Seq(WorkflowNode), edges : Seq(WorkflowEdge)]
ASSUME WorkflowAssumption ==
  \A w \in Worlds : w.status \subseteq AutomationStatus /\ w.workflow \in Workflow

Flow == world.workflow
Nodes == 0..Len(Flow.nodes)
Node(n) == Flow.nodes[n]
Or(a, b) == IF a # 0 THEN a ELSE b

Outgoing(n) == {i \in DOMAIN Flow.edges : Flow.edges[i].from = n}
Via(n, port) == {i \in Outgoing(n) : Flow.edges[i].port = port}
Target(edges) == IF edges = {} THEN 0 ELSE Flow.edges[Min(edges)].to

Next1(n) == Or(Node(n).next, Target(Outgoing(n)))
NextTrue(n) ==
  Or(Node(n).yes, Or(Target(Via(n, "right")), Or(Target(Outgoing(n)), Node(n).next)))
NextFalse(n) ==
  LET second == {i \in Outgoing(n) : \E j \in Outgoing(n) : j < i} IN
  Or(Node(n).no, Or(Target(Via(n, "left")), Target(second)))

StartNode ==
  LET triggers == {n \in Nodes \ {0} : Node(n).type = "trigger"} IN
  Or(Flow.start, IF triggers # {} THEN Min(triggers) ELSE Min({1, Len(Flow.nodes)}))

-----------------------------------------------------------------------------
(* A trigger: scheduleAutomationsForTrigger, triggerAutomationForContact.  The
   row is created and then the job is added; an error is logged, and what was
   not done yet is not done. *)

Listen(e, i) ==
  LET ev == events[i] IN
  /\ Unused(e)
  /\ events' = RemoveAt(events, i)
  /\ IF status = "Active" /\ world.trigger = ev.kind /\ ev.contact \in present
       THEN /\ exec' = [exec EXCEPT ![e].contact = ev.contact]
            /\ Goto(e, "found")
       ELSE UNCHANGED <<exec, mem>>
  /\ UNCHANGED <<others, world, present, tags, optOut, balance, analytic, day, left,
                 automation, job, firing, history>>

Trigger(e, c) ==
  /\ "trigger" \in world.operations /\ Unused(e) /\ Request
  /\ status = "Active" /\ c \in present
  /\ exec' = [exec EXCEPT ![e].contact = c]
  /\ Goto(e, "found")
  /\ UNCHANGED <<others, world, present, tags, optOut, balance, analytic, events, day,
                 automation, job, firing, history>>

CreateRow(e) ==
  /\ mem[e].pc = "found"
  /\ \/ /\ status # "gone"
        /\ exec' = [exec EXCEPT ![e] = Row("Running", exec[e].contact)]
        /\ Goto(e, "add")
        /\ UNCHANGED left
     \/ /\ IF status = "gone" THEN UNCHANGED left ELSE Fault
        /\ exec' = [exec EXCEPT ![e].st = "gone"]
        /\ Rest(e)
  /\ UNCHANGED <<others, world, present, tags, optOut, balance, analytic, events, day,
                 automation, job, firing, history>>

(* BullMQ ignores an add whose id it knows. *)
Added(e) == IF job[e].st = "none" THEN [job EXCEPT ![e].st = "waiting"] ELSE job

AddJob(e) ==
  /\ mem[e].pc = "add"
  /\ \/ job' = Added(e) /\ UNCHANGED left
     \/ Fault /\ UNCHANGED job
  /\ Rest(e)
  /\ UNCHANGED <<others, world, present, tags, optOut, balance, analytic, events, day,
                 automation, exec, firing, history>>

(* The process that runs the listener or the request dies. *)
FiringDies(e) ==
  /\ mem[e].pc \in {"found", "add"} /\ Crash
  /\ exec' = [exec EXCEPT ![e].st = IF mem[e].pc = "found" THEN "gone" ELSE @]
  /\ Rest(e)
  /\ UNCHANGED <<others, world, present, tags, optOut, balance, analytic, events, day,
                 automation, job, firing, history>>

-----------------------------------------------------------------------------
(* The worker: executeQueuedAutomation and processWorkflowExecution *)

(* What a statement of the worker leaves alone. *)
Elsewhere == <<others, world, present, optOut, events, day, status, config, firing>>

TakeJob(e) ==
  /\ job[e].st = "waiting"
  /\ Cardinality({f \in Executions : job[f].st = "active"}) < Workers
  /\ job' = [job EXCEPT ![e].st = "active"]
  /\ Goto(e, "load")
  /\ UNCHANGED <<others, store, automation, exec, firing, history>>

(* Mutant: it always starts over. *)
ResumeAtStart(e) == StartNode

(* Where execution starts, or goes on after the job was run before. *)
ResumeAt(e) == Or(exec[e].node, StartNode)

(* Mutant: what has ended is not noticed. *)
LoadedAgain(e) ==
  IF exec[e].st = "gone" THEN [mem[e] EXCEPT !.pc = "throw"]
  ELSE IF ~Flow.isFlow THEN [mem[e] EXCEPT !.pc = "send"]
  ELSE [pc |-> "enter", at |-> ResumeAt(e), tags |-> tags[exec[e].contact]]

Loaded(e) ==
  CASE exec[e].st = "gone" -> [mem[e] EXCEPT !.pc = "throw"]
    [] exec[e].st \in {"Completed", "Failed"} -> [mem[e] EXCEPT !.pc = "return"]
    [] exec[e].st = "Running" /\ ~Flow.isFlow -> [mem[e] EXCEPT !.pc = "send"]
    [] OTHER -> [pc |-> "enter", at |-> ResumeAt(e), tags |-> tags[exec[e].contact]]

Load(e) ==
  /\ mem[e].pc = "load"
  /\ \/ mem' = [mem EXCEPT ![e] = Loaded(e)] /\ UNCHANGED left
     \/ Fault /\ Goto(e, "throw")
  /\ UNCHANGED <<Elsewhere, tags, balance, analytic, sendCount, exec, job, history>>

StepOf(n) ==
  CASE Node(n).type = "action" -> "send"
    [] Node(n).type \in {"tag", "condition", "wait"} -> Node(n).type
    [] Node(n).type = "end" -> "finish"
    [] OTHER -> "enter"

(* The node to go on from, and that the execution goes on. *)
Stored(e, n) == [exec EXCEPT ![e].node = n, ![e].st = "Running"]

(* Mutant: what is stored is the node that comes next. *)
EnterNext(e) ==
  LET n == mem[e].at IN
  /\ mem[e].pc = "enter"
  /\ IF n \notin Nodes \ {0}
       THEN Goto(e, "finish") /\ UNCHANGED exec
       ELSE /\ exec' = IF HasRow(e) THEN Stored(e, Next1(n)) ELSE exec
            /\ mem' = [mem EXCEPT ![e].pc = StepOf(n),
                                  ![e].at = IF StepOf(n) = "enter" THEN Next1(n) ELSE n]
  /\ UNCHANGED <<Elsewhere, tags, balance, analytic, left, sendCount, job, history>>

(* The loop of processWorkflowExecution: the node is stored before it is
   executed, and an error of that is ignored.  A trigger node is passed. *)
Enter(e) ==
  LET n == mem[e].at IN
  /\ mem[e].pc = "enter"
  /\ IF n \notin Nodes \ {0}
       THEN Goto(e, "finish") /\ UNCHANGED <<exec, left>>
       ELSE /\ \/ /\ exec' = IF HasRow(e) THEN Stored(e, n) ELSE exec
                  /\ UNCHANGED left
               \/ Fault /\ UNCHANGED exec
            /\ mem' = [mem EXCEPT ![e].pc = StepOf(n),
                                  ![e].at = IF StepOf(n) = "enter" THEN Next1(n) ELSE n]
  /\ UNCHANGED <<Elsewhere, tags, balance, analytic, sendCount, job, history>>

(* What an error of sending or paying leads to. *)
Thrown(e) == Goto(e, IF Flow.isFlow THEN "caught" ELSE "throw")

Hand(e) ==
  /\ handed' = [handed EXCEPT ![e][mem[e].at] = @ + 1]
  /\ late' = [late EXCEPT ![e] = IF status = "gone" THEN @ + 1 ELSE @]

(* sendAutomationMessage: a provider takes the message, refuses it, or takes
   it and its answer is lost. *)
Send(e) ==
  /\ mem[e].pc = "send"
  /\ \/ /\ exec[e].contact \notin world.reachable
        /\ Thrown(e) /\ UNCHANGED <<handed, late, left>>
     \/ /\ exec[e].contact \in world.reachable
        /\ \/ Hand(e) /\ Goto(e, "pay") /\ UNCHANGED left
           \/ Hand(e) /\ Fault /\ Thrown(e)
           \/ Fault /\ Thrown(e) /\ UNCHANGED <<handed, late>>
  /\ UNCHANGED <<Elsewhere, tags, balance, analytic, sendCount, exec, job, charged>>

(* deductAutomationCredit: without enough credit the message was free; the
   expense is written down after it was taken. *)
Debit(e) ==
  /\ balance >= UnitCost
  /\ balance' = balance - UnitCost
  /\ charged' = [charged EXCEPT ![e][mem[e].at] = @ + 1]

Pay(e) ==
  /\ mem[e].pc = "pay"
  /\ \/ Debit(e) /\ Goto(e, "record") /\ UNCHANGED left
     \/ Debit(e) /\ Fault /\ Thrown(e)
     \/ balance < UnitCost /\ Goto(e, "record") /\ UNCHANGED <<balance, charged, left>>
     \/ Fault /\ Thrown(e) /\ UNCHANGED <<balance, charged>>
  /\ UNCHANGED <<Elsewhere, tags, analytic, sendCount, exec, job, handed, late>>

(* Mutant: a deleted automation is not noticed. *)
RecordNodeAnyway(e) ==
  /\ mem[e].pc = "record" /\ Flow.isFlow
  /\ sendCount' = sendCount + 1
  /\ exec' = [exec EXCEPT ![e].tries = 0]
  /\ mem' = [mem EXCEPT ![e].pc = "enter", ![e].at = Next1(mem[e].at)]
  /\ UNCHANGED <<Elsewhere, left, tags, balance, analytic, job, history>>

(* The counter of the automation, then the attempts of the node. *)
RecordNode(e) ==
  /\ mem[e].pc = "record" /\ Flow.isFlow
  /\ \/ /\ status # "gone"
        /\ sendCount' = sendCount + 1
        /\ exec' = [exec EXCEPT ![e].tries = 0]
        /\ mem' = [mem EXCEPT ![e].pc = "enter", ![e].at = Next1(mem[e].at)]
        /\ UNCHANGED left
     \/ /\ IF status = "gone" THEN UNCHANGED <<sendCount, left>>
          ELSE Fault /\ sendCount' \in {sendCount, sendCount + 1}
        /\ Thrown(e) /\ UNCHANGED exec
  /\ UNCHANGED <<Elsewhere, tags, balance, analytic, job, history>>

(* Without a workflow the counter and the end are one transaction. *)
RecordMessage(e) ==
  /\ mem[e].pc = "record" /\ ~Flow.isFlow
  /\ \/ /\ status # "gone"
        /\ sendCount' = sendCount + 1
        /\ exec' = [exec EXCEPT ![e].st = "Completed", ![e].node = Done]
        /\ Goto(e, "return") /\ UNCHANGED left
     \/ /\ IF status = "gone" THEN UNCHANGED left ELSE Fault
        /\ Thrown(e) /\ UNCHANGED <<sendCount, exec>>
  /\ UNCHANGED <<Elsewhere, tags, balance, analytic, job, history>>

Retries(n) == Max({1, Min({5, Node(n).retries})})

(* The catch clause of an action node: another try of it is scheduled, unless
   it had enough; then the job fails.  The attempt is written twice over, by
   two statements. *)
ScheduleRetry(e) ==
  LET n == mem[e].at IN
  /\ mem[e].pc = "caught"
  /\ \/ /\ exec[e].tries + 1 < Retries(n) /\ HasRow(e)
        /\ exec' = [exec EXCEPT ![e].tries = @ + 1, ![e].node = n, ![e].st = "Running"]
        /\ Goto(e, "requeue") /\ UNCHANGED left
     \/ /\ IF exec[e].tries + 1 < Retries(n) /\ HasRow(e) THEN Fault ELSE UNCHANGED left
        /\ Goto(e, "throw") /\ UNCHANGED exec
  /\ UNCHANGED <<Elsewhere, tags, balance, analytic, sendCount, job, history>>

(* The next try, or what follows a wait, is added under the id of the job that
   is being executed. *)
Requeue(e) ==
  /\ mem[e].pc = "requeue"
  /\ \/ job' = Added(e) /\ Goto(e, "return") /\ UNCHANGED left
     \/ Fault /\ Goto(e, "throw") /\ UNCHANGED job
  /\ UNCHANGED <<Elsewhere, tags, balance, analytic, sendCount, exec, history>>

(* A tag node writes the whole list, made from the tags read when the job
   began; an error is ignored.  Without a tag it does nothing. *)
NewTags(e) ==
  LET n == Node(mem[e].at) IN
  IF n.remove THEN mem[e].tags \ {n.tag} ELSE mem[e].tags \cup {n.tag}

TagContact(e) ==
  /\ mem[e].pc = "tag"
  /\ \/ /\ Node(mem[e].at).tag # None
        /\ tags' = [tags EXCEPT ![exec[e].contact] = NewTags(e)]
        /\ mem' = [mem EXCEPT ![e] = [pc |-> "enter", at |-> Next1(mem[e].at), tags |-> NewTags(e)]]
        /\ UNCHANGED left
     \/ /\ IF Node(mem[e].at).tag = None THEN UNCHANGED left ELSE Fault
        /\ UNCHANGED tags
        /\ mem' = [mem EXCEPT ![e].pc = "enter", ![e].at = Next1(mem[e].at)]
  /\ UNCHANGED <<Elsewhere, balance, analytic, sendCount, exec, job, history>>

(* evaluateWorkflowCondition: a tag of the contact in memory, or an opening in
   the table. *)
Holds(e) ==
  LET n == Node(mem[e].at) IN
  IF n.tag # None THEN n.tag \in mem[e].tags ELSE exec[e].contact \in analytic

Branch(e) ==
  LET n == mem[e].at IN
  /\ mem[e].pc = "condition"
  /\ \/ /\ mem' = [mem EXCEPT ![e].pc = "enter",
                               ![e].at = IF Holds(e) THEN NextTrue(n) ELSE NextFalse(n)]
        /\ UNCHANGED left
     \/ Node(n).tag = None /\ Fault /\ Goto(e, "throw")
  /\ UNCHANGED <<Elsewhere, tags, balance, analytic, sendCount, exec, job, history>>

Wait(e) ==
  /\ mem[e].pc = "wait"
  /\ \/ /\ HasRow(e)
        /\ exec' = Stored(e, Next1(mem[e].at))
        /\ Goto(e, "requeue") /\ UNCHANGED left
     \/ /\ IF HasRow(e) THEN Fault ELSE UNCHANGED left
        /\ Goto(e, "throw") /\ UNCHANGED exec
  /\ UNCHANGED <<Elsewhere, tags, balance, analytic, sendCount, job, history>>

(* An end node, or nothing left to do. *)
Finish(e) ==
  /\ mem[e].pc = "finish"
  /\ \/ /\ HasRow(e)
        /\ exec' = [exec EXCEPT ![e].st = "Completed", ![e].node = Done]
        /\ Goto(e, "return") /\ UNCHANGED left
     \/ /\ IF HasRow(e) THEN Fault ELSE UNCHANGED left
        /\ Goto(e, "throw") /\ UNCHANGED exec
  /\ UNCHANGED <<Elsewhere, tags, balance, analytic, sendCount, job, history>>

(* removeOnComplete *)
Return(e) ==
  /\ mem[e].pc = "return"
  /\ job' = [job EXCEPT ![e] = NoJob]
  /\ Rest(e)
  /\ UNCHANGED <<others, store, automation, exec, firing, history>>

(* Mutant: one attempt too many. *)
ThrowOnceMore(e) ==
  /\ mem[e].pc = "throw"
  /\ IF job[e].made < Attempts
       THEN job' = [job EXCEPT ![e].st = "waiting", ![e].made = @ + 1] /\ Rest(e)
       ELSE Goto(e, "mark") /\ UNCHANGED job
  /\ UNCHANGED <<others, store, automation, exec, firing, history>>

(* Mutant: the job fails and the execution is not told. *)
ThrowOnly(e) ==
  /\ mem[e].pc = "throw"
  /\ job' = IF job[e].made + 1 < Attempts
              THEN [job EXCEPT ![e].st = "waiting", ![e].made = @ + 1]
              ELSE [job EXCEPT ![e].st = "failed"]
  /\ Rest(e)
  /\ UNCHANGED <<others, store, automation, exec, firing, history>>

(* AutomationExecutionProcessor: after the last attempt the execution is
   marked as failed, and then the job fails. *)
Throw(e) ==
  /\ mem[e].pc = "throw"
  /\ IF job[e].made + 1 < Attempts
       THEN job' = [job EXCEPT ![e].st = "waiting", ![e].made = @ + 1] /\ Rest(e)
       ELSE Goto(e, "mark") /\ UNCHANGED job
  /\ UNCHANGED <<others, store, automation, exec, firing, history>>

MarkFailed(e) ==
  /\ mem[e].pc = "mark"
  /\ \/ /\ exec' = [exec EXCEPT ![e].st = IF @ = "Running" THEN "Failed" ELSE @]
        /\ UNCHANGED left
     \/ Fault /\ UNCHANGED exec
  /\ job' = [job EXCEPT ![e].st = "failed"]
  /\ Rest(e)
  /\ UNCHANGED <<Elsewhere, tags, balance, analytic, sendCount, history>>

(* BullMQ runs a job again whose worker died, once. *)
WorkerDies(e) ==
  /\ job[e].st = "active" /\ Crash
  /\ job' = [job EXCEPT ![e].st = IF job[e].stalled THEN "failed" ELSE "waiting",
                        ![e].stalled = TRUE]
  /\ Rest(e)
  /\ UNCHANGED <<others, world, present, tags, optOut, balance, analytic, events, day,
                 automation, exec, firing, history>>

WorkerStep(e) ==
  \/ Load(e) \/ Enter(e) \/ Send(e) \/ Pay(e) \/ RecordNode(e) \/ RecordMessage(e)
  \/ ScheduleRetry(e) \/ Requeue(e) \/ TagContact(e) \/ Branch(e) \/ Wait(e)
  \/ Finish(e) \/ Return(e) \/ Throw(e) \/ MarkFailed(e)

-----------------------------------------------------------------------------
(* The crons of the backend processes.  processDueDateBasedAutomations begins
   every minute and leaves a mark when it ends; processInactivityWindowAutomations,
   processBirthdayAutomations and processRecurringScheduleAutomations begin once
   a day, and only the last leaves a mark. *)

Due(b) ==
  \/ world.trigger = "date_based" /\ config.date <= day /\ config.fired = Never
  \/ world.trigger \in Daily /\ ran[b] < day
     /\ (world.trigger = "recurring_schedule" => config.fired < day)

(* resolveDateBasedTargets looks at neither consent nor openings. *)
Targets ==
  CASE world.trigger = "date_based" -> present
    [] world.trigger = "inactivity_window" ->
         {c \in present : ~optOut[c] /\ ~(send[c] = "OPENED" /\ c \in opened)}
    [] OTHER -> {c \in present : ~optOut[c]}

HasRun(b) == \E k \in Runs : cron[k].pc # "idle" /\ cron[k].by = b

(* A run begins, and reads the automation.  Nothing waits for the run before:
   that k is the first idle one only says which this is. *)
CronFires(k) ==
  /\ cron[k].pc = "idle" /\ \A j \in Runs : j < k => cron[j].pc # "idle"
  /\ status = "Active"
  /\ \E b \in Backends :
       /\ Due(b) /\ (world.trigger = "date_based" => Targets # {})
       /\ cron' = [cron EXCEPT ![k] = [pc |-> "create", todo |-> Targets, cur |-> 0,
                                      seen |-> config, by |-> b, now |-> day]]
       /\ ran' = [ran EXCEPT ![b] = day]
       /\ laps' = IF HasRun(b) THEN laps + 1 ELSE laps
  /\ UNCHANGED <<others, store, automation, executions, req, history>>

(* An error ends the run of the cron: what it created stays, the rest and the
   mark are left to the next run. *)
CronStops(k) == cron' = [cron EXCEPT ![k] = NoCron]

CronCreates(k, e) ==
  /\ cron[k].pc = "create" /\ cron[k].todo # {} /\ Unused(e)
  /\ \/ /\ status # "gone"
        /\ \E c \in cron[k].todo :
             /\ exec' = [exec EXCEPT ![e] = Row("Running", c)]
             /\ cron' = [cron EXCEPT ![k].pc = "add", ![k].cur = e, ![k].todo = @ \ {c}]
        /\ UNCHANGED left
     \/ /\ IF status = "gone" THEN UNCHANGED left ELSE Fault
        /\ CronStops(k) /\ UNCHANGED exec
  /\ UNCHANGED <<others, world, present, tags, optOut, balance, analytic, events, day,
                 automation, job, mem, ran, laps, req, history>>

CronAdds(k) ==
  /\ cron[k].pc = "add"
  /\ \/ /\ job' = Added(cron[k].cur)
        /\ cron' = [cron EXCEPT ![k].pc = "create", ![k].cur = 0]
        /\ UNCHANGED left
     \/ Fault /\ CronStops(k) /\ UNCHANGED job
  /\ UNCHANGED <<others, world, present, tags, optOut, balance, analytic, events, day,
                 automation, exec, mem, ran, laps, req, history>>

LeavesMark == world.trigger \in {"date_based", "recurring_schedule"}

(* Mutant: the mark is forgotten. *)
CronEnds(k) ==
  /\ cron[k].pc = "create" /\ cron[k].todo = {}
  /\ CronStops(k)
  /\ UNCHANGED <<others, store, automation, executions, ran, laps, req, history>>

(* The mark is written with the configuration that was read at the start: the
   day the run ends, or, for recurring_schedule, the day it began. *)
CronMarks(k) ==
  /\ cron[k].pc = "create" /\ cron[k].todo = {}
  /\ \/ /\ config' = IF LeavesMark /\ status # "gone"
                       THEN [cron[k].seen EXCEPT !.fired =
                               IF world.trigger = "date_based" THEN day ELSE cron[k].now]
                       ELSE config
        /\ UNCHANGED left
     \/ LeavesMark /\ Fault /\ UNCHANGED config
  /\ CronStops(k)
  /\ UNCHANGED <<others, world, present, tags, optOut, balance, analytic, events, day,
                 status, sendCount, executions, ran, laps, req, history>>

(* The process of run k dies, and its other runs with it. *)
CronDies(k) ==
  /\ cron[k].pc # "idle" /\ Crash
  /\ cron' = [j \in Runs |-> IF cron[j].by = cron[k].by THEN NoCron ELSE cron[j]]
  /\ UNCHANGED <<others, world, present, tags, optOut, balance, analytic, events, day,
                 automation, executions, ran, laps, req, history>>

CronStep(k) ==
  \/ \E e \in Executions : CronCreates(k, e)
  \/ CronAdds(k)
  \/ CronMarks(k)

-----------------------------------------------------------------------------
(* toggleAutomation, deleteAutomation, updateAutomation *)

Ask(r, op) ==
  /\ op \in world.operations /\ req[r].op = "idle" /\ Request
  /\ status # "gone"
  /\ req' = [req EXCEPT ![r] = [op |-> op, seen |-> status]]
  /\ UNCHANGED <<others, world, present, tags, optOut, balance, analytic, events, day,
                 automation, executions, cron, ran, laps, history>>

Toggle(r) == Ask(r, "toggle")
Delete(r) == status # "Active" /\ Ask(r, "delete")

Answer(r) == req' = [req EXCEPT ![r].op = "idle"]

(* The opposite of the status that was read; the update throws when the row
   is gone. *)
WriteToggle(r) ==
  /\ req[r].op = "toggle"
  /\ status' = IF status = "gone" THEN "gone"
               ELSE IF req[r].seen = "Active" THEN "Inactive" ELSE "Active"
  /\ Answer(r)
  /\ UNCHANGED <<others, store, config, sendCount, executions, cron, ran, laps, history>>

(* The rows of its executions go with it; their jobs stay. *)
WriteDelete(r) ==
  /\ req[r].op = "delete"
  /\ status' = "gone"
  /\ exec' = [e \in Executions |->
               IF HasRow(e) THEN [exec[e] EXCEPT !.st = "gone"] ELSE exec[e]]
  /\ Answer(r)
  /\ UNCHANGED <<others, store, config, sendCount, job, mem, cron, ran, laps, history>>

(* A client sends a new configuration as a whole. *)
SetDate(d) ==
  /\ "date" \in world.operations /\ Request /\ status # "gone"
  /\ config' = [date |-> d, fired |-> Never]
  /\ UNCHANGED <<others, world, present, tags, optOut, balance, analytic, events, day,
                 status, sendCount, executions, firing, history>>

RequestStep(r) == WriteToggle(r) \/ WriteDelete(r)

-----------------------------------------------------------------------------

AutomationsInit ==
  /\ status \in world.status
  /\ config = [date |-> 0, fired |-> Never]
  /\ sendCount = 0
  /\ exec = [e \in Executions |-> Row("none", Min(Contacts))]
  /\ job = [e \in Executions |-> NoJob]
  /\ mem = [e \in Executions |-> [pc |-> "idle", at |-> 0, tags |-> {}]]
  /\ cron = [k \in Runs |-> NoCron]
  /\ ran = [b \in Backends |-> Never]
  /\ laps = 0
  /\ req = [r \in Clients |-> [op |-> "idle", seen |-> "Draft"]]
  /\ handed = [e \in Executions |-> [n \in Nodes |-> 0]]
  /\ charged = [e \in Executions |-> [n \in Nodes |-> 0]]
  /\ late = [e \in Executions |-> 0]

AutomationsNext ==
  \/ \E e \in Executions :
       \/ \E i \in DOMAIN events : Listen(e, i)
       \/ \E c \in Contacts : Trigger(e, c)
       \/ CreateRow(e) \/ AddJob(e) \/ FiringDies(e)
       \/ TakeJob(e) \/ WorkerStep(e) \/ WorkerDies(e)
  \/ \E k \in Runs : CronFires(k) \/ CronStep(k) \/ CronDies(k)
  \/ \E r \in Clients : Toggle(r) \/ Delete(r) \/ RequestStep(r)
  \/ \E d \in 0..MaxDay : SetDate(d)

=============================================================================
