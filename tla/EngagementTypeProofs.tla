-------------------------- MODULE EngagementTypeProofs --------------------------
(***************************************************************************)
(* Every variable of the engagement modules holds a value of its kind, for *)
(* any worlds and workflows.  Most of it follows from the invariants of    *)
(* the other proofs; what is added here is what a step writes into a row,  *)
(* a job or a process, and where its values come from: the workflow as it  *)
(* was drawn, files, forms and events.                                     *)
(***************************************************************************)
EXTENDS AutomationProofs

-----------------------------------------------------------------------------
(* Numbers *)

(* A set of numbers has a least one. *)
LEMMA LeastIsMember ==
  ASSUME NEW S, S \subseteq Nat, S # {}
  PROVE  Min(S) \in S
<1>1. PICK n \in S : \A k \in S : ~(<<k, n>> \in OpToRel(<, Nat))
  BY WFMin, NatLessThanWellFounded
<1>2. ASSUME NEW k \in S PROVE n <= k
  <2>1. k \in Nat /\ n \in Nat
    OBVIOUS
  <2>2. ~(k < n)
    BY <1>1, <2>1 DEF OpToRel
  <2> QED BY <2>1, <2>2
<1> QED BY <1>2 DEF Min

(* Of two numbers one is the smaller one, and one the greater one. *)
LEMMA LessOfTwo ==
  ASSUME NEW a \in Int, NEW b \in Int
  PROVE  Min({a, b}) \in {a, b} /\ Min({a, b}) <= a
<1>1. \E x \in {a, b} : \A y \in {a, b} : x <= y
  OBVIOUS
<1> QED BY <1>1 DEF Min

LEMMA MoreOfTwo ==
  ASSUME NEW a \in Int, NEW b \in Int
  PROVE  Max({a, b}) \in {a, b}
<1>1. \E x \in {a, b} : \A y \in {a, b} : x >= y
  OBVIOUS
<1> QED BY <1>1 DEF Max

-----------------------------------------------------------------------------
(* The workflow *)

(* Nodes have ids and edges lead from one to another, whatever they name. *)
LEMMA FlowDrawn ==
  ASSUME world \in Worlds
  PROVE  /\ Flow.isFlow \in BOOLEAN /\ Flow.start \in Nat
         /\ Len(Flow.nodes) \in Nat /\ Nodes \subseteq Nat /\ 0 \in Nodes
         /\ \A n \in Steps : Node(n) \in WorkflowNode
         /\ \A i \in DOMAIN Flow.edges : i \in Nat /\ Flow.edges[i].to \in Nat
<1>1. Flow \in Workflow
  BY WorkflowAssumption DEF Flow
<1>2. Flow.isFlow \in BOOLEAN /\ Flow.start \in Nat
  BY <1>1 DEF Workflow
<1>3. Flow.nodes \in Seq(WorkflowNode) /\ Flow.edges \in Seq(WorkflowEdge)
  BY <1>1 DEF Workflow
<1>4. Len(Flow.nodes) \in Nat /\ DOMAIN Flow.nodes = 1..Len(Flow.nodes)
  BY <1>3, LenProperties
<1>5. \A n \in 1..Len(Flow.nodes) : Flow.nodes[n] \in WorkflowNode
  BY <1>3, ElementOfSeq
<1>6. Nodes \subseteq Nat /\ 0 \in Nodes /\ Steps = 1..Len(Flow.nodes)
  BY <1>4 DEF Nodes, Steps
<1>7. \A n \in Steps : Node(n) \in WorkflowNode
  BY <1>5, <1>6 DEF Node
<1>8. ASSUME NEW i \in DOMAIN Flow.edges PROVE i \in Nat /\ Flow.edges[i].to \in Nat
  <2>1. DOMAIN Flow.edges = 1..Len(Flow.edges) /\ Len(Flow.edges) \in Nat
    BY <1>3, LenProperties
  <2>2. Flow.edges[i] \in WorkflowEdge
    BY <1>3, <2>1, ElementOfSeq
  <2> QED BY <2>1, <2>2 DEF WorkflowEdge
<1> QED BY <1>2, <1>4, <1>6, <1>7, <1>8

(* So what comes next is the id of a node, or null. *)
LEMMA NextDrawn ==
  ASSUME world \in Worlds, NEW n \in Steps
  PROVE  Next1(n) \in Nat /\ NextTrue(n) \in Nat /\ NextFalse(n) \in Nat
<1>1. ASSUME NEW S \in SUBSET DOMAIN Flow.edges PROVE Target(S) \in Nat
  <2>1. CASE S = {}
    BY <2>1 DEF Target
  <2>2. CASE S # {}
    <3>1. S \subseteq Nat
      BY FlowDrawn
    <3>2. Min(S) \in DOMAIN Flow.edges
      BY <2>2, <3>1, LeastIsMember
    <3> QED BY <2>2, <3>2, FlowDrawn DEF Target
  <2> QED BY <2>1, <2>2
<1>2. Outgoing(n) \in SUBSET DOMAIN Flow.edges /\ \A p : Via(n, p) \in SUBSET DOMAIN Flow.edges
  BY DEF Outgoing, Via
<1>3. {i \in Outgoing(n) : \E j \in Outgoing(n) : j < i} \in SUBSET DOMAIN Flow.edges
  BY <1>2
<1>4. Node(n).next \in Nat /\ Node(n).yes \in Nat /\ Node(n).no \in Nat
  BY FlowDrawn DEF WorkflowNode
<1>5. Next1(n) \in Nat
  BY <1>1, <1>2, <1>4 DEF Next1, Or
<1>6. NextTrue(n) \in Nat
  <2>1. Target(Via(n, "right")) \in Nat /\ Target(Outgoing(n)) \in Nat
    BY <1>1, <1>2
  <2> QED BY <1>4, <2>1 DEF NextTrue, Or
<1>7. NextFalse(n) \in Nat
  <2>1. Target(Via(n, "left")) \in Nat
    BY <1>1, <1>2
  <2>2. Target({i \in Outgoing(n) : \E j \in Outgoing(n) : j < i}) \in Nat
    BY <1>1, <1>3
  <2> QED BY <1>4, <2>1, <2>2 DEF NextFalse, Or
<1> QED BY <1>5, <1>6, <1>7

(* and where it starts. *)
LEMMA StartDrawn ==
  ASSUME world \in Worlds
  PROVE  StartNode \in Nat
<1> DEFINE triggers == {n \in Nodes \ {0} : Node(n).type = "trigger"}
<1>1. triggers # {} => Min(triggers) \in Nat
  BY FlowDrawn, LeastIsMember
<1>2. Min({1, Len(Flow.nodes)}) \in Nat
  <2>1. PICK n : n = Len(Flow.nodes)
    OBVIOUS
  <2>2. n \in Int /\ n \in Nat /\ 1 \in Int
    BY <2>1, FlowDrawn
  <2>3. Min({1, n}) \in {1, n}
    BY <2>2, LessOfTwo
  <2> QED BY <2>1, <2>2, <2>3
<1>3. Flow.start \in Nat
  BY FlowDrawn
<1> QED BY <1>1, <1>2, <1>3 DEF StartNode, Or

(* A node is tried at most five times. *)
LEMMA FewRetries ==
  ASSUME world \in Worlds, NEW n \in Steps
  PROVE  Retries(n) \in Int /\ Retries(n) <= 5
<1>1. Node(n).retries \in Int
  BY FlowDrawn DEF WorkflowNode
<1>2. PICK m : m = Min({5, Node(n).retries})
  OBVIOUS
<1>3. m \in Int /\ m <= 5 /\ 1 \in Int
  BY <1>1, <1>2, LessOfTwo
<1>4. Max({1, m}) \in {1, m}
  BY <1>3, MoreOfTwo
<1>5. Retries(n) = Max({1, m})
  BY <1>2 DEF Retries
<1> QED BY <1>3, <1>4, <1>5

-----------------------------------------------------------------------------
(* What the variables hold *)

Configs == [date : 0..MaxDay, fired : 0..MaxDay \cup {Never}]
ExecRecord ==
  [st : ExecutionStatus, contact : Contacts, node : Nat \cup {Done}, tries : 0..4]
JobRecord == [st : JobState, made : 0..Attempts - 1, stalled : BOOLEAN]
MemRecord == [pc : MemoryPC, at : Nat, tags : SUBSET Tags]
CronRecord ==
  [pc : CronPC, todo : SUBSET Contacts, cur : Executions \cup {0}, seen : Configs,
   by : Backends \cup {None}, now : 0..MaxDay]
RequestRecord == [op : {"idle", "toggle", "delete"}, seen : AutomationStatus]
LaneHolds ==
  [at : LaneAt, src : {m.src : m \in Messages} \cup {"none"},
   kind : {m.kind : m \in Messages} \cup {"none"}, contact : Contacts, seen : SendStatus]
FormRecord ==
  [op : FormOp, at : FormAt, contact : Contacts, tags : SUBSET Tags, added : SUBSET Tags,
   hit : BOOLEAN]
CountRecord == [pc : CountPC, n : 0..Cardinality(Contacts), again : BOOLEAN]

(* What the other proofs say already. *)
Known == BooksInv /\ AutomationInv /\ ImportInv /\ EventsInv

Recorded ==
  /\ tags \in [Contacts -> SUBSET Tags] /\ optOut \in [Contacts -> BOOLEAN]
  /\ analytic \subseteq Contacts /\ events \in Seq(Events) /\ day \in 0..MaxDay

(* What is to be resumed has a node, or null: it has not ended. *)
AutomationsHold ==
  /\ status \in AutomationStatus \cup {"gone"} /\ config \in Configs /\ sendCount \in Nat
  /\ exec \in [Executions -> ExecRecord]
  /\ \A e \in Executions : Going(e) => exec[e].node \in Nat
  /\ job \in [Executions -> JobRecord] /\ mem \in [Executions -> MemRecord]
  /\ cron \in [Runs -> CronRecord] /\ ran \in [Backends -> 0..MaxDay \cup {Never}]
  /\ laps \in Nat
  /\ req \in [Clients -> RequestRecord] /\ late \in [Executions -> Nat]

(* Only a file that is being imported has a worker, and one that may be taken
   has an attempt left. *)
Imported(r, f) ==
  /\ r.made <= Attempts /\ r.pos <= Total(f)
  /\ r.st \in {"waiting", "active"} => r.made < Attempts
  /\ r.pc # "idle" => r.st = "active"
ImportsHold == \A f \in Files : Imported(imp[f], f)

DeliveryHolds ==
  /\ send \in [Contacts -> SendStatus] /\ opened \subseteq Contacts /\ clicked \subseteq Contacts
  /\ lane \in [Lanes -> LaneHolds]

BookHolds ==
  /\ form \in [Callers -> FormRecord] /\ recalc \in [adds : Nat, waiting : Nat, again : Nat]
  /\ counting \in [Backends -> CountRecord] /\ segment \in 0..Cardinality(Contacts)

TypeInv ==
  Known /\ Recorded /\ AutomationsHold /\ ImportsHold /\ DeliveryHolds /\ BookHolds

(* Somebody stands where nobody looks, and he is a contact. *)
LEMMA SomeContact == Min(Contacts) \in Contacts
BY LeastIsMember, ContactsAssumption

-----------------------------------------------------------------------------
(* Events *)

(* Emitting adds an event of a contact, *)
LEMMA EventEmitted ==
  ASSUME events \in Seq(Events), NEW k \in EventKinds, NEW c \in Contacts, Emit(k, c)
  PROVE  events' \in Seq(Events)
<1>1. PICK x : x = Event(k, c)
  OBVIOUS
<1>2. x \in Events
  BY <1>1 DEF Event, Events
<1>3. PICK E : E = Events
  OBVIOUS
<1>4. events \in Seq(E) /\ x \in E
  BY <1>2, <1>3
<1>5. events' = Append(events, x)
  BY <1>1 DEF Emit
<1>6. events' \in Seq(E)
  BY <1>4, <1>5, AppendProperties
<1> QED BY <1>3, <1>6

(* or several, *)
LEMMA EventsEmitted ==
  ASSUME events \in Seq(Events), NEW q \in Seq(Events), events' = events \o q
  PROVE  events' \in Seq(Events)
<1>1. PICK E : E = Events
  OBVIOUS
<1>2. events \in Seq(E) /\ q \in Seq(E)
  BY <1>1
<1>3. events \o q \in Seq(E)
  BY <1>2, ConcatProperties
<1> QED BY <1>1, <1>3

(* and a listener takes one away. *)
LEMMA EventRemoved ==
  ASSUME events \in Seq(Events), NEW i \in DOMAIN events, events' = RemoveAt(events, i)
  PROVE  events' \in Seq(Events)
<1>1. PICK E : E = Events
  OBVIOUS
<1>2. PICK n : n = Len(events)
  OBVIOUS
<1>3. events \in Seq(E)
  BY <1>1
<1>4. n \in Nat /\ i \in 1..n /\ \A j \in 1..n : events[j] \in E
  BY <1>2, <1>3, LenProperties, ElementOfSeq
<1>5. SubSeq(events, 1, i - 1) \in Seq(E)
  <2>1. \A j \in 1..i - 1 : events[j] \in E
    BY <1>4
  <2>2. 1 \in Int /\ i - 1 \in Int
    BY <1>4
  <2> QED BY <2>1, <2>2, SubSeqProperties
<1>6. SubSeq(events, i + 1, n) \in Seq(E)
  <2>1. \A j \in i + 1..n : events[j] \in E
    BY <1>4
  <2>2. i + 1 \in Int /\ n \in Int
    BY <1>4
  <2> QED BY <2>1, <2>2, SubSeqProperties
<1>7. events' = SubSeq(events, 1, i - 1) \o SubSeq(events, i + 1, n)
  BY <1>2 DEF RemoveAt
<1>8. events' \in Seq(E)
  BY <1>5, <1>6, <1>7, ConcatProperties
<1> QED BY <1>1, <1>8

(* The one it takes is one. *)
LEMMA EventRead ==
  ASSUME events \in Seq(Events), NEW i \in DOMAIN events
  PROVE  events[i] \in Events
<1>1. PICK E : E = Events
  OBVIOUS
<1>2. events \in Seq(E)
  BY <1>1
<1>3. i \in 1..Len(events)
  BY <1>2, LenProperties
<1>4. events[i] \in E
  BY <1>2, <1>3, ElementOfSeq
<1> QED BY <1>1, <1>4

-----------------------------------------------------------------------------
(* Automations *)

(* A process goes to another place, or rests. *)
LEMMA ProcessGoes ==
  ASSUME NEW e \in Executions, mem \in [Executions -> MemRecord]
  PROVE  /\ \A p \in MemoryPC : Goto(e, p) => mem' \in [Executions -> MemRecord]
         /\ Rest(e) => mem' \in [Executions -> MemRecord]
<1>1. mem[e] \in MemRecord
  OBVIOUS
<1>2. ASSUME NEW p \in MemoryPC PROVE [mem[e] EXCEPT !.pc = p] \in MemRecord
  BY <1>1 DEF MemRecord
<1>3. [pc |-> "idle", at |-> 0, tags |-> {}] \in MemRecord
  BY DEF MemRecord, MemoryPC
<1> QED BY <1>2, <1>3 DEF Goto, Rest

(* What the process of an execution remembers comes from the workflow and from
   the contact. *)
LEMMA ProcessHolds ==
  ASSUME NEW e \in Executions, world \in Worlds, Located(e), StepsOf(e),
         mem \in [Executions -> MemRecord], exec \in [Executions -> ExecRecord],
         tags \in [Contacts -> SUBSET Tags], Going(e) => exec[e].node \in Nat,
         mem[e].pc \notin {"idle", "found"} => exec[e].st # "none"
  PROVE  mem' \in [Executions -> MemRecord]
<1> DEFINE Ok == mem' \in [Executions -> MemRecord]
<1> SUFFICES Ok
  OBVIOUS
<1>0. /\ \A p \in MemoryPC : Goto(e, p) => Ok
      /\ Rest(e) => Ok /\ (UNCHANGED mem => Ok)
      /\ \A m \in MemRecord : mem' = [mem EXCEPT ![e] = m] => Ok
  BY ProcessGoes
<1>1. /\ mem[e].pc \in MemoryPC /\ mem[e].at \in Nat /\ mem[e].tags \subseteq Tags
      /\ mem[e] = [pc |-> mem[e].pc, at |-> mem[e].at, tags |-> mem[e].tags]
  <2>1. mem[e] \in MemRecord
    OBVIOUS
  <2> QED BY <2>1 DEF MemRecord
<1>2. exec[e].contact \in Contacts /\ tags[exec[e].contact] \subseteq Tags
  <2>1. exec[e] \in ExecRecord
    OBVIOUS
  <2> QED BY <2>1 DEF ExecRecord
<1>3. {"found", "add", "load", "idle", "finish", "return", "throw", "mark", "requeue", "caught",
       "pay", "record", "enter", "send", "tag", "condition", "wait"} \subseteq MemoryPC
  BY DEF MemoryPC, AtNode
<1>4. ASSUME NEW p \in MemoryPC, NEW n \in Nat, NEW T \in SUBSET Tags
      PROVE  [pc |-> p, at |-> n, tags |-> T] \in MemRecord
  BY DEF MemRecord
<1>5. ASSUME NEW p \in MemoryPC, NEW n \in Nat, mem' = [mem EXCEPT ![e].pc = p, ![e].at = n]
      PROVE  Ok
  <2>1. PICK m : m = [[mem[e] EXCEPT !.pc = p] EXCEPT !.at = n]
    OBVIOUS
  <2>2. m \in MemRecord
    <3>1. mem[e] \in MemRecord
      OBVIOUS
    <3> QED BY <2>1, <3>1 DEF MemRecord
  <2>3. mem' = [mem EXCEPT ![e] = m]
    BY <1>5, <2>1
  <2> HIDE DEF Ok
  <2> QED BY <1>0, <2>2, <2>3
<1>6. CASE \/ \E i \in DOMAIN events : Listen(e, i)
           \/ \E c \in Contacts : Trigger(e, c)
           \/ CreateRow(e) \/ AddJob(e) \/ FiringDies(e) \/ TakeJob(e) \/ WorkerDies(e)
  <2> HIDE DEF Ok
  <2> QED BY <1>0, <1>3, <1>6
          DEF Listen, Trigger, CreateRow, AddJob, FiringDies, TakeJob, WorkerDies
<1>7. CASE Load(e)
  <2>1. StartNode \in Nat
    BY StartDrawn
  <2>2. ResumeAt(e) \in Nat \/ ~Going(e)
    BY <2>1 DEF ResumeAt, Or
  <2>3. CASE exec[e].st = "Running" /\ Flow.isFlow
    <3>1. Loaded(e) = [pc |-> "enter", at |-> ResumeAt(e), tags |-> tags[exec[e].contact]]
      BY <2>3 DEF Loaded
    <3>2. Loaded(e) \in MemRecord
      BY <1>2, <1>3, <1>4, <2>2, <2>3, <3>1 DEF Going
    <3> HIDE DEF Ok
    <3> QED BY <1>0, <1>3, <1>7, <3>2 DEF Load
  <2>4. CASE ~(exec[e].st = "Running" /\ Flow.isFlow)
    <3>1. \E p \in MemoryPC : Loaded(e) = [mem[e] EXCEPT !.pc = p]
      BY <1>3, <1>7, <2>4 DEF Load, Loaded, Located, ExecutionStatus
    <3>2. \A p : [mem EXCEPT ![e] = [mem[e] EXCEPT !.pc = p]] = [mem EXCEPT ![e].pc = p]
      OBVIOUS
    <3> HIDE DEF Ok
    <3> QED BY <1>0, <1>3, <1>7, <3>1, <3>2 DEF Load, Goto
  <2> QED BY <2>3, <2>4
<1>8. CASE Enter(e)
  <2>1. CASE mem[e].at \notin Steps
    <3> HIDE DEF Ok
    <3> QED BY <1>0, <1>3, <1>8, <2>1 DEF Enter, Steps
  <2>2. CASE mem[e].at \in Steps
    <3>1. StepOf(mem[e].at) \in MemoryPC /\ Next1(mem[e].at) \in Nat
      BY <1>3, <2>2, NextDrawn DEF StepOf
    <3>2. mem' = [mem EXCEPT ![e].pc = StepOf(mem[e].at),
              ![e].at = IF StepOf(mem[e].at) = "enter" THEN Next1(mem[e].at) ELSE mem[e].at]
      BY <1>8, <2>2 DEF Enter, Steps
    <3>3. (IF StepOf(mem[e].at) = "enter" THEN Next1(mem[e].at) ELSE mem[e].at) \in Nat
      BY <1>1, <3>1
    <3> HIDE DEF Ok
    <3> QED BY <1>5, <3>1, <3>2, <3>3
  <2> QED BY <2>1, <2>2
<1>9. CASE RecordNode(e) \/ TagContact(e) \/ Branch(e)
  <2>1. mem[e].at \in Steps
    BY <1>9 DEF RecordNode, TagContact, Branch, Located, InRun
  <2>2. /\ Next1(mem[e].at) \in Nat /\ NextTrue(mem[e].at) \in Nat /\ NextFalse(mem[e].at) \in Nat
        /\ Node(mem[e].at).tag \in Tags \cup {None}
    BY <2>1, NextDrawn, FlowDrawn DEF WorkflowNode
  <2> HIDE DEF Ok
  <2>3. CASE RecordNode(e)
    BY <1>0, <1>3, <1>5, <2>2, <2>3 DEF RecordNode, Thrown
  <2>4. CASE TagContact(e)
    <3>1. CASE Node(mem[e].at).tag # None /\ mem' = [mem EXCEPT ![e] =
                 [pc |-> "enter", at |-> Next1(mem[e].at), tags |-> NewTags(e)]]
      <4>1. NewTags(e) \in SUBSET Tags
        BY <1>1, <2>2, <3>1 DEF NewTags
      <4>2. [pc |-> "enter", at |-> Next1(mem[e].at), tags |-> NewTags(e)] \in MemRecord
        BY <1>3, <1>4, <2>2, <4>1
      <4> QED BY <1>0, <3>1, <4>2
    <3>2. CASE mem' = [mem EXCEPT ![e].pc = "enter", ![e].at = Next1(mem[e].at)]
      BY <1>3, <1>5, <2>2, <3>2
    <3> QED BY <2>4, <3>1, <3>2 DEF TagContact
  <2>5. CASE Branch(e)
    <3>1. CASE Goto(e, "throw")
      BY <1>0, <1>3, <3>1
    <3>2. CASE mem' = [mem EXCEPT ![e].pc = "enter",
                 ![e].at = IF Holds(e) THEN NextTrue(mem[e].at) ELSE NextFalse(mem[e].at)]
      <4>1. (IF Holds(e) THEN NextTrue(mem[e].at) ELSE NextFalse(mem[e].at)) \in Nat
        BY <2>2
      <4> QED BY <1>3, <1>5, <3>2, <4>1
    <3> QED BY <2>5, <3>1, <3>2 DEF Branch
  <2> QED BY <1>9, <2>3, <2>4, <2>5
<1>10. CASE \/ Send(e) \/ Pay(e) \/ RecordMessage(e) \/ ScheduleRetry(e) \/ Requeue(e) \/ Wait(e)
            \/ Finish(e) \/ Return(e) \/ Throw(e) \/ MarkFailed(e)
  <2> HIDE DEF Ok
  <2> QED BY <1>0, <1>3, <1>10
          DEF Send, Pay, RecordMessage, ScheduleRetry, Requeue, Wait, Finish, Return, Throw,
              MarkFailed, Thrown
<1> QED BY <1>6, <1>7, <1>8, <1>9, <1>10 DEF StepsOf, WorkerStep

(* Its row says where to resume unless it has ended; a node is counted as tried
   only while it may be tried again. *)
Fit(x) == x \in ExecRecord /\ (x.st \in {"none", "Running"} => x.node \in Nat)
LEMMA RowHolds ==
  ASSUME NEW e \in Executions, world \in Worlds, Located(e), StepsOf(e),
         DOMAIN exec = Executions, exec = [f \in Executions |-> exec[f]],
         \A f \in Executions : Fit(exec[f]),
         mem[e].at \in Nat, events \in Seq(Events), present \subseteq Contacts
  PROVE  exec' = [f \in Executions |-> exec'[f]] /\ \A f \in Executions : Fit(exec'[f])
<1> DEFINE Ok == exec' = [f \in Executions |-> exec'[f]] /\ \A f \in Executions : Fit(exec'[f])
<1> SUFFICES Ok
  OBVIOUS
<1>0. /\ \A x : Fit(x) /\ exec' = [exec EXCEPT ![e] = x] => Ok
      /\ exec' = exec => Ok
  OBVIOUS
<1>1. /\ exec[e] \in ExecRecord /\ exec[e].contact \in Contacts /\ exec[e].tries \in 0..4
      /\ exec[e].node \in Nat \cup {Done} /\ exec[e].st \in ExecutionStatus
      /\ exec[e].st \in {"none", "Running"} => exec[e].node \in Nat
  <2>1. Fit(exec[e])
    OBVIOUS
  <2> QED BY <2>1 DEF Fit, ExecRecord
<1>2. ASSUME NEW c \in Contacts PROVE Fit([exec[e] EXCEPT !.contact = c])
  BY <1>1 DEF Fit, ExecRecord
<1>3. ASSUME NEW c \in Contacts PROVE Fit(Row("Running", c))
  BY DEF Fit, ExecRecord, Row, ExecutionStatus
<1>4. ASSUME NEW s \in {"gone", "Failed"} PROVE Fit([exec[e] EXCEPT !.st = s])
  BY <1>1 DEF Fit, ExecRecord, ExecutionStatus
<1>5. ASSUME NEW n \in Nat PROVE Fit([[exec[e] EXCEPT !.node = n] EXCEPT !.st = "Running"])
  BY <1>1 DEF Fit, ExecRecord, ExecutionStatus
<1>6. Fit([exec[e] EXCEPT !.tries = 0])
  BY <1>1 DEF Fit, ExecRecord
<1>7. Fit([[exec[e] EXCEPT !.st = "Completed"] EXCEPT !.node = Done])
  BY <1>1 DEF Fit, ExecRecord, ExecutionStatus
<1> HIDE DEF Ok
<1>8. CASE \E i \in DOMAIN events : Listen(e, i)
  <2>1. PICK i \in DOMAIN events : Listen(e, i)
    BY <1>8
  <2>2. events[i].contact \in Contacts
    BY EventRead DEF Events
  <2> QED BY <1>0, <1>2, <2>1, <2>2 DEF Listen
<1>9. CASE \E c \in Contacts : Trigger(e, c)
  BY <1>0, <1>2, <1>9 DEF Trigger
<1>10. CASE CreateRow(e)
  BY <1>0, <1>1, <1>3, <1>4, <1>10 DEF CreateRow
<1>11. CASE FiringDies(e)
  <2>1. [exec[e] EXCEPT !.st = @] = exec[e]
    BY <1>1 DEF ExecRecord
  <2>2. Fit([exec[e] EXCEPT !.st = IF mem[e].pc = "found" THEN "gone" ELSE @])
    BY <1>1, <1>4, <2>1 DEF Fit
  <2> QED BY <1>0, <1>11, <2>2 DEF FiringDies
<1>12. CASE Enter(e)
  <2>1. Enter(e) => exec' = exec \/ exec' = Stored(e, mem[e].at)
    BY DEF Enter
  <2> DEFINE x == [[exec[e] EXCEPT !.node = mem[e].at] EXCEPT !.st = "Running"]
  <2>2. Fit(x)
    BY <1>5
  <2>3. exec' = exec \/ exec' = [exec EXCEPT ![e] = x]
    BY <1>12, <2>1 DEF Stored
  <2> HIDE DEF x
  <2> QED BY <1>0, <2>2, <2>3
<1>13. CASE Wait(e)
  <2>1. mem[e].at \in Steps
    BY <1>13 DEF Wait, Located, InRun
  <2>2. Next1(mem[e].at) \in Nat
    BY <2>1, NextDrawn
  <2> DEFINE x == [[exec[e] EXCEPT !.node = Next1(mem[e].at)] EXCEPT !.st = "Running"]
  <2>3. Fit(x)
    BY <1>5, <2>2
  <2>4. exec' = exec \/ exec' = [exec EXCEPT ![e] = x]
    BY <1>13 DEF Wait, Stored
  <2> HIDE DEF x
  <2> QED BY <1>0, <2>3, <2>4
<1>14. CASE RecordNode(e)
  BY <1>0, <1>6, <1>14 DEF RecordNode
<1>15. CASE RecordMessage(e) \/ Finish(e)
  BY <1>0, <1>7, <1>15 DEF RecordMessage, Finish
<1>16. CASE ScheduleRetry(e)
  <2> DEFINE n == mem[e].at
             x == [[[exec[e] EXCEPT !.tries = @ + 1] EXCEPT !.node = n] EXCEPT !.st = "Running"]
  <2>1. n \in Steps
    BY <1>16 DEF ScheduleRetry, Located, InRun
  <2>2. exec[e].tries + 1 < Retries(n) => Fit(x)
    <3>1. Retries(n) \in Int /\ Retries(n) <= 5
      BY <2>1, FewRetries
    <3>2. ASSUME exec[e].tries + 1 < Retries(n) PROVE exec[e].tries + 1 \in 0..4
      BY <1>1, <3>1, <3>2
    <3> QED BY <1>1, <3>2 DEF Fit, ExecRecord, ExecutionStatus
  <2>3. \/ exec' = exec
        \/ exec[e].tries + 1 < Retries(n) /\ exec' = [exec EXCEPT ![e] = x]
    BY <1>16 DEF ScheduleRetry
  <2> HIDE DEF x
  <2> QED BY <1>0, <2>2, <2>3
<1>17. CASE MarkFailed(e)
  <2>1. [exec[e] EXCEPT !.st = @] = exec[e]
    BY <1>1 DEF ExecRecord
  <2>2. Fit([exec[e] EXCEPT !.st = IF @ = "Running" THEN "Failed" ELSE @])
    BY <1>1, <1>4, <2>1 DEF Fit
  <2> QED BY <1>0, <1>17, <2>2 DEF MarkFailed
<1>18. CASE \/ AddJob(e) \/ TakeJob(e) \/ WorkerDies(e) \/ Load(e) \/ Send(e) \/ Pay(e)
            \/ Requeue(e) \/ TagContact(e) \/ Branch(e) \/ Return(e) \/ Throw(e)
  BY <1>0, <1>18
     DEF AddJob, TakeJob, WorkerDies, Load, Send, Pay, Requeue, TagContact, Branch, Return, Throw
<1> QED BY <1>8, <1>9, <1>10, <1>11, <1>12, <1>13, <1>14, <1>15, <1>16, <1>17, <1>18
        DEF StepsOf, WorkerStep

(* Its job is run again only while it has attempts left. *)
LEMMA JobHolds ==
  ASSUME NEW e \in Executions, StepsOf(e), job \in [Executions -> JobRecord]
  PROVE  job' \in [Executions -> JobRecord]
<1> DEFINE Ok == job' \in [Executions -> JobRecord]
<1> SUFFICES Ok
  OBVIOUS
<1>0. (\A j \in JobRecord : job' = [job EXCEPT ![e] = j] => Ok) /\ (job' = job => Ok)
  OBVIOUS
<1>1. Attempts \in Nat \ {0}
  BY StoreAssumption
<1>2. job[e] \in JobRecord /\ job[e].made \in 0..Attempts - 1 /\ job[e].stalled \in BOOLEAN
  <2>1. job[e] \in JobRecord
    OBVIOUS
  <2> QED BY <2>1 DEF JobRecord
<1>3. ASSUME NEW s \in JobState PROVE [job[e] EXCEPT !.st = s] \in JobRecord
  BY <1>2 DEF JobRecord
<1>4. NoJob \in JobRecord
  BY <1>1 DEF JobRecord, NoJob, JobState
<1> HIDE DEF Ok
<1>5. CASE AddJob(e) \/ Requeue(e)
  BY <1>0, <1>3, <1>5 DEF AddJob, Requeue, Added, JobState
<1>6. CASE TakeJob(e) \/ MarkFailed(e)
  BY <1>0, <1>3, <1>6 DEF TakeJob, MarkFailed, JobState
<1>7. CASE Return(e)
  BY <1>0, <1>4, <1>7 DEF Return
<1>8. CASE Throw(e)
  <2> DEFINE j == [[job[e] EXCEPT !.st = "waiting"] EXCEPT !.made = @ + 1]
  <2>1. ASSUME job[e].made + 1 < Attempts PROVE j \in JobRecord
    <3>1. job[e].made + 1 \in 0..Attempts - 1
      BY <1>1, <1>2, <2>1
    <3> QED BY <1>2, <3>1 DEF JobRecord, JobState
  <2>2. \/ job' = job
        \/ job[e].made + 1 < Attempts /\ job' = [job EXCEPT ![e] = j]
    <3>1. CASE job[e].made + 1 < Attempts
      <4>1. job' = [job EXCEPT ![e].st = "waiting", ![e].made = @ + 1]
        BY <1>8, <3>1 DEF Throw
      <4>2. job' = [job EXCEPT ![e] = j]
        BY <4>1
      <4> QED BY <3>1, <4>2
    <3>2. CASE ~(job[e].made + 1 < Attempts)
      BY <1>8, <3>2 DEF Throw
    <3> QED BY <3>1, <3>2
  <2> HIDE DEF j
  <2> QED BY <1>0, <2>1, <2>2
<1>9. CASE WorkerDies(e)
  <2> DEFINE j == [[job[e] EXCEPT !.st = IF job[e].stalled THEN "failed" ELSE "waiting"]
                     EXCEPT !.stalled = TRUE]
  <2>1. j \in JobRecord
    BY <1>2 DEF JobRecord, JobState
  <2>2. job' = [job EXCEPT ![e] = j]
    BY <1>9 DEF WorkerDies
  <2> HIDE DEF j
  <2> QED BY <1>0, <2>1, <2>2
<1>10. CASE \/ \E i \in DOMAIN events : Listen(e, i)
            \/ \E c \in Contacts : Trigger(e, c)
            \/ CreateRow(e) \/ FiringDies(e) \/ Load(e) \/ Enter(e) \/ Send(e) \/ Pay(e)
            \/ RecordNode(e) \/ RecordMessage(e) \/ ScheduleRetry(e) \/ TagContact(e)
            \/ Branch(e) \/ Wait(e) \/ Finish(e)
  BY <1>0, <1>10
     DEF Listen, Trigger, CreateRow, FiringDies, Load, Enter, Send, Pay, RecordNode,
         RecordMessage, ScheduleRetry, TagContact, Branch, Wait, Finish
<1> QED BY <1>5, <1>6, <1>7, <1>8, <1>9, <1>10 DEF StepsOf, WorkerStep

(* So what is stored of an execution keeps its kind, and so do the tags that it
   writes and the events that it takes. *)
LEMMA ExecutionHolds ==
  ASSUME TypeInv, UNCHANGED world, NEW e \in Executions, StepsOf(e)
  PROVE  Recorded' /\ AutomationsHold'
<1>0. /\ world \in Worlds /\ present \subseteq Contacts /\ Located(e) /\ Recorded
      /\ AutomationsHold /\ events \in Seq(Events) /\ tags \in [Contacts -> SUBSET Tags]
      /\ mem[e].pc \notin {"idle", "found"} => exec[e].st # "none"
  BY DEF TypeInv, Known, ImportInv, ImportTypes, Bounds, AutomationInv, Orderly, PlacedInv,
         LateInv, Late, Recorded
<1>1. /\ exec \in [Executions -> ExecRecord] /\ mem \in [Executions -> MemRecord]
      /\ job \in [Executions -> JobRecord] /\ sendCount \in Nat
      /\ \A f \in Executions : Going(f) => exec[f].node \in Nat
  BY <1>0 DEF AutomationsHold
<1>2. exec[e].contact \in Contacts /\ mem[e].at \in Nat /\ mem[e].tags \subseteq Tags
  <2>1. exec[e] \in ExecRecord /\ mem[e] \in MemRecord
    BY <1>1
  <2> QED BY <2>1 DEF ExecRecord, MemRecord
<1>3. mem' \in [Executions -> MemRecord]
  BY <1>0, <1>1, ProcessHolds
<1>4. job' \in [Executions -> JobRecord]
  BY <1>1, JobHolds
<1>5. /\ exec' \in [Executions -> ExecRecord]
      /\ \A f \in Executions : Going(f)' => exec'[f].node \in Nat
  <2>1. \A f \in Executions : Fit(exec[f])
    BY <1>1 DEF Fit, Going
  <2>2. DOMAIN exec = Executions /\ exec = [f \in Executions |-> exec[f]]
    BY <1>1
  <2>3. exec' = [f \in Executions |-> exec'[f]] /\ \A f \in Executions : Fit(exec'[f])
    BY <1>0, <1>2, <2>1, <2>2, RowHolds
  <2>4. \A f \in Executions : exec'[f] \in ExecRecord
    BY <2>3 DEF Fit
  <2>5. \A f \in Executions : Going(f)' => exec'[f].node \in Nat
    BY <2>3 DEF Fit, Going
  <2> QED BY <2>3, <2>4, <2>5
<1>6. UNCHANGED <<status, config, cron, ran, laps, req, optOut, analytic, day>> /\ sendCount' \in Nat
  <2>1. CASE \/ \E i \in DOMAIN events : Listen(e, i)
             \/ \E c \in Contacts : Trigger(e, c)
             \/ CreateRow(e) \/ AddJob(e) \/ FiringDies(e) \/ TakeJob(e) \/ WorkerDies(e)
    BY <1>1, <2>1 DEF Listen, Trigger, CreateRow, AddJob, FiringDies, TakeJob, WorkerDies,
                      automation, firing, store
  <2>2. CASE WorkerStep(e)
    <3>1. CASE RecordNode(e) \/ RecordMessage(e)
      BY <1>1, <3>1 DEF RecordNode, RecordMessage, Elsewhere, firing
    <3>2. CASE Load(e) \/ Enter(e) \/ Send(e) \/ Pay(e) \/ ScheduleRetry(e) \/ Requeue(e)
      BY <1>1, <3>2 DEF Load, Enter, Send, Pay, ScheduleRetry, Requeue, Elsewhere, firing
    <3>3. CASE TagContact(e) \/ Branch(e) \/ Wait(e) \/ Finish(e)
      BY <1>1, <3>3 DEF TagContact, Branch, Wait, Finish, Elsewhere, firing
    <3>4. CASE Return(e) \/ Throw(e) \/ MarkFailed(e)
      BY <1>1, <3>4 DEF Return, Throw, MarkFailed, Elsewhere, firing, automation, store
    <3> QED BY <2>2, <3>1, <3>2, <3>3, <3>4 DEF WorkerStep
  <2> QED BY <2>1, <2>2 DEF StepsOf
<1>7. tags' \in [Contacts -> SUBSET Tags]
  <2>1. CASE TagContact(e)
    <3>1. CASE UNCHANGED tags
      BY <1>0, <3>1
    <3>2. CASE Node(mem[e].at).tag # None /\ tags' = [tags EXCEPT ![exec[e].contact] = NewTags(e)]
      <4>1. mem[e].at \in Steps
        BY <2>1, <1>0 DEF TagContact, Located, InRun
      <4>2. Node(mem[e].at).tag \in Tags \cup {None}
        BY <1>0, <4>1, FlowDrawn DEF WorkflowNode
      <4>3. NewTags(e) \in SUBSET Tags
        BY <1>2, <3>2, <4>2 DEF NewTags
      <4> QED BY <1>0, <1>2, <3>2, <4>3
    <3> QED BY <2>1, <3>1, <3>2 DEF TagContact
  <2>2. CASE ~TagContact(e)
    <3>1. UNCHANGED tags
      BY <2>2 DEF StepsOf, Listen, Trigger, CreateRow, AddJob, FiringDies, TakeJob, WorkerDies,
             store, WorkerStep, Load, Enter, Send, Pay, RecordNode, RecordMessage,
             ScheduleRetry, Requeue, Branch, Wait, Finish, Return, Throw, MarkFailed
    <3> QED BY <1>0, <3>1
  <2> QED BY <2>1, <2>2
<1>8. events' \in Seq(Events)
  <2>1. CASE \E i \in DOMAIN events : Listen(e, i)
    BY <1>0, <2>1, EventRemoved DEF Listen
  <2>2. CASE ~\E i \in DOMAIN events : Listen(e, i)
    <3>1. UNCHANGED events
      BY <2>2 DEF StepsOf, Trigger, CreateRow, AddJob, FiringDies, TakeJob, WorkerDies,
             store, WorkerStep, Load, Enter, Send, Pay, RecordNode, RecordMessage,
             ScheduleRetry, Requeue, TagContact, Branch, Wait, Finish, Return, Throw,
             MarkFailed, Elsewhere
    <3> QED BY <1>0, <3>1
  <2> QED BY <2>1, <2>2
<1>9. Recorded'
  BY <1>0, <1>6, <1>7, <1>8 DEF Recorded
<1>10. late' \in [Executions -> Nat]
  <2>1. late \in [Executions -> Nat]
    BY <1>0 DEF AutomationsHold
  <2>2. CASE Send(e)
    BY <2>1, <2>2 DEF Send, Hand
  <2>3. CASE ~Send(e)
    <3>1. UNCHANGED late
      BY <2>3 DEF StepsOf, Listen, Trigger, CreateRow, AddJob, FiringDies, TakeJob, WorkerDies,
             history, WorkerStep, Load, Enter, Pay, RecordNode, RecordMessage,
             ScheduleRetry, Requeue, TagContact, Branch, Wait, Finish, Return, Throw, MarkFailed
    <3> QED BY <2>1, <3>1
  <2> QED BY <2>2, <2>3
<1>11. AutomationsHold'
  <2>1. /\ status' \in AutomationStatus \cup {"gone"} /\ config' \in Configs
        /\ cron' \in [Runs -> CronRecord] /\ ran' \in [Backends -> 0..MaxDay \cup {Never}]
        /\ laps' \in Nat /\ req' \in [Clients -> RequestRecord]
    BY <1>0, <1>6 DEF AutomationsHold
  <2> QED BY <1>3, <1>4, <1>5, <1>6, <1>10, <2>1 DEF AutomationsHold
<1> QED BY <1>9, <1>11

(* What crons remember is the contacts and the configuration that they read. *)
LEMMA CronHolds ==
  ASSUME TypeInv, UNCHANGED world, NEW k \in Runs, CronFires(k) \/ CronStep(k) \/ CronDies(k)
  PROVE  Recorded' /\ AutomationsHold'
<1>0. /\ present \subseteq Contacts /\ AutomationsHold /\ Recorded /\ LateCron(k)
      /\ day \in 0..MaxDay /\ config \in Configs
  BY DEF TypeInv, Known, ImportInv, ImportTypes, AutomationInv, PlacedInv, LateInv, Recorded,
         AutomationsHold
<1>1. Recorded'
  <2>1. UNCHANGED <<tags, optOut, analytic, events, day>>
    BY DEF CronFires, CronStep, CronCreates, CronAdds, CronMarks, CronDies, store
  <2> QED BY <1>0, <2>1 DEF Recorded
<1>2. /\ cron \in [Runs -> CronRecord] /\ cron[k] \in CronRecord
      /\ exec \in [Executions -> ExecRecord] /\ job \in [Executions -> JobRecord]
  <2>1. cron \in [Runs -> CronRecord]
    BY <1>0 DEF AutomationsHold
  <2> QED BY <1>0, <2>1 DEF AutomationsHold
<1>3. NoCron \in CronRecord
  <2>1. 0 \in 0..MaxDay
    BY StoreAssumption
  <2> QED BY <2>1 DEF NoCron, CronRecord, CronPC, Configs
<1>4. CronStops(k) => cron' \in [Runs -> CronRecord]
  BY <1>2, <1>3 DEF CronStops
<1>5. /\ cron[k].todo \subseteq Contacts /\ cron[k].seen \in Configs
      /\ cron[k].pc = "add" => cron[k].cur \in Executions
  BY <1>0, <1>2 DEF CronRecord, LateCron
<1>6. CASE CronFires(k)
  <2>1. Targets \subseteq Contacts
    BY <1>0 DEF Targets
  <2>2. PICK b \in Backends :
          /\ ran' = [ran EXCEPT ![b] = day] /\ laps' \in {laps, laps + 1}
          /\ cron' = [cron EXCEPT ![k] = [pc |-> "create", todo |-> Targets, cur |-> 0,
                                         seen |-> config, by |-> b, now |-> day]]
    BY <1>6 DEF CronFires
  <2>3. [pc |-> "create", todo |-> Targets, cur |-> 0, seen |-> config, by |-> b, now |-> day]
          \in CronRecord
    BY <1>0, <2>1 DEF CronRecord, CronPC
  <2>4. cron' \in [Runs -> CronRecord]
    BY <1>2, <2>2, <2>3
  <2>5. ran' \in [Backends -> 0..MaxDay \cup {Never}] /\ laps' \in Nat
    BY <1>0, <2>2 DEF AutomationsHold
  <2>6. UNCHANGED <<automation, executions, req, history>>
    BY <1>6 DEF CronFires
  <2> QED BY <1>0, <1>1, <2>4, <2>5, <2>6
          DEF AutomationsHold, history, automation, executions, Going
<1>7. ASSUME NEW e \in Executions, CronCreates(k, e) PROVE AutomationsHold'
  <2>1. /\ exec' \in [Executions -> ExecRecord] /\ cron' \in [Runs -> CronRecord]
        /\ \A f \in Executions : Going(f)' => exec'[f].node \in Nat
    <3>1. CASE CronStops(k) /\ UNCHANGED exec
      BY <1>0, <1>4, <3>1 DEF AutomationsHold, Going
    <3>2. ASSUME NEW c \in cron[k].todo, exec' = [exec EXCEPT ![e] = Row("Running", c)],
                 cron' = [cron EXCEPT ![k].pc = "add", ![k].cur = e, ![k].todo = @ \ {c}]
          PROVE  /\ exec' \in [Executions -> ExecRecord] /\ cron' \in [Runs -> CronRecord]
                 /\ \A f \in Executions : Going(f)' => exec'[f].node \in Nat
      <4>1. Row("Running", c) \in ExecRecord
        BY <1>5 DEF ExecRecord, Row, ExecutionStatus
      <4>2. exec' \in [Executions -> ExecRecord]
        BY <1>2, <3>2, <4>1
      <4>3. \A f \in Executions : Going(f)' => exec'[f].node \in Nat
        BY <1>0, <1>2, <3>2 DEF AutomationsHold, Going, Row
      <4>4. PICK m : m = [[[cron[k] EXCEPT !.pc = "add"] EXCEPT !.cur = e] EXCEPT !.todo = @ \ {c}]
        OBVIOUS
      <4>5. m \in CronRecord
        BY <1>2, <1>5, <4>4 DEF CronRecord, CronPC
      <4>6. cron' = [cron EXCEPT ![k] = m]
        BY <3>2, <4>4
      <4> QED BY <1>2, <4>2, <4>3, <4>5, <4>6
    <3> QED BY <1>7, <3>1, <3>2 DEF CronCreates
  <2> QED BY <1>0, <1>7, <2>1 DEF CronCreates, AutomationsHold, history, automation
<1>8. CASE CronAdds(k)
  <2>1. job' \in [Executions -> JobRecord]
    <3>1. job[cron[k].cur] \in JobRecord
      BY <1>2, <1>5, <1>8 DEF CronAdds
    <3>2. [job[cron[k].cur] EXCEPT !.st = "waiting"] \in JobRecord
      BY <3>1 DEF JobRecord, JobState
    <3> QED BY <1>2, <1>5, <1>8, <3>2 DEF CronAdds, Added
  <2>2. cron' \in [Runs -> CronRecord]
    <3>1. PICK m : m = [[cron[k] EXCEPT !.pc = "create"] EXCEPT !.cur = 0]
      OBVIOUS
    <3>2. m \in CronRecord
      BY <1>2, <3>1 DEF CronRecord, CronPC
    <3>3. CronStops(k) \/ cron' = [cron EXCEPT ![k] = m]
      BY <1>8, <3>1 DEF CronAdds
    <3> QED BY <1>2, <1>4, <3>2, <3>3
  <2> QED BY <1>0, <1>1, <1>8, <2>1, <2>2 DEF CronAdds, AutomationsHold, history, automation, Going
<1>9. CASE CronMarks(k)
  <2>1. cron[k].now \in 0..MaxDay
    BY <1>2 DEF CronRecord
  <2>2. [cron[k].seen EXCEPT !.fired = day] \in Configs
        /\ [cron[k].seen EXCEPT !.fired = cron[k].now] \in Configs
    BY <1>0, <1>5, <2>1 DEF Configs
  <2>3. config' \in Configs
    BY <1>0, <1>9, <2>2 DEF CronMarks
  <2>4. cron' \in [Runs -> CronRecord]
    BY <1>4, <1>9 DEF CronMarks
  <2> QED BY <1>0, <1>1, <1>9, <2>3, <2>4 DEF CronMarks, AutomationsHold, history, executions, Going
<1>10. CASE CronDies(k)
  <2>1. cron' \in [Runs -> CronRecord]
    BY <1>2, <1>3, <1>10 DEF CronDies
  <2> QED BY <1>0, <1>1, <1>10, <2>1 DEF CronDies, AutomationsHold, history, automation, executions, Going
<1> QED BY <1>1, <1>6, <1>7, <1>8, <1>9, <1>10 DEF CronStep

(* Requests write a status or a date, and delete rows. *)
LEMMA RequestHolds ==
  ASSUME TypeInv, UNCHANGED world,
         \/ \E r \in Clients : Toggle(r) \/ Delete(r) \/ RequestStep(r)
         \/ \E d \in 0..MaxDay : SetDate(d)
  PROVE  Recorded' /\ AutomationsHold'
<1>0. AutomationsHold /\ Recorded
  BY DEF TypeInv
<1>1. Recorded'
  <2>1. UNCHANGED <<tags, optOut, analytic, events, day>>
    BY DEF Toggle, Delete, Ask, RequestStep, WriteToggle, WriteDelete, SetDate, store
  <2> QED BY <1>0, <2>1 DEF Recorded
<1>2. /\ req \in [Clients -> RequestRecord] /\ status \in AutomationStatus \cup {"gone"}
      /\ exec \in [Executions -> ExecRecord]
      /\ \A e \in Executions : Going(e) => exec[e].node \in Nat
  BY <1>0 DEF AutomationsHold
<1>3. ASSUME NEW r \in Clients, Answer(r) PROVE req' \in [Clients -> RequestRecord]
  <2>1. [req[r] EXCEPT !.op = "idle"] \in RequestRecord
    BY <1>2 DEF RequestRecord
  <2> QED BY <1>2, <1>3, <2>1 DEF Answer
<1>4. ASSUME NEW r \in Clients, Toggle(r) \/ Delete(r) PROVE AutomationsHold'
  <2>1. PICK op \in {"toggle", "delete"} : Ask(r, op)
    BY <1>4 DEF Toggle, Delete
  <2>2. [op |-> op, seen |-> status] \in RequestRecord
    BY <1>2, <2>1 DEF Ask, RequestRecord
  <2>3. req' \in [Clients -> RequestRecord]
    BY <1>2, <2>1, <2>2 DEF Ask
  <2> QED BY <1>0, <2>1, <2>3 DEF Ask, AutomationsHold, history, automation, executions, Going
<1>5. ASSUME NEW r \in Clients, WriteToggle(r) PROVE AutomationsHold'
  <2>1. status' \in AutomationStatus \cup {"gone"}
    BY <1>5 DEF WriteToggle, AutomationStatus
  <2>2. req' \in [Clients -> RequestRecord]
    BY <1>3, <1>5 DEF WriteToggle
  <2> QED BY <1>0, <1>5, <2>1, <2>2 DEF WriteToggle, AutomationsHold, history, executions, Going
<1>6. ASSUME NEW r \in Clients, WriteDelete(r) PROVE AutomationsHold'
  <2>1. ASSUME NEW e \in Executions PROVE [exec[e] EXCEPT !.st = "gone"] \in ExecRecord
    BY <1>2 DEF ExecRecord, ExecutionStatus
  <2>2. exec' \in [Executions -> ExecRecord]
    BY <1>2, <1>6, <2>1 DEF WriteDelete
  <2>3. \A e \in Executions : Going(e)' => exec'[e].node \in Nat
    <3>1. \A e \in Executions : HasRow(e) => exec'[e].st = "gone"
      BY <1>2, <1>6 DEF WriteDelete, ExecRecord
    <3>2. \A e \in Executions : ~HasRow(e) => exec'[e] = exec[e]
      BY <1>6 DEF WriteDelete
    <3> QED BY <1>2, <3>1, <3>2 DEF Going
  <2>4. req' \in [Clients -> RequestRecord]
    BY <1>3, <1>6 DEF WriteDelete
  <2> QED BY <1>0, <1>6, <2>2, <2>3, <2>4 DEF WriteDelete, AutomationsHold, history
<1>7. ASSUME NEW d \in 0..MaxDay, SetDate(d) PROVE AutomationsHold'
  <2>1. [date |-> d, fired |-> Never] \in Configs
    BY DEF Configs
  <2>2. config' \in Configs
    BY <1>7, <2>1 DEF SetDate
  <2> QED BY <1>0, <1>7, <2>2 DEF SetDate, AutomationsHold, history, executions, firing, Going
<1> QED BY <1>1, <1>4, <1>5, <1>6, <1>7 DEF RequestStep

(* So nothing that automations do changes the kind of what is stored. *)
LEMMA AutomationsTyped ==
  ASSUME TypeInv, UNCHANGED world, AutomationsNext
  PROVE  Recorded' /\ AutomationsHold'
<1>1. \/ \E e \in Executions : StepsOf(e)
      \/ \E k \in Runs : CronFires(k) \/ CronStep(k) \/ CronDies(k)
      \/ \E r \in Clients : Toggle(r) \/ Delete(r) \/ RequestStep(r)
      \/ \E d \in 0..MaxDay : SetDate(d)
  BY DEF AutomationsNext, StepsOf
<1> QED BY <1>1, ExecutionHolds, CronHolds, RequestHolds

-----------------------------------------------------------------------------
(* Imports *)

(* An import is at a row of its file or after the last, and a file is taken again only
   while it has attempts left. *)
LEMMA ImportsTyped ==
  ASSUME TypeInv, UNCHANGED world, ImportNext
  PROVE  Recorded' /\ ImportsHold'
<1>0. /\ Recorded /\ ImportsHold /\ ImportInv /\ Attempts \in Nat
      /\ tags \in [Contacts -> SUBSET Tags] /\ events \in Seq(Events)
      /\ present \subseteq Contacts
  BY StoreAssumption DEF TypeInv, Known, Recorded, ImportInv, ImportTypes
<1>1. PICK f \in Files : TakeFile(f) \/ ImportStep(f) \/ ImportDies(f)
  BY DEF ImportNext
<1>2. /\ Total(f) \in Nat /\ imp \in [Files -> ImportRecord] /\ Reading(f, imp[f])
      /\ imp[f] \in ImportRecord /\ Imported(imp[f], f)
  BY <1>0, RowsOf DEF ImportInv, ImportTypes, Bounds, ImportsHold
<1>3. UNCHANGED <<optOut, analytic, day>> /\ \A g \in Files : Total(g)' = Total(g)
  BY ImportFrame DEF Apart, Total, Rows
<1>4. ASSUME Imported(imp'[f], f), \A g \in Files \ {f} : imp'[g] = imp[g] PROVE ImportsHold'
  BY <1>0, <1>3, <1>4 DEF ImportsHold, Imported
<1> USE DEF ImportRecord, Imported
<1>5. ASSUME NEW k, NEW K, Counted(f, k, K), imp[f].pc = "row" PROVE ImportsHold'
  <2>1. imp[f].pos \in Nat /\ imp[f].pos < Total(f)
    BY <1>2, <1>5 DEF Reading
  <2>2. /\ imp'[f].pos = imp[f].pos + 1 /\ imp'[f].made = imp[f].made /\ imp'[f].st = imp[f].st
        /\ \A g \in Files \ {f} : imp'[g] = imp[g]
    BY <1>2, <1>5 DEF Counted
  <2> QED BY <1>2, <1>4, <1>5, <2>1, <2>2
<1>6. CASE TakeFile(f)
  <2>1. UNCHANGED <<tags, events>>
    BY <1>6 DEF TakeFile
  <2>2. ImportsHold'
    BY <1>2, <1>4, <1>6 DEF TakeFile
  <2> QED BY <1>0, <1>3, <2>1, <2>2 DEF Recorded
<1>7. CASE ReadBatch(f) \/ GenerateReport(f) \/ ImportEnds(f)
  <2>1. UNCHANGED <<tags, events>>
    BY <1>7 DEF ReadBatch, GenerateReport, ImportEnds
  <2>2. ImportsHold'
    BY <1>2, <1>4, <1>7 DEF ReadBatch, GenerateReport, ImportEnds
  <2> QED BY <1>0, <1>3, <2>1, <2>2 DEF Recorded
<1>8. CASE ImportThrows(f) \/ ImportDies(f)
  <2>1. UNCHANGED <<tags, events>>
    BY <1>8 DEF ImportThrows, ImportDies
  <2>2. imp[f].st = "active"
    BY <1>2, <1>8 DEF ImportThrows, ImportDies
  <2>3. CASE ImportThrows(f)
    <3>1. /\ imp'[f].made = imp[f].made + 1 /\ imp'[f].pos = imp[f].pos /\ imp'[f].pc = "idle"
          /\ imp'[f].st = IF imp[f].made + 1 < Attempts THEN "waiting" ELSE "failed"
          /\ \A g \in Files \ {f} : imp'[g] = imp[g]
      BY <1>2, <2>3 DEF ImportThrows
    <3>2. imp[f].made \in Nat /\ imp[f].made < Attempts
      BY <1>2, <2>2
    <3>3. ImportsHold'
      BY <1>0, <1>2, <1>4, <3>1, <3>2
    <3> QED BY <1>0, <1>3, <2>1, <3>3 DEF Recorded
  <2>4. CASE ImportDies(f)
    <3>1. ImportsHold'
      BY <1>2, <1>4, <2>2, <2>4 DEF ImportDies
    <3> QED BY <1>0, <1>3, <2>1, <3>1 DEF Recorded
  <2> QED BY <1>8, <2>3, <2>4
<1>9. CASE InvalidRow(f)
  <2>1. UNCHANGED <<tags, events>> /\ ImportsHold'
    BY <1>5, <1>9 DEF InvalidRow
  <2> QED BY <1>0, <1>3, <2>1 DEF Recorded
<1>10. CASE DuplicateRow(f)
  <2>1. UNCHANGED events /\ ImportsHold'
    BY <1>5, <1>10 DEF DuplicateRow
  <2>2. RowOf(f).tags \subseteq Tags
    BY <1>0, <1>10, RowType DEF DuplicateRow
  <2>3. tags' \in [Contacts -> SUBSET Tags]
    BY <1>0, <1>10, <2>2 DEF DuplicateRow
  <2> QED BY <1>0, <1>3, <2>1, <2>3 DEF Recorded
<1>11. CASE NewRow(f)
  <2>1. ImportsHold'
    BY <1>5, <1>11 DEF NewRow
  <2>2. RowOf(f).tags \subseteq Tags /\ RowOf(f).contact \in Contacts
    BY <1>0, <1>11, RowType DEF NewRow, Keyed
  <2>3. tags' \in [Contacts -> SUBSET Tags]
    BY <1>0, <1>11, <2>2 DEF NewRow
  <2>4. events' \in Seq(Events)
    <3>1. "contact_added" \in EventKinds
      BY DEF EventKinds
    <3>2. UNCHANGED events \/ Emit("contact_added", RowOf(f).contact)
      BY <1>11 DEF NewRow
    <3> QED BY <1>0, <2>2, <3>1, <3>2, EventEmitted
  <2> QED BY <1>0, <1>3, <2>1, <2>3, <2>4 DEF Recorded
<1> QED BY <1>1, <1>6, <1>7, <1>8, <1>9, <1>10, <1>11 DEF ImportStep

-----------------------------------------------------------------------------
(* Webhooks and links *)

(* What a handler remembers came with its message, or was read in the row. *)
LEMMA DeliveryTyped ==
  ASSUME TypeInv, UNCHANGED world, DeliveryNext
  PROVE  Recorded' /\ DeliveryHolds'
<1> DEFINE Ok == Recorded' /\ DeliveryHolds'
<1> SUFFICES Ok
  OBVIOUS
<1>0. /\ Recorded /\ DeliveryHolds /\ world \in Worlds
  BY DEF TypeInv, Known, ImportInv, ImportTypes, Bounds
<1>1. /\ optOut \in [Contacts -> BOOLEAN] /\ analytic \subseteq Contacts /\ events \in Seq(Events)
      /\ send \in [Contacts -> SendStatus] /\ opened \subseteq Contacts /\ clicked \subseteq Contacts
      /\ lane \in [Lanes -> LaneHolds]
  BY <1>0 DEF Recorded, DeliveryHolds
<1>2. UNCHANGED <<tags, day>>
  BY DeliveryFrame DEF Beside
<1>3. ASSUME optOut' \in [Contacts -> BOOLEAN], analytic' \subseteq Contacts,
             events' \in Seq(Events), send' \in [Contacts -> SendStatus],
             opened' \subseteq Contacts, clicked' \subseteq Contacts,
             lane' \in [Lanes -> LaneHolds]
      PROVE  Ok
  BY <1>0, <1>2, <1>3 DEF Recorded, DeliveryHolds
<1>4. NoLane \in LaneHolds
  BY SomeContact DEF NoLane, LaneHolds, LaneAt, SendStatus
<1> HIDE DEF Ok
<1>5. ASSUME NEW m \in world.messages, ReceiveCard(m) PROVE Ok
  <2>1. UNCHANGED <<optOut, analytic, events, send, opened, clicked, lane>>
    BY <1>5 DEF ReceiveCard
  <2> QED BY <1>1, <1>3, <2>1
<1>6. ASSUME NEW m \in world.messages, NEW d \in Lanes, NEW c \in Contacts, Receive(d, m, c)
      PROVE  Ok
  <2>1. m \in Messages
    BY <1>0, StoreAssumption
  <2>2. send[c] \in SendStatus
    BY <1>1
  <2>3. [at |-> "write", src |-> m.src, kind |-> m.kind, contact |-> c, seen |-> send[c]]
          \in LaneHolds
    BY <2>1, <2>2 DEF LaneHolds, LaneAt
  <2>4. lane' \in [Lanes -> LaneHolds]
    BY <1>1, <1>4, <1>6, <2>3 DEF Receive
  <2>5. UNCHANGED <<optOut, analytic, events, send, opened, clicked>>
    BY <1>6 DEF Receive
  <2> QED BY <1>1, <1>3, <2>4, <2>5
<1>7. ASSUME NEW d \in Lanes PROVE LaneStep(d) \/ LaneFails(d) => Ok
  <2>1. lane[d] \in LaneHolds /\ To(d) \in Contacts
    <3>1. lane[d] \in LaneHolds
      BY <1>1
    <3> QED BY <3>1 DEF LaneHolds, To
  <2>2. Served(d) => lane' \in [Lanes -> LaneHolds]
    BY <1>1, <1>4 DEF Served
  <2>3. ASSUME NEW at \in LaneAt, Step(d, at) PROVE lane' \in [Lanes -> LaneHolds]
    <3>1. [lane[d] EXCEPT !.at = at] \in LaneHolds
      BY <2>1 DEF LaneHolds
    <3> QED BY <1>1, <2>3, <3>1 DEF Step
  <2>4. {"count", "log", "mark"} \subseteq LaneAt
    BY DEF LaneAt
  <2>5. \A s \in SendStatus : [send EXCEPT ![To(d)] = s] \in [Contacts -> SendStatus]
    BY <1>1, <2>1
  <2>6. {"PENDING", "SENT", "OPENED", "CLICKED", "BOUNCED", "UNSUBSCRIBED"} = SendStatus
    BY DEF SendStatus
  <2>7. /\ [optOut EXCEPT ![To(d)] = TRUE] \in [Contacts -> BOOLEAN]
        /\ opened \cup {To(d)} \subseteq Contacts /\ clicked \cup {To(d)} \subseteq Contacts
        /\ analytic \cup {To(d)} \subseteq Contacts
    BY <1>1, <2>1
  <2>8. CASE EmailWrite(d)
    <3>1. \A k \in DOMAIN EmailStatus : EmailStatus[k] \in SendStatus
      BY DEF EmailStatus, SendStatus
    <3>2. send' \in [Contacts -> SendStatus]
      BY <2>5, <2>8, <3>1 DEF EmailWrite, At
    <3>3. opened' \subseteq Contacts /\ clicked' \subseteq Contacts
      BY <1>1, <2>7, <2>8 DEF EmailWrite
    <3>4. UNCHANGED <<optOut, analytic, events>> /\ lane' \in [Lanes -> LaneHolds]
      BY <2>3, <2>4, <2>8 DEF EmailWrite
    <3> QED BY <1>1, <1>3, <3>2, <3>3, <3>4
  <2>9. CASE BouncedOptOut(d) \/ TrackUnsubscribe(d)
    <3>1. /\ UNCHANGED <<analytic, events, send, opened, clicked>>
          /\ optOut' = [optOut EXCEPT ![To(d)] = TRUE] /\ Served(d)
      BY <2>9 DEF BouncedOptOut, TrackUnsubscribe
    <3> QED BY <1>1, <1>3, <2>2, <2>7, <3>1
  <2>10. CASE ResendOpen(d) \/ ResendClick(d) \/ ResendBounce(d) \/ ResendMark(d)
    <3>1. send' \in [Contacts -> SendStatus]
      BY <1>1, <2>5, <2>6, <2>10 DEF ResendOpen, ResendClick, ResendBounce, ResendMark
    <3>2. opened' \subseteq Contacts /\ clicked' \subseteq Contacts
      BY <1>1, <2>7, <2>10 DEF ResendOpen, ResendClick, ResendBounce, ResendMark
    <3>3. UNCHANGED <<optOut, analytic, events>> /\ lane' \in [Lanes -> LaneHolds]
      BY <2>2, <2>3, <2>4, <2>10 DEF ResendOpen, ResendClick, ResendBounce, ResendMark
    <3> QED BY <1>1, <1>3, <3>1, <3>2, <3>3
  <2>11. CASE ResendUnsubscribe(d)
    <3>1. /\ UNCHANGED <<analytic, events, send, opened, clicked>>
          /\ optOut' = [optOut EXCEPT ![To(d)] = TRUE] /\ Step(d, "mark")
      BY <2>11 DEF ResendUnsubscribe
    <3> QED BY <1>1, <1>3, <2>3, <2>4, <2>7, <3>1
  <2>12. CASE Count(d)
    <3>1. UNCHANGED <<optOut, analytic, events, send, opened, clicked>>
      BY <2>12 DEF Count
    <3>2. lane' \in [Lanes -> LaneHolds]
      BY <2>2, <2>3, <2>4, <2>12 DEF Count
    <3> QED BY <1>1, <1>3, <3>1, <3>2
  <2>13. CASE Log(d)
    <3>1. events' \in Seq(Events)
      <4>1. CASE UNCHANGED events
        BY <1>1, <4>1
      <4>2. ASSUME NEW k \in {"campaign_opened", "link_clicked"}, Emit(k, To(d))
            PROVE  events' \in Seq(Events)
        <5>1. k \in EventKinds
          BY DEF EventKinds
        <5> QED BY <1>1, <2>1, <4>2, <5>1, EventEmitted
      <4> QED BY <2>13, <4>1, <4>2 DEF Log
    <3>2. UNCHANGED <<optOut, send, opened, clicked>> /\ Served(d) /\ analytic' \subseteq Contacts
      BY <1>1, <2>7, <2>13 DEF Log
    <3> QED BY <1>1, <1>3, <2>2, <3>1, <3>2
  <2>14. CASE Sms(d)
    <3>1. optOut' \in [Contacts -> BOOLEAN]
      BY <1>1, <2>1, <2>14 DEF Sms
    <3>2. send[To(d)] \in SendStatus
      BY <1>1, <2>1
    <3>3. PICK s \in SendStatus : send' = [send EXCEPT ![To(d)] = s]
      BY <2>6, <2>14, <3>2 DEF Sms
    <3>4. UNCHANGED <<analytic, events, opened, clicked>> /\ Served(d)
      BY <2>14 DEF Sms
    <3> QED BY <1>1, <1>3, <2>2, <2>5, <3>1, <3>3, <3>4
  <2>15. CASE TrackOpen(d) \/ TrackClick(d)
    <3>1. send' \in [Contacts -> SendStatus]
      BY <1>1, <2>5, <2>6, <2>15 DEF TrackOpen, TrackClick
    <3>2. opened' \subseteq Contacts /\ clicked' \subseteq Contacts /\ analytic' \subseteq Contacts
      BY <1>1, <2>7, <2>15 DEF TrackOpen, TrackClick
    <3>3. UNCHANGED <<optOut, events>> /\ Served(d)
      BY <2>15 DEF TrackOpen, TrackClick
    <3> QED BY <1>1, <1>3, <2>2, <3>1, <3>2, <3>3
  <2>16. CASE LaneFails(d)
    <3>1. UNCHANGED <<optOut, analytic, events, send, opened, clicked>> /\ Served(d)
      BY <2>16 DEF LaneFails
    <3> QED BY <1>1, <1>3, <2>2, <3>1
  <2> QED BY <2>8, <2>9, <2>10, <2>11, <2>12, <2>13, <2>14, <2>15, <2>16 DEF LaneStep
<1> QED BY <1>5, <1>6, <1>7 DEF DeliveryNext

-----------------------------------------------------------------------------
(* The contact book *)

(* The number of contacts that match is one of them. *)
LEMMA MatchingCounted ==
  Cardinality(Matching) \in 0..Cardinality(Contacts) /\ Cardinality(Contacts) \in Nat
<1>1. IsFiniteSet(Contacts) /\ Matching \subseteq Contacts
  BY StoreAssumption DEF Matching
<1> QED BY <1>1, FS_Subset, FS_CardinalityType

(* Forms say which tags they know, and counts are read in the table. *)
LEMMA BookTyped ==
  ASSUME TypeInv, UNCHANGED world, BookNext
  PROVE  Recorded' /\ BookHolds'
<1> DEFINE Ok == Recorded' /\ BookHolds'
           Recalcs == [adds : Nat, waiting : Nat, again : Nat]
<1> SUFFICES Ok
  OBVIOUS
<1>0. /\ Recorded /\ BookHolds /\ world \in Worlds /\ present \subseteq Contacts
  BY DEF TypeInv, Known, ImportInv, ImportTypes, Bounds
<1>1. /\ tags \in [Contacts -> SUBSET Tags] /\ optOut \in [Contacts -> BOOLEAN]
      /\ events \in Seq(Events)
      /\ form \in [Callers -> FormRecord] /\ recalc \in Recalcs
      /\ counting \in [Backends -> CountRecord] /\ segment \in 0..Cardinality(Contacts)
  BY <1>0 DEF Recorded, BookHolds
<1>2. UNCHANGED <<analytic, day>>
  BY BookFrame DEF Around
<1>3. ASSUME tags' \in [Contacts -> SUBSET Tags], optOut' \in [Contacts -> BOOLEAN],
             events' \in Seq(Events), form' \in [Callers -> FormRecord], recalc' \in Recalcs,
             counting' \in [Backends -> CountRecord], segment' \in 0..Cardinality(Contacts)
      PROVE  Ok
  BY <1>0, <1>2, <1>3 DEF Recorded, BookHolds
<1>4. NoForm \in FormRecord
  BY SomeContact DEF NoForm, FormRecord, FormOp, FormAt
<1>5. Recalculate => recalc' \in Recalcs
  BY <1>1 DEF Recalculate
<1> HIDE DEF Ok, Recalcs
<1>6. ASSUME NEW a \in Callers, NEW op \in world.operations, NEW c \in Contacts,
             NEW T \in world.lists, AskContact(a, op, c, T)
      PROVE  Ok
  <2>1. T \subseteq Tags /\ tags[c] \subseteq Tags
    BY <1>0, <1>1, ContactsAssumption
  <2>2. op \in FormOp /\ "write" \in FormAt
    BY <1>6 DEF AskContact, FormOp, FormAt
  <2>3. (CASE op = "addTags" -> tags[c] \cup T [] op = "optIn" -> {} [] OTHER -> T) \in SUBSET Tags
    BY <2>1
  <2>4. (IF op = "addTags" THEN T \ tags[c] ELSE {}) \in SUBSET Tags
    BY <2>1
  <2>5. PICK r : r = [op |-> op, at |-> "write", contact |-> c, hit |-> FALSE,
           tags |-> CASE op = "addTags" -> tags[c] \cup T [] op = "optIn" -> {} [] OTHER -> T,
           added |-> IF op = "addTags" THEN T \ tags[c] ELSE {}]
    OBVIOUS
  <2>6. r \in FormRecord
    BY <2>2, <2>3, <2>4, <2>5 DEF FormRecord
  <2>7. form' = [form EXCEPT ![a] = r]
    BY <1>6, <2>5 DEF AskContact
  <2>8. UNCHANGED <<tags, optOut, events, recalc, counting, segment>>
    BY <1>6 DEF AskContact
  <2> QED BY <1>1, <1>3, <2>6, <2>7, <2>8
<1>7. ASSUME NEW a \in Callers PROVE FormStep(a) \/ FormFails(a) => Ok
  <2>1. form[a] \in FormRecord /\ form[a].contact \in Contacts /\ form[a].tags \in SUBSET Tags
    <3>1. form[a] \in FormRecord
      BY <1>1
    <3> QED BY <3>1 DEF FormRecord
  <2>2. FormEnds(a) => form' \in [Callers -> FormRecord]
    BY <1>1, <1>4 DEF FormEnds
  <2>3. ASSUME NEW at \in FormAt, FormGoes(a, at) PROVE form' \in [Callers -> FormRecord]
    <3>1. [form[a] EXCEPT !.at = at] \in FormRecord
      BY <2>1 DEF FormRecord
    <3> QED BY <1>1, <2>3, <3>1 DEF FormGoes
  <2>4. {"announce", "match", "before"} \subseteq FormAt
    BY DEF FormAt
  <2>5. /\ [tags EXCEPT ![form[a].contact] = form[a].tags] \in [Contacts -> SUBSET Tags]
        /\ [optOut EXCEPT ![form[a].contact] = FALSE] \in [Contacts -> BOOLEAN]
        /\ [optOut EXCEPT ![form[a].contact] = TRUE] \in [Contacts -> BOOLEAN]
    BY <1>1, <2>1
  <2>6. CASE CreateContact(a)
    <3>1. UNCHANGED <<optOut, events, counting, segment>> /\ tags' \in [Contacts -> SUBSET Tags]
      BY <1>1, <2>5, <2>6 DEF CreateContact
    <3>2. form' \in [Callers -> FormRecord] /\ recalc' \in Recalcs
      BY <1>1, <1>5, <2>2, <2>3, <2>4, <2>6 DEF CreateContact
    <3> QED BY <1>1, <1>3, <3>1, <3>2
  <2>7. CASE UpdateContact(a)
    <3>1. /\ UNCHANGED <<events, counting, segment>> /\ tags' \in [Contacts -> SUBSET Tags]
          /\ optOut' \in [Contacts -> BOOLEAN]
      BY <1>1, <2>5, <2>7 DEF UpdateContact
    <3>2. form' \in [Callers -> FormRecord] /\ recalc' \in Recalcs
      BY <1>5, <2>3, <2>4, <2>7 DEF UpdateContact
    <3> QED BY <1>1, <1>3, <3>1, <3>2
  <2>8. CASE OptOut(a)
    <3>1. /\ UNCHANGED <<tags, events, counting, segment>> /\ optOut' \in [Contacts -> BOOLEAN]
          /\ form' \in [Callers -> FormRecord] /\ recalc' \in Recalcs
      BY <1>5, <2>2, <2>5, <2>8 DEF OptOut
    <3> QED BY <1>1, <1>3, <3>1
  <2>9. CASE Announce(a)
    <3>1. "contact_added" \in EventKinds
      BY DEF EventKinds
    <3>2. events' \in Seq(Events)
      BY <1>1, <2>1, <2>9, <3>1, EventEmitted DEF Announce
    <3>3. /\ UNCHANGED <<tags, optOut, recalc, counting, segment>>
          /\ form' \in [Callers -> FormRecord]
      BY <2>3, <2>4, <2>9 DEF Announce
    <3> QED BY <1>1, <1>3, <3>2, <3>3
  <2>10. ASSUME NEW k \in EventKinds PROVE <<Event(k, form[a].contact)>> \in Seq(Events)
    <3>1. Event(k, form[a].contact) \in Events
      BY <2>1 DEF Event, Events
    <3> QED BY <3>1
  <2>11. /\ <<>> \in Seq(Events)
         /\ \A b \in BOOLEAN : JoinedEvents(form[a].contact, b) \in Seq(Events)
    BY <2>10 DEF JoinedEvents, EventKinds
  <2>12. CASE MatchNext(a)
    <3>1. PICK found \in BOOLEAN :
            IF form[a].op = "create"
            THEN events' = events \o JoinedEvents(form[a].contact, found) /\ FormEnds(a)
            ELSE /\ form' = [form EXCEPT ![a].at = "before", ![a].hit = found]
                 /\ UNCHANGED events
      BY <2>12 DEF MatchNext
    <3>2. events' \in Seq(Events)
      BY <1>1, <2>11, <3>1, EventsEmitted
    <3>3. form' \in [Callers -> FormRecord]
      <4>1. PICK r : r = [[form[a] EXCEPT !.at = "before"] EXCEPT !.hit = found]
        OBVIOUS
      <4>2. r \in FormRecord
        BY <2>1, <2>4, <4>1 DEF FormRecord
      <4>3. FormEnds(a) \/ form' = [form EXCEPT ![a] = r]
        BY <3>1, <4>1
      <4> QED BY <1>1, <2>2, <4>2, <4>3
    <3>4. UNCHANGED <<tags, optOut, recalc, counting, segment>>
      BY <2>12 DEF MatchNext
    <3> QED BY <1>1, <1>3, <3>2, <3>3, <3>4
  <2>13. CASE MatchBefore(a)
    <3>1. PICK found \in BOOLEAN :
            events' = events \o JoinedEvents(form[a].contact, form[a].hit /\ ~found)
                        \o (IF form[a].added # {} THEN <<Event("tag_added", form[a].contact)>> ELSE <<>>)
      BY <2>13 DEF MatchBefore
    <3>2. PICK p : p = JoinedEvents(form[a].contact, form[a].hit /\ ~found)
      OBVIOUS
    <3>3. PICK q : q = IF form[a].added # {} THEN <<Event("tag_added", form[a].contact)>> ELSE <<>>
      OBVIOUS
    <3>4. p \in Seq(Events)
      BY <2>11, <3>2 DEF JoinedEvents
    <3>5. q \in Seq(Events)
      BY <2>10, <2>11, <3>3 DEF EventKinds
    <3>6. PICK E : E = Events
      OBVIOUS
    <3>7. events \in Seq(E) /\ p \in Seq(E) /\ q \in Seq(E) /\ events' = events \o p \o q
      BY <1>1, <3>1, <3>2, <3>3, <3>4, <3>5, <3>6
    <3>8. events' \in Seq(E)
      <4>1. events \o p \in Seq(E)
        BY <3>7, ConcatProperties
      <4> QED BY <3>7, <4>1, ConcatProperties
    <3>9. UNCHANGED <<tags, optOut, recalc, counting, segment>> /\ FormEnds(a)
      BY <2>13 DEF MatchBefore
    <3> QED BY <1>1, <1>3, <2>2, <3>6, <3>8, <3>9
  <2>14. CASE FormFails(a)
    <3>1. UNCHANGED <<tags, optOut, events, recalc, counting, segment>> /\ FormEnds(a)
      BY <2>14 DEF FormFails
    <3> QED BY <1>1, <1>3, <2>2, <3>1
  <2> QED BY <2>6, <2>7, <2>8, <2>9, <2>12, <2>13, <2>14 DEF FormStep
<1>8. CASE JobArrives \/ JobIsLost
  <2>1. recalc' \in Recalcs
    <3>1. recalc.adds \in Nat /\ recalc.waiting \in Nat /\ recalc.again \in Nat
      BY <1>1 DEF Recalcs
    <3>2. recalc.adds > 0
      BY <1>8 DEF JobArrives, JobIsLost
    <3>3. recalc.adds - 1 \in Nat /\ recalc.waiting + 1 \in Nat
      BY <3>1, <3>2
    <3>4. CASE JobArrives
      BY <1>1, <3>3, <3>4 DEF JobArrives, Recalcs
    <3>5. CASE JobIsLost
      BY <1>1, <3>3, <3>5 DEF JobIsLost, Recalcs
    <3> QED BY <1>8, <3>4, <3>5
  <2>2. UNCHANGED <<tags, optOut, events, form, counting, segment>>
    BY <1>8 DEF JobArrives, JobIsLost
  <2> QED BY <1>1, <1>3, <2>1, <2>2
<1>9. ASSUME NEW b \in Backends PROVE CountStep(b) \/ CountThrows(b) \/ CountDies(b) => Ok
  <2>1. counting[b] \in CountRecord /\ counting[b].n \in 0..Cardinality(Contacts)
    <3>1. counting[b] \in CountRecord
      BY <1>1
    <3> QED BY <3>1 DEF CountRecord
  <2>2. 0 \in 0..Cardinality(Contacts)
    BY MatchingCounted
  <2>3. ASSUME NEW pc \in CountPC, NEW n \in 0..Cardinality(Contacts), NEW g \in BOOLEAN
        PROVE  [pc |-> pc, n |-> n, again |-> g] \in CountRecord
    BY DEF CountRecord
  <2>4. /\ Resting \in CountRecord
        /\ [Resting EXCEPT !.pc = "count"] \in CountRecord
        /\ [[Resting EXCEPT !.pc = "count"] EXCEPT !.again = TRUE] \in CountRecord
    BY <2>2 DEF Resting, CountPC, CountRecord
  <2>5. CASE TakeRecalculation(b)
    <3>1. counting' \in [Backends -> CountRecord] /\ recalc' \in Recalcs
      <4>1. counting' \in [Backends -> CountRecord]
        BY <1>1, <2>4, <2>5 DEF TakeRecalculation
      <4>2. recalc' \in Recalcs
        BY <1>1, <2>5 DEF TakeRecalculation, Recalcs
      <4> QED BY <4>1, <4>2
    <3>2. UNCHANGED <<tags, optOut, events, form, segment>>
      BY <2>5 DEF TakeRecalculation
    <3> QED BY <1>1, <1>3, <3>1, <3>2
  <2>6. CASE CountMatching(b)
    <3>1. PICK k : k = [[counting[b] EXCEPT !.pc = "write"] EXCEPT !.n = Cardinality(Matching)]
      OBVIOUS
    <3>2. k \in CountRecord
      BY <2>1, <3>1, MatchingCounted DEF CountRecord, CountPC
    <3>3. counting' = [counting EXCEPT ![b] = k]
      BY <2>6, <3>1 DEF CountMatching
    <3>4. UNCHANGED <<tags, optOut, events, form, recalc, segment>>
      BY <2>6 DEF CountMatching
    <3> QED BY <1>1, <1>3, <3>2, <3>3, <3>4
  <2>7. CASE WriteCount(b) \/ CountThrows(b) \/ CountDies(b)
    <3>1. counting' = [counting EXCEPT ![b] = Resting]
      BY <2>7 DEF WriteCount, CountThrows, CountDies
    <3>2. segment' \in 0..Cardinality(Contacts) /\ recalc' \in Recalcs
      BY <1>1, <2>1, <2>7 DEF WriteCount, CountThrows, CountDies, Recalcs
    <3>3. UNCHANGED <<tags, optOut, events, form>>
      BY <2>7 DEF WriteCount, CountThrows, CountDies
    <3> QED BY <1>1, <1>3, <2>4, <3>1, <3>2, <3>3
  <2> QED BY <2>5, <2>6, <2>7 DEF CountStep
<1> QED BY <1>6, <1>7, <1>8, <1>9 DEF BookNext

-----------------------------------------------------------------------------
(* The account *)

(* Who is not concerned by a step keeps what he remembers. *)
LEMMA ElsewhereTyped ==
  ASSUME TypeInv, UNCHANGED world
  PROVE  /\ UNCHANGED automationVars => AutomationsHold'
         /\ UNCHANGED importVars => ImportsHold'
         /\ UNCHANGED deliveryVars => DeliveryHolds'
         /\ UNCHANGED bookVars => BookHolds'
         /\ UNCHANGED <<tags, optOut, analytic, events, day>> => Recorded'
<1>1. AutomationsHold /\ ImportsHold /\ DeliveryHolds /\ BookHolds /\ Recorded
  BY DEF TypeInv
<1>2. UNCHANGED automationVars => AutomationsHold'
  BY <1>1 DEF automationVars, automation, executions, firing, history, AutomationsHold, Going
<1>3. UNCHANGED importVars => ImportsHold'
  BY <1>1 DEF importVars, ImportsHold, Imported, Total, Rows
<1>4. UNCHANGED deliveryVars => DeliveryHolds'
  BY <1>1 DEF deliveryVars, DeliveryHolds
<1>5. UNCHANGED bookVars => BookHolds'
  BY <1>1 DEF bookVars, BookHolds
<1>6. UNCHANGED <<tags, optOut, analytic, events, day>> => Recorded'
  BY <1>1 DEF Recorded
<1> QED BY <1>2, <1>3, <1>4, <1>5, <1>6

(* Every step of the account keeps the kinds. *)
LEMMA TypeInductive == TypeInv /\ [Next]_vars => TypeInv'
<1> SUFFICES ASSUME TypeInv, [Next]_vars PROVE TypeInv'
  OBVIOUS
<1>1. UNCHANGED world
  BY WorldStays
<1>2. Known'
  BY BooksInductive, AutomationInductive, ImportInductive, EventsInductive DEF TypeInv, Known
<1>3. SUFFICES Recorded' /\ AutomationsHold' /\ ImportsHold' /\ DeliveryHolds' /\ BookHolds'
  BY <1>2 DEF TypeInv
<1>4. CASE AutomationsNext
  BY <1>1, <1>4, AutomationsTyped, AutomationsFrame, ElsewhereTyped DEF others
<1>5. CASE ImportNext
  BY <1>1, <1>5, ImportsTyped, ImportFrame, ElsewhereTyped DEF Apart
<1>6. CASE DeliveryNext
  BY <1>1, <1>6, DeliveryTyped, DeliveryFrame, ElsewhereTyped DEF Beside
<1>7. CASE BookNext
  BY <1>1, <1>7, BookTyped, BookFrame, ElsewhereTyped DEF Around
<1>8. CASE ApiNext
  BY <1>1, <1>8, ApiFrame, ElsewhereTyped DEF Aside
<1>9. CASE VisaNext
  BY <1>1, <1>9, VisaFrame, ElsewhereTyped DEF Away
<1>10. CASE Tick
  <2>1. Recorded'
    <3>1. world.lastDay \in 0..MaxDay /\ MaxDay \in Nat
      BY StoreAssumption, ContactsAssumption
         DEF TypeInv, Known, ImportInv, ImportTypes, Bounds
    <3>2. Recorded /\ day \in 0..MaxDay
      BY DEF TypeInv, Recorded
    <3>3. day' \in 0..MaxDay
      BY <1>10, <3>1, <3>2 DEF Tick
    <3> QED BY <1>10, <3>2, <3>3 DEF Tick, Recorded
  <2> QED BY <1>1, <1>10, <2>1, ElsewhereTyped DEF Tick, others
<1>11. CASE UNCHANGED vars
  BY <1>1, <1>11, ElsewhereTyped DEF vars, store, others
<1> QED BY <1>4, <1>5, <1>6, <1>7, <1>8, <1>9, <1>10, <1>11 DEF Next

(* At first nothing is remembered. *)
LEMMA TypeInit == Init => TypeInv
<1> SUFFICES ASSUME Init PROVE TypeInv
  OBVIOUS
<1>1. Known
  BY BooksInit, AutomationInit, ImportInit0, EventsInit DEF Known
<1>2. /\ world \in Worlds /\ StoreInit /\ AutomationsInit /\ ImportInit /\ DeliveryInit /\ BookInit
  BY DEF Init, StoreInit
<1>3. MaxDay \in Nat /\ Attempts \in Nat \ {0} /\ 0 \in 0..MaxDay
  BY StoreAssumption
<1>4. Recorded
  <2>1. <<>> \in Seq(Events)
    OBVIOUS
  <2> QED BY <1>2, <1>3, <2>1 DEF StoreInit, Recorded
<1>5. AutomationsHold
  <2>1. status \in AutomationStatus
    BY <1>2, WorkflowAssumption DEF AutomationsInit
  <2>2. config \in Configs /\ sendCount \in Nat
    BY <1>2, <1>3 DEF AutomationsInit, Configs
  <2>3. exec \in [Executions -> ExecRecord] /\ \A e \in Executions : Going(e) => exec[e].node \in Nat
    <3>1. Row("none", Min(Contacts)) \in ExecRecord /\ Row("none", Min(Contacts)).node = 0
      BY SomeContact DEF Row, ExecRecord, ExecutionStatus
    <3> QED BY <1>2, <3>1 DEF AutomationsInit
  <2>4. job \in [Executions -> JobRecord]
    <3>1. NoJob \in JobRecord
      BY <1>3 DEF NoJob, JobRecord, JobState
    <3> QED BY <1>2, <3>1 DEF AutomationsInit
  <2>5. mem \in [Executions -> MemRecord]
    BY <1>2 DEF AutomationsInit, MemRecord, MemoryPC
  <2>6. cron \in [Runs -> CronRecord] /\ ran \in [Backends -> 0..MaxDay \cup {Never}] /\ laps \in Nat
    <3>1. NoCron \in CronRecord
      BY <1>3 DEF NoCron, CronRecord, CronPC, Configs
    <3> QED BY <1>2, <3>1 DEF AutomationsInit
  <2>7. req \in [Clients -> RequestRecord]
    BY <1>2 DEF AutomationsInit, RequestRecord, AutomationStatus
  <2>8. late \in [Executions -> Nat]
    BY <1>2 DEF AutomationsInit
  <2> QED BY <2>1, <2>2, <2>3, <2>4, <2>5, <2>6, <2>7, <2>8 DEF AutomationsHold
<1>6. ImportsHold
  <2>1. ASSUME NEW f \in Files PROVE Imported(imp[f], f)
    <3>1. Total(f) \in Nat
      BY <1>2, RowsOf
    <3>2. imp[f].made = 0 /\ imp[f].pos = 0 /\ imp[f].pc = "idle"
      BY <1>2 DEF ImportInit
    <3> QED BY <1>3, <3>1, <3>2 DEF Imported
  <2> QED BY <2>1 DEF ImportsHold
<1>7. DeliveryHolds
  <2>1. NoLane \in LaneHolds
    BY SomeContact DEF NoLane, LaneHolds, LaneAt, SendStatus
  <2> QED BY <1>2, <2>1 DEF DeliveryInit, DeliveryHolds, SendStatus
<1>8. BookHolds
  <2>1. NoForm \in FormRecord
    BY SomeContact DEF NoForm, FormRecord, FormOp, FormAt
  <2>2. Resting \in CountRecord
    BY MatchingCounted DEF Resting, CountRecord, CountPC
  <2> QED BY <1>2, <2>1, <2>2, MatchingCounted DEF BookInit, BookHolds
<1> QED BY <1>1, <1>4, <1>5, <1>6, <1>7, <1>8 DEF TypeInv

(* What the parts of the account hold, seen together. *)
LEMMA TypeImplied == TypeInv => EngagementTypeOK
<1> SUFFICES ASSUME TypeInv PROVE EngagementTypeOK
  OBVIOUS
<1>1. Recorded /\ AutomationsHold /\ ImportsHold /\ DeliveryHolds /\ BookHolds
  BY DEF TypeInv
<1>2. /\ ApiTypes /\ visa \in [Callers -> VisaSteps] /\ purchases \in Tally /\ cards \in Nat
  BY DEF TypeInv, Known, BooksInv, ApiInv, PurchasesInv
<1>3. /\ LateInv /\ Tallies /\ (\A e \in Executions : Located(e)) /\ world \in Worlds
      /\ left \in [faults : Nat, crashes : Nat, requests : Nat, deliveries : Nat]
  BY DEF TypeInv, Known, AutomationInv, Orderly, PlacedInv, Bounds
<1>4. /\ present \subseteq Contacts /\ imp \in [Files -> ImportRecord]
      /\ reports \in [Files -> Seq(RowTallies)]
  BY DEF TypeInv, Known, ImportInv, ImportTypes
<1>5. counts \in [sent : Nat, opened : Nat, clicked : Nat, failed : Nat]
  BY DEF TypeInv, Known, EventsInv, Handlers
<1>6. StoreTypeOK
  BY <1>1, <1>2, <1>3, <1>4 DEF StoreTypeOK, Recorded, ApiTypes
<1>7. AutomationsTypeOK
  <2>1. \A e \in Executions : mem[e].pc \in AtNode => mem[e].at \in Nodes
    BY <1>3, FlowDrawn DEF AtNode, Located, InRun, Steps
  <2>2. /\ handed \in [Executions -> [Nodes -> Nat]] /\ charged \in [Executions -> [Nodes -> Nat]]
    BY <1>3 DEF Tallies, Counts1
  <2> QED BY <1>1, <2>1, <2>2
          DEF AutomationsHold, AutomationsTypeOK, Configs, ExecRecord, JobRecord, MemRecord,
              CronRecord, RequestRecord
<1>8. ImportTypeOK
  <2>1. imp \in [Files -> [st : ImportJob, made : 0..Attempts, stalled : BOOLEAN, pc : ImportPC,
                        pos : Nat, known : SUBSET UNION {KeysOf(c) : c \in Contacts},
                        tally : RowTallies]]
    BY <1>1, <1>4, StoreAssumption DEF ImportRecord, ImportsHold, Imported
  <2>2. \A f \in Files : imp[f].pos <= Total(f)
    BY <1>1 DEF ImportsHold, Imported
  <2> QED BY <1>4, <2>1, <2>2 DEF ImportTypeOK, RowTallies
<1>9. DeliveryTypeOK
  BY <1>1, <1>2, <1>5 DEF DeliveryHolds, DeliveryTypeOK, LaneHolds
<1>10. BookTypeOK
  BY <1>1 DEF BookHolds, BookTypeOK, FormRecord, CountRecord
<1>11. ApiTypeOK
  BY <1>2 DEF ApiTypes, ApiTypeOK, CallRecord, CallSteps, CallAt
<1>12. VisaTypeOK
  BY <1>2 DEF VisaTypeOK, Tally
<1> QED BY <1>6, <1>7, <1>8, <1>9, <1>10, <1>11, <1>12 DEF EngagementTypeOK

(* Whatever the workflow looks like, and whatever nodes its edges and nodes name: a
   worker that sends, pays or counts stands at a node that there is, what it resumes
   says where, no job runs once more than it may, and no import reads a row after
   its file's last.  Every variable of the account holds a value of its kind. *)
THEOREM EngagementTypeCorrect == Spec => []EngagementTypeOK
BY TypeInit, TypeInductive, TypeImplied, PTL DEF Spec

=============================================================================
