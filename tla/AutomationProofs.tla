---------------------------- MODULE AutomationProofs ----------------------------
(***************************************************************************)
(* Executions of an automation, for any workflow, contacts, workers,       *)
(* requests and failures: how often a message goes out again, what a       *)
(* Completed execution left out, that executions implement                 *)
(* ExecutionPromise, and how often a contact that is new, or one that a    *)
(* date is for, gets an execution.                                         *)
(***************************************************************************)
EXTENDS BooksProofs, SequenceTheorems

-----------------------------------------------------------------------------
(* Sums *)

(* A sum of smaller numbers is smaller. *)
LEMMA SumsCompare ==
  ASSUME NEW S, IsFiniteSet(S), NEW f \in [S -> Int], NEW g \in [S -> Int],
         \A x \in S : f[x] <= g[x]
  PROVE  SumFunction(f) <= SumFunction(g)
<1>1. PICK F : Sums(F, f, S) /\ SumFunction(f) = F[S]
  BY SumIs
<1>2. PICK G : Sums(G, g, S) /\ SumFunction(g) = G[S]
  BY SumIs
<1> DEFINE T == {s \in SUBSET S : F[s] \in Int /\ G[s] \in Int /\ F[s] <= G[s]}
<1>3. {} \in T
  BY <1>1, <1>2 DEF Sums, Added1
<1>4. ASSUME NEW s \in SUBSET S, s # {}, s \ {Pick(s)} \in T PROVE s \in T
  <2> DEFINE x == Pick(s)  r == s \ {Pick(s)}
  <2>1. F[s] = f[x] + F[r] /\ G[s] = g[x] + G[r]
    BY <1>1, <1>2, <1>4 DEF Sums, Added1
  <2>2. x \in S
    BY <1>4 DEF Pick
  <2>3. f[x] \in Int /\ g[x] \in Int /\ f[x] <= g[x]
    BY <2>2
  <2>4. F[r] \in Int /\ G[r] \in Int /\ F[r] <= G[r]
    BY <1>4
  <2> HIDE DEF x, r
  <2>5. F[s] \in Int /\ G[s] \in Int /\ F[s] <= G[s]
    BY <2>1, <2>3, <2>4
  <2> QED BY <2>5
<1>5. S \in T
  <2> HIDE DEF T
  <2> QED BY <1>3, <1>4, SubsetsByPick
<1> QED BY <1>1, <1>2, <1>5

(* How many messages went out more than once, if those of P were to go out
   again. *)
Less(k) == IF k = 0 THEN 0 ELSE k - 1
Again(h, P) == SumFunction([n \in Nodes |-> IF n \in P THEN h[n] ELSE Less(h[n])])
Counts1 == [Nodes -> Nat]

(* A workflow has finitely many nodes. *)
LEMMA FiniteNodes == world \in Worlds => IsFiniteSet(Nodes)
<1> SUFFICES ASSUME world \in Worlds PROVE IsFiniteSet(Nodes)
  OBVIOUS
<1>1. Len(Flow.nodes) \in Nat
  BY StoreAssumption DEF Flow
<1>2. IsFiniteSet(0..Len(Flow.nodes))
  BY <1>1, FS_Interval
<1> QED BY <1>2 DEF Nodes

(* Messages repeated are those that went out more than once. *)
LEMMA RepeatedIsAgain ==
  ASSUME NEW e \in Executions, handed[e] \in Counts1
  PROVE  Repeated(e) = Again(handed[e], {})
<1>1. ASSUME NEW k \in Nat PROVE Max({0, k - 1}) = Less(k)
  <2>1. \A m \in {0, k - 1} : m = Less(k) <=> \A y \in {0, k - 1} : m >= y
    BY DEF Less
  <2>2. Less(k) \in {0, k - 1}
    BY DEF Less
  <2> QED BY <2>1, <2>2 DEF Max
<1>2. \A n \in Nodes : Max({0, handed[e][n] - 1}) = Less(handed[e][n])
  BY <1>1 DEF Counts1
<1> QED BY <1>2 DEF Repeated, Again

(* The sum is a number. *)
LEMMA AgainIsInt ==
  ASSUME world \in Worlds, NEW h \in Counts1, NEW P
  PROVE  Again(h, P) \in Int
<1>1. [n \in Nodes |-> IF n \in P THEN h[n] ELSE Less(h[n])] \in [Nodes -> Int]
  BY DEF Counts1, Less
<1> QED BY <1>1, FiniteNodes, SumIsInt DEF Again

(* More messages that were to go out again make it no smaller. *)
LEMMA AgainGrows ==
  ASSUME world \in Worlds, NEW h \in Counts1, NEW P, NEW Q, P \subseteq Q
  PROVE  Again(h, P) <= Again(h, Q)
<1> DEFINE f == [n \in Nodes |-> IF n \in P THEN h[n] ELSE Less(h[n])]
           g == [n \in Nodes |-> IF n \in Q THEN h[n] ELSE Less(h[n])]
<1>1. f \in [Nodes -> Int] /\ g \in [Nodes -> Int] /\ \A n \in Nodes : f[n] <= g[n]
  BY DEF Counts1, Less
<1> HIDE DEF f, g
<1>2. SumFunction(f) <= SumFunction(g)
  BY <1>1, FiniteNodes, SumsCompare
<1> QED BY <1>2 DEF f, g, Again

(* One message goes out: at most one repetition more, and none if the message
   was among those that were to go out again. *)
LEMMA AgainOnce ==
  ASSUME world \in Worlds, NEW h \in Counts1, NEW n \in Nodes, NEW P
  PROVE  /\ [h EXCEPT ![n] = @ + 1] \in Counts1
         /\ Again([h EXCEPT ![n] = @ + 1], P) <= Again(h, P) + 1
         /\ n \in P => Again([h EXCEPT ![n] = @ + 1], P \ {n}) = Again(h, P)
<1> DEFINE k == [h EXCEPT ![n] = @ + 1]
           f == [m \in Nodes |-> IF m \in P THEN h[m] ELSE Less(h[m])]
           g == [m \in Nodes |-> IF m \in P THEN k[m] ELSE Less(k[m])]
<1>1. k \in Counts1 /\ k[n] = h[n] + 1 /\ h[n] \in Nat /\ \A m \in Nodes \ {n} : k[m] = h[m]
  BY DEF Counts1
<1>2. /\ f \in [Nodes -> Int] /\ g \in [Nodes -> Int]
      /\ \A m \in Nodes \ {n} : g[m] = f[m]
  <2> HIDE DEF k
  <2> QED BY <1>1 DEF Counts1, Less
<1>3. g[n] <= f[n] + 1 /\ f[n] \in Int /\ g[n] \in Int
  <2> HIDE DEF k
  <2> QED BY <1>1 DEF Less
<1>4. n \in P => [m \in Nodes |-> IF m \in P \ {n} THEN k[m] ELSE Less(k[m])] = f
  <2> HIDE DEF k
  <2>1. Less(k[n]) = h[n]
    BY <1>1 DEF Less
  <2>2. n \in P => \A m \in Nodes :
          (IF m \in P \ {n} THEN k[m] ELSE Less(k[m])) = IF m \in P THEN h[m] ELSE Less(h[m])
    BY <1>1, <2>1
  <2> QED BY <2>2
<1>5. Again(h, P) = SumFunction(f) /\ Again(k, P) = SumFunction(g)
  BY DEF Again
<1>6. n \in P => Again(k, P \ {n}) = SumFunction(f)
  BY <1>4 DEF Again
<1> HIDE DEF k, f, g
<1>7. SumFunction(f) \in Int /\ SumFunction(g) = SumFunction(f) + g[n] - f[n]
  BY <1>2, FiniteNodes, SumChanges
<1>8. /\ k \in Counts1 /\ Again(k, P) <= Again(h, P) + 1
      /\ n \in P => Again(k, P \ {n}) = Again(h, P)
  BY <1>1, <1>3, <1>5, <1>6, <1>7
<1> QED BY <1>8 DEF k

(* With one message fewer to go out again there is at most one repetition fewer. *)
LEMMA AgainLess ==
  ASSUME world \in Worlds, NEW h \in Counts1, NEW n \in Nodes, NEW P
  PROVE  Again(h, P) <= Again(h, P \ {n}) + 1
<1> DEFINE f == [m \in Nodes |-> IF m \in P \ {n} THEN h[m] ELSE Less(h[m])]
           g == [m \in Nodes |-> IF m \in P THEN h[m] ELSE Less(h[m])]
<1>1. /\ f \in [Nodes -> Int] /\ g \in [Nodes -> Int] /\ \A m \in Nodes \ {n} : g[m] = f[m]
      /\ f[n] \in Int /\ g[n] \in Int /\ g[n] <= f[n] + 1
  BY DEF Counts1, Less
<1>2. Again(h, P \ {n}) = SumFunction(f) /\ Again(h, P) = SumFunction(g)
  BY DEF Again
<1> HIDE DEF f, g
<1>3. SumFunction(f) \in Int /\ SumFunction(g) = SumFunction(f) + g[n] - f[n]
  BY <1>1, FiniteNodes, SumChanges
<1> QED BY <1>1, <1>2, <1>3

-----------------------------------------------------------------------------
(* What an execution may come to *)

(* Without a workflow there is one message to come to. *)
LEMMA AheadMessage == ~Flow.isFlow => \A p : Ahead(p) = {0}
  BY DEF Ahead

(* It comes to where it is, *)
LEMMA AheadHere ==
  ASSUME Flow.isFlow, NEW p
  PROVE  /\ Ahead(p) \subseteq Steps
         /\ p \in Steps => p \in Ahead(p)
         /\ p \notin Steps => Ahead(p) = {}
  BY DEF Ahead

(* with a node to what follows it, *)
LEMMA AheadClosed ==
  ASSUME Flow.isFlow, NEW p, NEW n \in Ahead(p), NEW m \in Follows(n)
  PROVE  m \in Ahead(p)
<1>1. m \in Steps
  BY DEF Follows
<1> QED BY <1>1 DEF Ahead

(* to whatever what follows may come to, *)
LEMMA AheadFollows ==
  ASSUME Flow.isFlow, NEW n \in Steps, NEW m \in Follows(n)
  PROVE  Ahead(m) \subseteq Ahead(n)
<1>1. m \in Steps
  BY DEF Follows
<1> QED BY <1>1 DEF Ahead

(* and to nothing else. *)
LEMMA AheadOnly ==
  ASSUME Flow.isFlow, NEW n \in Steps, NEW x \in Ahead(n), x # n
  PROVE  \E m \in Follows(n) : x \in Ahead(m)
<1> DEFINE S == {n} \cup UNION {Ahead(m) : m \in Follows(n)}
<1>1. S \subseteq Steps /\ n \in S
  BY AheadHere DEF Follows
<1>2. ASSUME NEW y \in S PROVE Follows(y) \subseteq S
  <2>1. CASE y = n
    <3>1. \A m \in Follows(n) : m \in Ahead(m)
      BY AheadHere DEF Follows
    <3> QED BY <2>1, <3>1
  <2>2. ASSUME NEW m \in Follows(n), y \in Ahead(m) PROVE Follows(y) \subseteq S
    <3>1. Follows(y) \subseteq Ahead(m)
      BY <2>2, AheadClosed
    <3> QED BY <3>1
  <2> QED BY <2>1, <2>2
<1> HIDE DEF S
<1>3. x \in S
  BY <1>1, <1>2 DEF Ahead
<1> QED BY <1>3 DEF S

(* Where nothing comes back to itself, what follows a node does not lead to it. *)
LEMMA NeverBack ==
  ASSUME Flow.isFlow, ~Cyclic, NEW n \in Steps, NEW m \in Follows(n)
  PROVE  n \notin Ahead(m)
<1> SUFFICES ASSUME n \in Ahead(m) PROVE FALSE
  OBVIOUS
<1> DEFINE S == {x \in Ahead(m) : n \in Ahead(x)}
<1>1. S \subseteq Steps /\ n \in S
  BY AheadHere
<1>2. ASSUME NEW x \in S PROVE Follows(x) \cap S # {}
  <2>0. x \in Steps /\ x \in Ahead(m) /\ n \in Ahead(x)
    BY <1>1
  <2>1. PICK y \in Follows(x) : n \in Ahead(y)
    <3>1. CASE x = n
      BY <3>1
    <3>2. CASE x # n
      BY <2>0, <3>2, AheadOnly
    <3> QED BY <3>1, <3>2
  <2>2. y \in Ahead(m)
    BY <2>0, <2>1, AheadClosed
  <2> QED BY <2>1, <2>2
<1> HIDE DEF S
<1> QED BY <1>1, <1>2 DEF Cyclic

(* The workflow is that of the world, and stays. *)
LEMMA WorkflowStays ==
  ASSUME UNCHANGED world
  PROVE  /\ Nodes' = Nodes /\ Steps' = Steps /\ StartNode' = StartNode /\ Cyclic' = Cyclic
         /\ Flow' = Flow
         /\ \A p : Ahead(p)' = Ahead(p)
<1>1. Nodes' = Nodes /\ Steps' = Steps /\ StartNode' = StartNode /\ Flow' = Flow
  BY DEF StartNode, Flow, Node, Nodes, Steps
<1>2. ASSUME NEW n PROVE Follows(n)' = Follows(n)
  <2>1. Next1(n)' = Next1(n) /\ NextTrue(n)' = NextTrue(n) /\ NextFalse(n)' = NextFalse(n)
    BY DEF Next1, NextTrue, NextFalse, Outgoing, Flow, Node, Via, Target, Or
  <2> QED BY <1>1, <2>1 DEF Follows, Node, Flow, Or
<1>3. Cyclic' = Cyclic
  BY <1>1, <1>2 DEF Cyclic
<1>4. ASSUME NEW p PROVE Ahead(p)' = Ahead(p)
  BY <1>1, <1>2 DEF Ahead
<1> QED BY <1>1, <1>3, <1>4

-----------------------------------------------------------------------------
(* What holds of an execution *)

(* Where a job that is run again goes on, and what that may come to, with the
   message the worker is at until it went out. *)
InRun == {"enter", "send", "pay", "record", "caught", "tag", "condition", "wait"}
Going(e) == exec[e].st \in {"none", "Running"}
Resume(e) == IF exec[e].st = "none" THEN StartNode ELSE ResumeAt(e)
Onward(e) ==
  IF mem[e].pc \in {"pay", "record"} THEN Ahead(mem[e].at) \ {mem[e].at} ELSE Ahead(mem[e].at)

(* The worker is at a node of the kind of what it does, and what it runs has not
   ended. *)
KindOf(pc) == IF pc \in {"tag", "condition", "wait"} THEN pc ELSE "send"
Located(e) ==
  /\ exec[e].st \in ExecutionStatus
  /\ mem[e].pc = "found" => exec[e].st = "none"
  /\ mem[e].pc \in {"idle", "found", "add", "load"} => mem[e].at = 0
  /\ mem[e].pc \in {"enter", "tag", "condition", "wait", "caught", "requeue", "finish"}
       => Flow.isFlow
  /\ mem[e].pc \in InRun \ {"enter"} =>
       IF Flow.isFlow THEN mem[e].at \in Steps /\ StepOf(mem[e].at) = KindOf(mem[e].pc)
       ELSE mem[e].at = 0
  /\ mem[e].pc \in InRun \cup {"finish"} => exec[e].st \in {"Running", "gone"}

(* Were everything to go out again that may, from where the worker is or from
   where the next one resumes, failures would account for it; a message that
   went out is one more until the next node is stored. *)
Acyclic == Flow.isFlow => ~Cyclic
Slack(e) == IF mem[e].pc \in {"pay", "record", "enter", "finish"} THEN 1 ELSE 0
Limited(e) ==
  Acyclic =>
    /\ Again(handed[e], {}) <= Failures
    /\ mem[e].pc \in InRun /\ (mem[e].pc = "caught" => Going(e)) =>
         Again(handed[e], Onward(e)) <= Failures
    /\ Going(e) => Again(handed[e], Ahead(Resume(e))) <= Failures + Slack(e)

(* Messages that have not gone out are among those it may come to. *)
Unbranched == Flow.isFlow => \A n \in Steps : Node(n).type # "condition"
IsMessage(n) == Flow.isFlow => Node(n).type = "action"
Unsent(e) == {n \in Ahead(StartNode) : IsMessage(n) /\ handed[e][n] = 0}
Complete(e) ==
  Unbranched =>
    /\ mem[e].pc \in InRun => Unsent(e) \subseteq Onward(e)
    /\ Going(e) => Unsent(e) \subseteq Ahead(Resume(e))
    /\ mem[e].pc = "finish" \/ exec[e].st = "Completed" => Unsent(e) = {}

-----------------------------------------------------------------------------
(* How an execution moves *)

(* From one set of nodes ahead to another: nothing is added if there is no way
   back, and no message is dropped if there are no branches. *)
Leads(P, Q) ==
  /\ Acyclic => Q \subseteq P
  /\ Unbranched => \A n \in P : IsMessage(n) => n \in Q

(* The worker is gone or on its way out, or there is none. *)
Unwinds(e) ==
  /\ handed'[e] = handed[e]
  /\ mem'[e].pc \notin InRun \cup {"finish"}
  /\ Going(e)' => /\ Going(e) /\ Resume(e)' = Resume(e)
                  /\ Slack(e) = 0 \/ Failures' > Failures
  /\ exec'[e].st = "Completed" =>
       \/ exec[e].st = "Completed" \/ mem[e].pc = "finish"
       \/ mem[e].pc = "record" /\ ~Flow.isFlow

(* It begins, or goes on to what comes next. *)
From(e) == IF mem[e].pc = "load" THEN Ahead(Resume(e)) ELSE Onward(e)
GoesOn(e) ==
  /\ handed'[e] = handed[e] /\ exec'[e].st = exec[e].st
  /\ mem[e].pc \in InRun \ {"caught"} \/ (mem[e].pc = "load" /\ Going(e))
  /\ \/ mem'[e].pc \in InRun \ {"caught"} /\ Leads(From(e), Onward(e)')
     \/ mem'[e].pc = "finish" /\ (Unbranched => \A n \in From(e) : ~IsMessage(n))
  /\ \/ Resume(e)' = Resume(e) /\ (Slack(e) <= Slack(e)' \/ Failures' > Failures)
     \/ Leads(From(e), Ahead(Resume(e)'))
     \/ ~Going(e)

(* It caught an error. *)
Catches(e) ==
  /\ handed'[e] = handed[e] /\ exec'[e] = exec[e]
  /\ mem[e].pc \in {"send", "pay", "record"}
  /\ mem'[e].pc = "caught" /\ mem'[e].at = mem[e].at
  /\ mem[e].pc = "send" \/ Failures' > Failures \/ ~Going(e)

(* It stored the node to go on with another time. *)
Stores(e) ==
  /\ handed'[e] = handed[e] /\ exec'[e].st = exec[e].st
  /\ mem[e].pc \in {"caught", "wait"} /\ mem'[e].pc = "requeue"
  /\ Leads(Onward(e), Ahead(Resume(e)'))

(* A message went out. *)
Delivers(e) ==
  /\ handed'[e] = [handed[e] EXCEPT ![mem[e].at] = @ + 1]
  /\ exec'[e] = exec[e] /\ mem[e].pc = "send"
  /\ mem'[e].at = mem[e].at
  /\ \/ mem'[e].pc = "pay"
     \/ mem'[e].pc \in {"caught", "throw"} /\ Failures' > Failures

Moves(e) == Unwinds(e) \/ GoesOn(e) \/ Catches(e) \/ Stores(e) \/ Delivers(e)

(* Failures are numbers that only grow, and the workflow stays. *)
Meanwhile ==
  /\ world \in Worlds /\ UNCHANGED world
  /\ Failures \in Int /\ Failures' \in Int /\ Failures' >= Failures

(* What depends on the workflow alone stays as it is. *)
LEMMA Same ==
  ASSUME Meanwhile
  PROVE  /\ Nodes' = Nodes /\ Steps' = Steps /\ StartNode' = StartNode
         /\ Acyclic' = Acyclic /\ Unbranched' = Unbranched /\ Flow' = Flow
         /\ \A p : Ahead(p)' = Ahead(p)
         /\ \A n : IsMessage(n)' = IsMessage(n) /\ StepOf(n)' = StepOf(n)
         /\ \A h, P : Again(h, P)' = Again(h, P)
<1>1. UNCHANGED world
  BY DEF Meanwhile
<1>2. /\ Nodes' = Nodes /\ Steps' = Steps /\ StartNode' = StartNode /\ Cyclic' = Cyclic
      /\ Flow' = Flow /\ \A p : Ahead(p)' = Ahead(p)
  BY <1>1, WorkflowStays
<1>3. /\ Acyclic' = Acyclic /\ Unbranched' = Unbranched
      /\ \A n : IsMessage(n)' = IsMessage(n) /\ StepOf(n)' = StepOf(n)
  BY <1>2 DEF Acyclic, Unbranched, IsMessage, StepOf, Node
<1>4. \A h, P : Again(h, P)' = Again(h, P)
  BY <1>2 DEF Again
<1> QED BY <1>2, <1>3, <1>4

(* Where the worker is at a message, that one is ahead. *)
LEMMA MessageAhead ==
  ASSUME NEW e \in Executions, Located(e), mem[e].pc \in {"send", "pay", "record", "caught"}
  PROVE  mem[e].at \in Ahead(mem[e].at) /\ mem[e].at \in Nodes /\ IsMessage(mem[e].at)
<1>1. CASE Flow.isFlow
  <2>1. mem[e].at \in Steps /\ StepOf(mem[e].at) = "send"
    BY <1>1 DEF Located, InRun, KindOf
  <2>2. Node(mem[e].at).type = "action"
    BY <2>1 DEF StepOf
  <2> QED BY <1>1, <2>1, <2>2, AheadHere DEF Steps, IsMessage
<1>2. CASE ~Flow.isFlow
  <2>1. mem[e].at = 0
    BY <1>2 DEF Located, InRun
  <2> QED BY <1>2, <2>1, AheadMessage DEF IsMessage, Nodes
<1> QED BY <1>1, <1>2
(* However it moves, failures account for what may go out again. *)
LEMMA LimitedMoves ==
  ASSUME NEW e \in Executions, Meanwhile, handed[e] \in Counts1, Located(e), Limited(e), Moves(e)
  PROVE  Limited(e)'
<1>1. /\ Acyclic' = Acyclic /\ (\A p : Ahead(p)' = Ahead(p))
      /\ \A h, P : Again(h, P)' = Again(h, P)
  BY Same
<1>2. world \in Worlds /\ Failures \in Int /\ Failures' \in Int /\ Failures' >= Failures
  BY DEF Meanwhile
<1> SUFFICES ASSUME Acyclic
             PROVE  /\ Again(handed'[e], {}) <= Failures'
                    /\ mem'[e].pc \in InRun /\ (mem'[e].pc = "caught" => Going(e)') =>
                         Again(handed'[e], Onward(e)') <= Failures'
                    /\ Going(e)' => Again(handed'[e], Ahead(Resume(e)')) <= Failures' + Slack(e)'
  BY <1>1 DEF Limited
<1>3. /\ Again(handed[e], {}) <= Failures
      /\ mem[e].pc \in InRun /\ (mem[e].pc = "caught" => Going(e)) =>
           Again(handed[e], Onward(e)) <= Failures
      /\ Going(e) => Again(handed[e], Ahead(Resume(e))) <= Failures + Slack(e)
  BY DEF Limited
<1>4. \A P : Again(handed[e], P) \in Int
  BY <1>2, AgainIsInt
<1>5. \A P, Q : Q \subseteq P => Again(handed[e], Q) <= Again(handed[e], P)
  BY <1>2, AgainGrows
<1>6. Slack(e) \in {0, 1} /\ Slack(e)' \in {0, 1}
  BY DEF Slack
<1>7. CASE Unwinds(e)
  <2>1. handed'[e] = handed[e] /\ mem'[e].pc \notin InRun
    BY <1>7 DEF Unwinds
  <2>2. Going(e)' => /\ Going(e) /\ Resume(e)' = Resume(e)
                     /\ Slack(e) = 0 \/ Failures' > Failures
    BY <1>7 DEF Unwinds
  <2> QED BY <1>2, <1>3, <1>4, <1>6, <2>1, <2>2
<1>8. CASE GoesOn(e)
  <2>1. handed'[e] = handed[e] /\ Going(e)' = Going(e)
    BY <1>8 DEF GoesOn, Going
  <2>2. Again(handed[e], From(e)) <= Failures
    <3>1. CASE mem[e].pc \in InRun \ {"caught"}
      BY <1>3, <3>1 DEF From, InRun
    <3>2. CASE mem[e].pc = "load" /\ Going(e)
      BY <1>2, <1>3, <1>4, <3>2 DEF From, Slack
    <3> QED BY <1>8, <3>1, <3>2 DEF GoesOn
  <2>3. mem'[e].pc \in InRun => Onward(e)' \subseteq From(e)
    BY <1>8 DEF GoesOn, Leads, InRun
  <2>4. \/ Resume(e)' = Resume(e) /\ (Slack(e) <= Slack(e)' \/ Failures' > Failures)
        \/ Ahead(Resume(e)') \subseteq From(e)
        \/ ~Going(e)
    BY <1>8 DEF GoesOn, Leads
  <2>5. mem'[e].pc \in InRun => Again(handed[e], Onward(e)') <= Failures'
    <3>1. mem'[e].pc \in InRun => Again(handed[e], Onward(e)') <= Again(handed[e], From(e))
      BY <1>5, <2>3
    <3> QED BY <1>2, <1>4, <2>2, <3>1
  <2>6. Going(e) => Again(handed[e], Ahead(Resume(e)')) <= Failures' + Slack(e)'
    <3>1. CASE Resume(e)' = Resume(e) /\ (Slack(e) <= Slack(e)' \/ Failures' > Failures)
      BY <1>2, <1>3, <1>4, <1>6, <3>1
    <3>2. CASE Ahead(Resume(e)') \subseteq From(e)
      <4>1. Again(handed[e], Ahead(Resume(e)')) <= Again(handed[e], From(e))
        BY <1>5, <3>2
      <4> QED BY <1>2, <1>4, <1>6, <2>2, <4>1
    <3> QED BY <2>4, <3>1, <3>2
  <2> QED BY <1>2, <1>3, <1>4, <2>1, <2>5, <2>6
<1>9. CASE Catches(e)
  <2>1. /\ handed'[e] = handed[e] /\ Going(e)' = Going(e) /\ Resume(e)' = Resume(e)
        /\ mem[e].pc = "send" \/ Failures' > Failures \/ ~Going(e)
        /\ mem[e].pc \in {"send", "pay", "record"}
    <3>1. StartNode' = StartNode
      BY Same
    <3> QED BY <1>9, <3>1 DEF Catches, Going, Resume, ResumeAt, Or
  <2>2. Onward(e)' = Ahead(mem[e].at)
    BY <1>1, <1>9 DEF Catches, Onward
  <2>3. Going(e) => Again(handed[e], Ahead(mem[e].at)) <= Failures'
    <3>1. CASE mem[e].pc = "send"
      <4>1. Again(handed[e], Onward(e)) <= Failures /\ Onward(e) = Ahead(mem[e].at)
        BY <1>3, <3>1 DEF InRun, Onward
      <4> QED BY <1>2, <1>4, <4>1
    <3>2. CASE mem[e].pc # "send" /\ Going(e)
      <4>1. Again(handed[e], Ahead(mem[e].at) \ {mem[e].at}) <= Failures
        BY <1>3, <2>1, <3>2 DEF InRun, Onward
      <4>2. Again(handed[e], Ahead(mem[e].at))
              <= Again(handed[e], Ahead(mem[e].at) \ {mem[e].at}) + 1
        BY <1>2, <2>1, MessageAhead, AgainLess
      <4> QED BY <1>2, <1>4, <2>1, <3>2, <4>1, <4>2
    <3> QED BY <3>1, <3>2
  <2>4. Going(e) => Again(handed[e], Ahead(Resume(e))) <= Failures'
    <3>1. Slack(e) = IF mem[e].pc = "send" THEN 0 ELSE 1
      BY <2>1 DEF Slack
    <3> QED BY <1>2, <1>3, <1>4, <2>1, <3>1
  <2>5. Slack(e)' = 0
    BY <1>9 DEF Catches, Slack
  <2>6. mem'[e].pc = "caught"
    BY <1>9 DEF Catches
  <2> QED BY <1>2, <1>3, <1>4, <2>1, <2>2, <2>3, <2>4, <2>5, <2>6
<1>10. CASE Stores(e)
  <2>1. /\ handed'[e] = handed[e] /\ Going(e)' = Going(e) /\ mem[e].pc \in InRun
        /\ mem'[e].pc \notin InRun
    BY <1>10 DEF Stores, Going, InRun
  <2>2. Again(handed[e], Ahead(Resume(e)')) <= Again(handed[e], Onward(e))
    BY <1>5, <1>10 DEF Stores, Leads
  <2> QED BY <1>2, <1>3, <1>4, <1>6, <2>1, <2>2
<1>11. CASE Delivers(e)
  <2> DEFINE n == mem[e].at
             h == handed'[e]
  <2>1. /\ h = [handed[e] EXCEPT ![n] = @ + 1] /\ n \in Nodes /\ n \in Ahead(n)
        /\ mem[e].pc = "send"
    BY <1>11, MessageAhead DEF Delivers
  <2>2. Going(e)' = Going(e) /\ Resume(e)' = Resume(e)
    <3>1. StartNode' = StartNode
      BY Same
    <3> QED BY <1>11, <3>1 DEF Delivers, Going, Resume, ResumeAt, Or
  <2>3. h \in Counts1 /\ \A P : Again(h, P) <= Again(handed[e], P) + 1 /\ Again(h, P) \in Int
    BY <1>2, <2>1, AgainOnce, AgainIsInt
  <2>4. Again(h, Ahead(n) \ {n}) = Again(handed[e], Ahead(n))
    <3> HIDE DEF n, h
    <3>1. \A m \in Nodes : \A P : m \in P =>
            Again([handed[e] EXCEPT ![m] = @ + 1], P \ {m}) = Again(handed[e], P)
      BY <1>2, AgainOnce
    <3> QED BY <2>1, <3>1
  <2>5. Slack(e) = 0 /\ Onward(e) = Ahead(n) /\ Again(handed[e], Ahead(n)) <= Failures
    BY <1>3, <2>1 DEF Slack, Onward, InRun
  <2>6. mem'[e].pc = "pay" => Slack(e)' = 1 /\ Onward(e)' = Ahead(n) \ {n}
    BY <1>1, <1>11 DEF Delivers, Slack, Onward
  <2>7. mem'[e].pc # "pay" => Failures' > Failures /\ Slack(e)' = 0 /\ Onward(e)' = Ahead(n)
    BY <1>1, <1>11 DEF Delivers, Slack, Onward
  <2> HIDE DEF h, n
  <2>8. Again(h, {}) <= Again(h, Ahead(n) \ {n})
    BY <1>2, <2>3, AgainGrows
  <2>9. CASE mem'[e].pc = "pay"
    BY <1>2, <1>3, <1>4, <2>2, <2>3, <2>4, <2>5, <2>6, <2>8, <2>9 DEF h
  <2>10. CASE mem'[e].pc # "pay"
    BY <1>2, <1>3, <1>4, <2>2, <2>3, <2>5, <2>7, <2>10 DEF h
  <2> QED BY <2>9, <2>10
<1> QED BY <1>7, <1>8, <1>9, <1>10, <1>11 DEF Moves

(* However it moves, messages that have not gone out stay ahead. *)
LEMMA CompleteMoves ==
  ASSUME NEW e \in Executions, Meanwhile, handed[e] \in Counts1, Located(e), Complete(e), Moves(e)
  PROVE  Complete(e)'
<1>1. /\ Unbranched' = Unbranched /\ StartNode' = StartNode /\ (\A p : Ahead(p)' = Ahead(p))
      /\ \A n : IsMessage(n)' = IsMessage(n)
  BY Same
<1> SUFFICES ASSUME Unbranched
             PROVE  /\ mem'[e].pc \in InRun => Unsent(e)' \subseteq Onward(e)'
                    /\ Going(e)' => Unsent(e)' \subseteq Ahead(Resume(e)')
                    /\ mem'[e].pc = "finish" \/ exec'[e].st = "Completed" => Unsent(e)' = {}
  BY <1>1 DEF Complete
<1>2. /\ mem[e].pc \in InRun => Unsent(e) \subseteq Onward(e)
      /\ Going(e) => Unsent(e) \subseteq Ahead(Resume(e))
      /\ mem[e].pc = "finish" \/ exec[e].st = "Completed" => Unsent(e) = {}
  BY DEF Complete
<1>3. \A n \in Unsent(e) : IsMessage(n)
  BY DEF Unsent
<1>4. handed'[e] = handed[e] => Unsent(e)' = Unsent(e)
  BY <1>1 DEF Unsent
<1>5. CASE Unwinds(e)
  <2>1. /\ Unsent(e)' = Unsent(e) /\ mem'[e].pc \notin InRun \cup {"finish"}
        /\ Going(e)' => Going(e) /\ Resume(e)' = Resume(e)
    BY <1>4, <1>5 DEF Unwinds
  <2>2. mem[e].pc = "record" /\ ~Flow.isFlow => Onward(e) = {} /\ mem[e].pc \in InRun
    <3>1. mem[e].pc = "record" /\ ~Flow.isFlow => mem[e].at = 0
      BY DEF Located, InRun
    <3> QED BY <3>1, AheadMessage DEF Onward, InRun
  <2>3. exec'[e].st = "Completed" => Unsent(e) = {}
    BY <1>2, <1>5, <2>2 DEF Unwinds
  <2> QED BY <1>2, <2>1, <2>3
<1>6. CASE GoesOn(e)
  <2>1. Unsent(e)' = Unsent(e) /\ Going(e)' = Going(e) /\ exec'[e].st = exec[e].st
    BY <1>4, <1>6 DEF GoesOn, Going
  <2>2. Unsent(e) \subseteq From(e)
    BY <1>2, <1>6 DEF GoesOn, From, InRun
  <2>3. mem'[e].pc \in InRun => Unsent(e) \subseteq Onward(e)'
    BY <1>3, <1>6, <2>2 DEF GoesOn, Leads, InRun
  <2>4. mem'[e].pc = "finish" => Unsent(e) = {}
    BY <1>3, <1>6, <2>2 DEF GoesOn, InRun
  <2>5. Going(e) => Unsent(e) \subseteq Ahead(Resume(e)')
    BY <1>2, <1>3, <1>6, <2>2 DEF GoesOn, Leads
  <2> QED BY <1>2, <2>1, <2>3, <2>4, <2>5
<1>7. CASE Catches(e)
  <2>1. /\ Unsent(e)' = Unsent(e) /\ Going(e)' = Going(e) /\ Resume(e)' = Resume(e)
        /\ exec'[e].st = exec[e].st /\ mem'[e].pc # "finish"
    BY <1>1, <1>4, <1>7 DEF Catches, Going, Resume, ResumeAt, Or
  <2>2. Onward(e) \subseteq Onward(e)' /\ mem[e].pc \in InRun
    BY <1>1, <1>7 DEF Catches, Onward, InRun
  <2> QED BY <1>2, <2>1, <2>2
<1>8. CASE Stores(e)
  <2>1. /\ Unsent(e)' = Unsent(e) /\ exec'[e].st = exec[e].st /\ mem[e].pc \in InRun
        /\ mem'[e].pc \notin InRun \cup {"finish"}
    BY <1>4, <1>8 DEF Stores, InRun
  <2>2. Unsent(e) \subseteq Ahead(Resume(e)')
    BY <1>2, <1>3, <1>8, <2>1 DEF Stores, Leads
  <2> QED BY <1>2, <2>1, <2>2
<1>9. CASE Delivers(e)
  <2>1. /\ exec'[e] = exec[e] /\ mem[e].pc = "send" /\ mem'[e].at = mem[e].at
        /\ mem'[e].pc # "finish" /\ mem[e].at \in Nodes
        /\ handed'[e] = [handed[e] EXCEPT ![mem[e].at] = @ + 1]
    BY <1>9, MessageAhead DEF Delivers
  <2>2. Going(e)' = Going(e) /\ Resume(e)' = Resume(e)
    BY <1>1, <2>1 DEF Going, Resume, ResumeAt, Or
  <2>3. Unsent(e)' \subseteq Unsent(e) \ {mem[e].at}
    <3>1. \A n \in Nodes : handed[e][n] \in Nat
      BY DEF Counts1
    <3>2. handed'[e][mem[e].at] # 0
      BY <2>1, <3>1 DEF Counts1
    <3>3. \A n : n # mem[e].at => handed'[e][n] = handed[e][n]
      BY <2>1 DEF Counts1
    <3> QED BY <1>1, <3>2, <3>3 DEF Unsent
  <2>4. Unsent(e) \subseteq Ahead(mem[e].at)
    BY <1>2, <2>1 DEF Onward, InRun
  <2>5. Ahead(mem[e].at) \ {mem[e].at} \subseteq Onward(e)'
    BY <1>1, <2>1 DEF Onward
  <2> QED BY <1>2, <2>1, <2>2, <2>3, <2>4, <2>5
<1> QED BY <1>5, <1>6, <1>7, <1>8, <1>9 DEF Moves

-----------------------------------------------------------------------------
(* Every step of an execution is such a move *)

(* To the one node that follows. *)
LEMMA LeadsOn ==
  ASSUME Flow.isFlow, NEW n \in Steps, NEW m, Follows(n) = Steps \cap {m}
  PROVE  /\ Leads(Ahead(n) \ {n}, Ahead(m))
         /\ ~IsMessage(n) => Leads(Ahead(n), Ahead(m))
<1>1. ASSUME Acyclic PROVE Ahead(m) \subseteq Ahead(n) \ {n}
  <2>1. CASE m \in Steps
    <3>1. m \in Follows(n)
      BY <2>1
    <3> QED BY <1>1, <3>1, AheadFollows, NeverBack DEF Acyclic
  <2>2. CASE m \notin Steps
    BY <2>2, AheadHere
  <2> QED BY <2>1, <2>2
<1>2. ASSUME NEW x \in Ahead(n), x # n PROVE x \in Ahead(m)
  BY <1>2, AheadOnly
<1> QED BY <1>1, <1>2 DEF Leads

(* What follows a node, by what the worker does there. *)
LEMMA FollowsStep ==
  ASSUME NEW n
  PROVE  /\ StepOf(n) \in {"enter", "send", "tag"} => Follows(n) = Steps \cap {Next1(n)}
         /\ StepOf(n) = "wait" => Follows(n) = Steps \cap {Or(Next1(n), StartNode)}
         /\ StepOf(n) = "condition" =>
              Node(n).type = "condition" /\ Follows(n) = Steps \cap {NextTrue(n), NextFalse(n)}
         /\ StepOf(n) = "finish" => Follows(n) = {}
         /\ StepOf(n) \in {"enter", "send", "tag", "condition", "wait", "finish"}
         /\ Flow.isFlow /\ StepOf(n) # "send" => ~IsMessage(n)
  BY DEF StepOf, Follows, IsMessage

(* A node that is passed, tagged at or sent from leads on to the next one. *)
LEMMA LeadsNext ==
  ASSUME Flow.isFlow, NEW n \in Steps, StepOf(n) \in {"enter", "send", "tag"}
  PROVE  /\ Leads(Ahead(n) \ {n}, Ahead(Next1(n)))
         /\ StepOf(n) # "send" => Leads(Ahead(n), Ahead(Next1(n)))
<1>1. Follows(n) = Steps \cap {Next1(n)} /\ (StepOf(n) # "send" => ~IsMessage(n))
  BY FollowsStep
<1>2. /\ Leads(Ahead(n) \ {n}, Ahead(Next1(n)))
      /\ ~IsMessage(n) => Leads(Ahead(n), Ahead(Next1(n)))
  BY <1>1, LeadsOn
<1> QED BY <1>1, <1>2

(* A wait leads on to what it stored. *)
LEMMA LeadsWait ==
  ASSUME Flow.isFlow, NEW n \in Steps, StepOf(n) = "wait"
  PROVE  Leads(Ahead(n), Ahead(Or(Next1(n), StartNode)))
<1>1. Follows(n) = Steps \cap {Or(Next1(n), StartNode)} /\ ~IsMessage(n)
  BY FollowsStep
<1> QED BY <1>1, LeadsOn

(* Nothing is lost where nothing moves. *)
LEMMA LeadsSame == \A P : Leads(P, P)
  BY DEF Leads

(* To one of two. *)
LEMMA LeadsBranch ==
  ASSUME Flow.isFlow, NEW n \in Steps, StepOf(n) = "condition",
         NEW m \in {NextTrue(n), NextFalse(n)}
  PROVE  Leads(Ahead(n), Ahead(m))
<1>1. Node(n).type = "condition" /\ (m \in Steps => m \in Follows(n))
  BY FollowsStep
<1>2. ~Unbranched
  BY <1>1 DEF Unbranched
<1>3. Ahead(m) \subseteq Ahead(n)
  <2>1. CASE m \in Steps
    BY <1>1, <2>1, AheadFollows
  <2>2. CASE m \notin Steps
    BY <2>2, AheadHere
  <2> QED BY <2>1, <2>2
<1> QED BY <1>2, <1>3 DEF Leads
(* What listeners, requests and the worker do to an execution. *)
StepsOf(e) ==
  \/ \E i \in DOMAIN events : Listen(e, i)
  \/ \E c \in Contacts : Trigger(e, c)
  \/ CreateRow(e) \/ AddJob(e) \/ FiringDies(e) \/ TakeJob(e) \/ WorkerDies(e)
  \/ WorkerStep(e)

(* The worker stays at nodes of the kind of what it does. *)
LEMMA LocatedExecution ==
  ASSUME NEW e \in Executions, PlacedInv, Meanwhile, Located(e), StepsOf(e)
  PROVE  Located(e)'
<1>0. /\ IsRow(exec[e]) /\ IsMem(mem[e]) /\ DOMAIN mem = Executions /\ DOMAIN exec = Executions
      /\ mem[e].pc \notin {"idle", "found"} => exec[e].st # "none"
      /\ job[e].st \in {"none", "waiting"} => mem[e].pc \in {"idle", "found", "add"}
      /\ job[e].st # "none" => exec[e].st # "none"
  BY DEF PlacedInv, Placed, LateInv, Late, Domains
<1>00. /\ Steps' = Steps /\ Flow' = Flow /\ (\A n : StepOf(n)' = StepOf(n))
      /\ 0 \notin Steps /\ Nodes \ {0} = Steps
  BY Same DEF Steps
<1> USE DEF Located, IsRow, IsMem, InRun, KindOf, ExecutionStatus, Goto, Rest
<1>1. ASSUME NEW i \in DOMAIN events, Listen(e, i) PROVE Located(e)'
  BY <1>0, <1>00, <1>1 DEF Listen, Unused
<1>2. ASSUME NEW c \in Contacts, Trigger(e, c) PROVE Located(e)'
  BY <1>0, <1>00, <1>2 DEF Trigger, Unused
<1>3. ASSUME CreateRow(e) PROVE Located(e)'
  BY <1>0, <1>00, <1>3 DEF CreateRow, Row
<1>4. ASSUME AddJob(e) PROVE Located(e)'
  BY <1>0, <1>00, <1>4 DEF AddJob
<1>5. ASSUME FiringDies(e) PROVE Located(e)'
  BY <1>0, <1>00, <1>5 DEF FiringDies
<1>6. ASSUME TakeJob(e) PROVE Located(e)'
  BY <1>0, <1>00, <1>6 DEF TakeJob
<1>7. ASSUME WorkerDies(e) PROVE Located(e)'
  BY <1>0, <1>00, <1>7 DEF WorkerDies
<1>8. ASSUME WorkerStep(e) PROVE Located(e)'
  <2>1. CASE Load(e)
    BY <1>0, <1>00, <2>1 DEF Load, Loaded
  <2>2. CASE Enter(e)
    <3> DEFINE n == mem[e].at
    <3>1. StepOf(n) \in {"enter", "send", "tag", "condition", "wait", "finish"}
      BY FollowsStep
    <3>2. CASE n \notin Steps
      BY <1>0, <1>00, <2>2, <3>2 DEF Enter
    <3>3. CASE n \in Steps
      <4>1. /\ mem' = [mem EXCEPT ![e].pc = StepOf(n),
                                  ![e].at = IF StepOf(n) = "enter" THEN Next1(n) ELSE n]
            /\ Flow.isFlow
            /\ exec'[e].st = exec[e].st
        BY <1>0, <1>00, <2>2, <3>3 DEF Enter, Stored, HasRow
      <4>2. exec[e].st \in {"Running", "gone"}
        BY <2>2 DEF Enter
      <4> QED BY <1>0, <1>00, <3>1, <3>3, <4>1, <4>2
    <3> QED BY <3>2, <3>3
  <2>3. CASE Send(e)
    BY <1>0, <1>00, <2>3 DEF Send, Thrown
  <2>4. CASE Pay(e)
    BY <1>0, <1>00, <2>4 DEF Pay, Thrown
  <2>5. CASE RecordNode(e)
    BY <1>0, <1>00, <2>5 DEF RecordNode, Thrown
  <2>6. CASE RecordMessage(e)
    BY <1>0, <1>00, <2>6 DEF RecordMessage, Thrown
  <2>7. CASE ScheduleRetry(e)
    BY <1>0, <1>00, <2>7 DEF ScheduleRetry, HasRow
  <2>8. CASE Requeue(e)
    BY <1>0, <1>00, <2>8 DEF Requeue
  <2>9. CASE TagContact(e)
    BY <1>0, <1>00, <2>9 DEF TagContact
  <2>10. CASE Branch(e)
    BY <1>0, <1>00, <2>10 DEF Branch
  <2>11. CASE Wait(e)
    BY <1>0, <1>00, <2>11 DEF Wait, Stored, HasRow
  <2>12. CASE Finish(e)
    BY <1>0, <1>00, <2>12 DEF Finish
  <2>13. CASE Return(e)
    BY <1>0, <1>00, <2>13 DEF Return, executions
  <2>14. CASE Throw(e)
    BY <1>0, <1>00, <2>14 DEF Throw
  <2>15. CASE MarkFailed(e)
    BY <1>0, <1>00, <2>15 DEF MarkFailed
  <2> QED BY <1>8, <2>1, <2>2, <2>3, <2>4, <2>5, <2>6, <2>7, <2>8, <2>9, <2>10, <2>11,
             <2>12, <2>13, <2>14, <2>15 DEF WorkerStep
<1> HIDE DEF Located, IsRow, IsMem, InRun, KindOf, ExecutionStatus, Goto, Rest
<1> QED BY <1>1, <1>2, <1>3, <1>4, <1>5, <1>6, <1>7, <1>8 DEF StepsOf

(* Every step of an execution is one of the moves. *)
LEMMA ExecutionMoves ==
  ASSUME NEW e \in Executions, PlacedInv, Meanwhile, Fault \/ Crash => Failures' > Failures,
         handed \in [Executions -> Counts1], Located(e), StepsOf(e)
  PROVE  Moves(e)
<1>0. /\ IsRow(exec[e]) /\ IsMem(mem[e]) /\ DOMAIN mem = Executions /\ DOMAIN exec = Executions
      /\ mem[e].pc \notin {"idle", "found"} => exec[e].st # "none"
      /\ status = "gone" => exec[e].st \in {"none", "gone"}
      /\ job[e].st \in {"none", "waiting"} => mem[e].pc \in {"idle", "found", "add"}
      /\ job[e].st # "none" => exec[e].st # "none"
  BY DEF PlacedInv, Placed, LateInv, Late, Domains
<1>00. StartNode' = StartNode /\ (\A p : Ahead(p)' = Ahead(p)) /\ Nodes \ {0} = Steps
  BY Same DEF Steps
<1> USE DEF Going, Resume, ResumeAt, Or, Slack, InRun, IsRow, IsMem, Goto, Rest, HasRow, history
<1>1. ASSUME NEW i \in DOMAIN events, Listen(e, i) PROVE Unwinds(e)
  BY <1>0, <1>00, <1>1 DEF Listen, Unused, Unwinds
<1>2. ASSUME NEW c \in Contacts, Trigger(e, c) PROVE Unwinds(e)
  BY <1>0, <1>00, <1>2 DEF Trigger, Unused, Unwinds
<1>3. ASSUME CreateRow(e) PROVE Unwinds(e)
  BY <1>0, <1>00, <1>3 DEF CreateRow, Row, Unwinds, Located
<1>4. ASSUME AddJob(e) \/ FiringDies(e) PROVE Unwinds(e)
  BY <1>0, <1>00, <1>4 DEF AddJob, FiringDies, Unwinds
<1>5. ASSUME TakeJob(e) PROVE Unwinds(e)
  BY <1>0, <1>00, <1>5 DEF TakeJob, Unwinds
<1>6. ASSUME WorkerDies(e) PROVE Unwinds(e)
  BY <1>0, <1>00, <1>6 DEF WorkerDies, Unwinds
<1>7. ASSUME Load(e) PROVE Moves(e)
  <2>1. CASE mem' = [mem EXCEPT ![e] = Loaded(e)] /\ UNCHANGED left
    <3>1. /\ mem'[e] = Loaded(e) /\ mem[e].pc = "load" /\ UNCHANGED <<exec, handed>>
          /\ exec[e].st # "none"
      BY <1>0, <1>7, <2>1 DEF Load
    <3>2. CASE exec[e].st \in {"gone", "Completed", "Failed"}
      BY <1>0, <1>00, <3>1, <3>2 DEF Loaded, Unwinds, Moves
    <3>3. CASE exec[e].st = "Running" /\ ~Flow.isFlow
      <4>1. mem'[e].pc = "send"
        BY <1>0, <3>1, <3>3 DEF Loaded
      <4>2. From(e) = {0} /\ Onward(e)' = {0}
        BY <1>00, <3>1, <3>3, <4>1, AheadMessage DEF From, Onward
      <4>3. Resume(e)' = Resume(e) /\ Slack(e) = 0
        BY <1>00, <3>1
      <4> QED BY <3>1, <3>3, <4>1, <4>2, <4>3, LeadsSame DEF GoesOn, Moves
    <3>4. CASE exec[e].st = "Running" /\ Flow.isFlow
      <4>1. mem'[e].pc = "enter" /\ mem'[e].at = Resume(e)
        BY <1>0, <3>1, <3>4 DEF Loaded
      <4>2. Onward(e)' = From(e)
        BY <1>00, <3>1, <4>1 DEF From, Onward
      <4>3. Resume(e)' = Resume(e) /\ Slack(e) = 0
        BY <1>00, <3>1
      <4> QED BY <3>1, <3>4, <4>1, <4>2, <4>3, LeadsSame DEF GoesOn, Moves
    <3> QED BY <3>1, <3>2, <3>3, <3>4 DEF Located, ExecutionStatus
  <2>2. CASE Fault /\ Goto(e, "throw")
    BY <1>0, <1>00, <1>7, <2>2 DEF Load, Unwinds, Moves
  <2> QED BY <1>7, <2>1, <2>2 DEF Load
<1>8. ASSUME Enter(e) PROVE GoesOn(e)
  <2> DEFINE n == mem[e].at
  <2>0. /\ mem[e].pc = "enter" /\ Flow.isFlow /\ UNCHANGED handed /\ From(e) = Ahead(n)
        /\ exec[e].st # "none"
    BY <1>0, <1>8 DEF Enter, Located, From, Onward
  <2>1. CASE n \notin Steps
    <3>1. UNCHANGED exec /\ mem'[e].pc = "finish" /\ Ahead(n) = {}
      BY <1>0, <1>00, <1>8, <2>0, <2>1, AheadHere DEF Enter
    <3> QED BY <1>0, <1>00, <2>0, <3>1 DEF GoesOn
  <2>2. CASE n \in Steps
    <3>1. /\ mem'[e].pc = StepOf(n)
          /\ mem'[e].at = IF StepOf(n) = "enter" THEN Next1(n) ELSE n
          /\ \/ exec' = IF HasRow(e) THEN Stored(e, n) ELSE exec
             \/ Fault /\ UNCHANGED exec
      BY <1>0, <1>00, <1>8, <2>2 DEF Enter
    <3>2. /\ exec'[e].st = exec[e].st
          /\ \/ Resume(e)' = Resume(e) /\ Failures' > Failures
             \/ Resume(e)' = n
             \/ ~Going(e)
      <4>1. n # 0
        BY <1>00, <2>2
      <4>2. CASE Fault /\ UNCHANGED exec
        BY <1>00, <4>2
      <4>3. CASE exec' = IF HasRow(e) THEN Stored(e, n) ELSE exec
        BY <1>0, <1>00, <2>0, <4>1, <4>3 DEF Stored, Located
      <4> QED BY <3>1, <4>2, <4>3
    <3>3. \/ Resume(e)' = Resume(e) /\ (Slack(e) <= Slack(e)' \/ Failures' > Failures)
          \/ Leads(From(e), Ahead(Resume(e)'))
          \/ ~Going(e)
      BY <2>0, <3>2, LeadsSame
    <3>4. CASE StepOf(n) \in {"send", "tag", "condition", "wait"}
      <4>1. Onward(e)' = From(e)
        BY <1>00, <2>0, <3>1, <3>4 DEF Onward
      <4> QED BY <2>0, <3>1, <3>2, <3>3, <3>4, <4>1, LeadsSame DEF GoesOn
    <3>5. CASE StepOf(n) = "enter"
      <4>1. Onward(e)' = Ahead(Next1(n))
        BY <1>00, <3>1, <3>5 DEF Onward
      <4>2. Leads(From(e), Onward(e)')
        BY <2>0, <2>2, <3>5, <4>1, LeadsNext
      <4> QED BY <2>0, <3>1, <3>2, <3>3, <3>5, <4>2 DEF GoesOn
    <3>6. CASE StepOf(n) = "finish"
      <4>1. \A x \in Ahead(n) : x = n
        BY <2>0, <2>2, <3>6, FollowsStep, AheadOnly
      <4>2. \A x \in From(e) : ~IsMessage(x)
        BY <2>0, <3>6, <4>1, FollowsStep
      <4> QED BY <2>0, <3>1, <3>2, <3>3, <3>6, <4>2 DEF GoesOn
    <3> QED BY <3>4, <3>5, <3>6, FollowsStep
  <2> QED BY <2>1, <2>2
<1>9. ASSUME Send(e) PROVE Moves(e)
  <2>1. /\ mem[e].pc = "send" /\ UNCHANGED exec /\ Slack(e) = 0
        /\ mem'[e].at = mem[e].at /\ Resume(e)' = Resume(e)
    BY <1>0, <1>00, <1>9 DEF Send, Thrown
  <2>2. CASE Thrown(e) /\ UNCHANGED handed
    <3>1. mem'[e].pc = IF Flow.isFlow THEN "caught" ELSE "throw"
      BY <1>0, <2>2 DEF Thrown
    <3> QED BY <2>1, <2>2, <3>1 DEF Catches, Unwinds, Moves
  <2>3. CASE Hand(e) /\ Goto(e, "pay")
    <3>1. handed'[e] = [handed[e] EXCEPT ![mem[e].at] = @ + 1]
      BY <2>3 DEF Hand
    <3>2. mem'[e].pc = "pay"
      BY <1>0, <2>3
    <3> QED BY <2>1, <3>1, <3>2 DEF Delivers, Moves
  <2>4. CASE Hand(e) /\ Fault /\ Thrown(e)
    <3>1. handed'[e] = [handed[e] EXCEPT ![mem[e].at] = @ + 1]
      BY <2>4 DEF Hand
    <3>2. mem'[e].pc \in {"caught", "throw"}
      BY <1>0, <2>4 DEF Thrown
    <3> QED BY <2>1, <2>4, <3>1, <3>2 DEF Delivers, Moves
  <2> QED BY <1>9, <2>2, <2>3, <2>4 DEF Send
<1>10. ASSUME Pay(e) PROVE Moves(e)
  <2>1. /\ mem[e].pc = "pay" /\ UNCHANGED <<exec, handed>> /\ mem'[e].at = mem[e].at
        /\ Resume(e)' = Resume(e)
        /\ \/ mem'[e].pc = "record"
           \/ Failures' > Failures /\ mem'[e].pc = IF Flow.isFlow THEN "caught" ELSE "throw"
    BY <1>0, <1>00, <1>10 DEF Pay, Debit, Thrown
  <2>2. CASE mem'[e].pc = "record"
    <3>1. Onward(e)' = From(e)
      BY <1>00, <2>1, <2>2 DEF From, Onward
    <3> QED BY <2>1, <2>2, <3>1, LeadsSame DEF GoesOn, Moves
  <2>3. CASE mem'[e].pc = IF Flow.isFlow THEN "caught" ELSE "throw"
    BY <2>1, <2>3 DEF Catches, Unwinds, Moves
  <2> QED BY <2>1, <2>2, <2>3
<1>11. ASSUME RecordNode(e) PROVE Moves(e)
  <2>0. mem[e].pc = "record" /\ Flow.isFlow /\ UNCHANGED handed
    BY <1>11 DEF RecordNode
  <2>1. CASE mem'[e].pc = "enter" /\ mem'[e].at = Next1(mem[e].at)
             /\ exec' = [exec EXCEPT ![e].tries = 0]
    <3>1. exec'[e].st = exec[e].st /\ Resume(e)' = Resume(e)
      BY <1>0, <1>00, <2>1
    <3>2. Onward(e)' = Ahead(Next1(mem[e].at)) /\ From(e) = Ahead(mem[e].at) \ {mem[e].at}
      BY <1>00, <2>0, <2>1 DEF Onward, From
    <3>3. mem[e].at \in Steps /\ StepOf(mem[e].at) = "send"
      BY <2>0 DEF Located, KindOf
    <3>4. Leads(From(e), Onward(e)')
      BY <2>0, <3>2, <3>3, LeadsNext
    <3> QED BY <2>0, <2>1, <3>1, <3>4 DEF GoesOn, Moves
  <2>2. CASE Thrown(e) /\ UNCHANGED exec /\ (status = "gone" \/ Fault)
    <3>1. mem'[e].pc = "caught" /\ mem'[e].at = mem[e].at
      BY <1>0, <2>0, <2>2 DEF Thrown
    <3>2. Failures' > Failures \/ ~Going(e)
      BY <1>0, <2>0, <2>2
    <3> QED BY <2>0, <2>2, <3>1, <3>2 DEF Catches, Moves
  <2>3. \/ /\ mem'[e].pc = "enter" /\ mem'[e].at = Next1(mem[e].at)
           /\ exec' = [exec EXCEPT ![e].tries = 0]
        \/ Thrown(e) /\ UNCHANGED exec /\ (status = "gone" \/ Fault)
    BY <1>0, <1>11 DEF RecordNode
  <2> QED BY <2>1, <2>2, <2>3
<1>12. ASSUME RecordMessage(e) PROVE Unwinds(e)
  BY <1>0, <1>00, <1>12 DEF RecordMessage, Thrown, Unwinds
<1>13. ASSUME ScheduleRetry(e) PROVE Moves(e)
  <2>1. mem[e].pc = "caught" /\ UNCHANGED handed /\ mem[e].at \in Steps
    BY <1>13 DEF ScheduleRetry, Located
  <2>2. CASE HasRow(e) /\ exec' = [exec EXCEPT ![e].tries = @ + 1, ![e].node = mem[e].at,
                                     ![e].st = "Running"]
             /\ Goto(e, "requeue")
    <3>1. exec'[e].st = exec[e].st /\ Resume(e)' = mem[e].at /\ mem'[e].pc = "requeue"
      BY <1>0, <1>00, <2>1, <2>2 DEF Located
    <3>2. Onward(e) = Ahead(Resume(e)')
      BY <2>1, <3>1 DEF Onward
    <3> QED BY <2>1, <3>1, <3>2, LeadsSame DEF Stores, Moves
  <2>3. CASE Goto(e, "throw") /\ UNCHANGED exec
    BY <1>0, <1>00, <2>1, <2>3 DEF Unwinds, Moves
  <2> QED BY <1>13, <2>2, <2>3 DEF ScheduleRetry
<1>14. ASSUME Requeue(e) PROVE Unwinds(e)
  BY <1>0, <1>00, <1>14 DEF Requeue, Unwinds
<1>15. ASSUME TagContact(e) PROVE GoesOn(e)
  <2>1. /\ mem[e].pc = "tag" /\ UNCHANGED <<exec, handed>>
        /\ mem'[e].pc = "enter" /\ mem'[e].at = Next1(mem[e].at)
    BY <1>0, <1>15 DEF TagContact
  <2>2. Flow.isFlow /\ mem[e].at \in Steps /\ StepOf(mem[e].at) = "tag"
    BY <2>1 DEF Located, KindOf
  <2>3. From(e) = Ahead(mem[e].at) /\ Onward(e)' = Ahead(Next1(mem[e].at))
    BY <1>00, <2>1 DEF From, Onward
  <2>4. Leads(From(e), Onward(e)')
    BY <2>2, <2>3, LeadsNext
  <2>5. Resume(e)' = Resume(e)
    BY <1>00, <2>1
  <2> QED BY <2>1, <2>4, <2>5 DEF GoesOn
<1>16. ASSUME Branch(e) PROVE Moves(e)
  <2>1. mem[e].pc = "condition" /\ UNCHANGED <<exec, handed>> /\ Resume(e)' = Resume(e)
    BY <1>00, <1>16 DEF Branch
  <2>2. CASE mem'[e].pc = "enter" /\ mem'[e].at \in {NextTrue(mem[e].at), NextFalse(mem[e].at)}
    <3>1. Flow.isFlow /\ mem[e].at \in Steps /\ StepOf(mem[e].at) = "condition"
      BY <2>1 DEF Located, KindOf
    <3>2. From(e) = Ahead(mem[e].at) /\ Onward(e)' = Ahead(mem'[e].at)
      BY <1>00, <2>1, <2>2 DEF From, Onward
    <3>3. Leads(From(e), Onward(e)')
      BY <2>2, <3>1, <3>2, LeadsBranch
    <3> QED BY <2>1, <2>2, <3>3 DEF GoesOn, Moves
  <2>3. CASE mem'[e].pc = "throw"
    BY <2>1, <2>3 DEF Unwinds, Moves
  <2>4. \/ mem'[e].pc = "enter" /\ mem'[e].at \in {NextTrue(mem[e].at), NextFalse(mem[e].at)}
        \/ mem'[e].pc = "throw"
    BY <1>0, <1>16 DEF Branch
  <2> QED BY <2>2, <2>3, <2>4
<1>17. ASSUME Wait(e) PROVE Moves(e)
  <2>1. mem[e].pc = "wait" /\ UNCHANGED handed
    BY <1>17 DEF Wait
  <2>2. CASE HasRow(e) /\ exec' = Stored(e, Next1(mem[e].at)) /\ Goto(e, "requeue")
    <3>1. Flow.isFlow /\ mem[e].at \in Steps /\ StepOf(mem[e].at) = "wait"
      BY <2>1 DEF Located, KindOf
    <3>2. /\ exec'[e].st = exec[e].st /\ mem'[e].pc = "requeue"
          /\ Resume(e)' = Or(Next1(mem[e].at), StartNode)
      BY <1>0, <1>00, <2>1, <2>2 DEF Stored, Located
    <3>3. Ahead(Resume(e)') = Ahead(Or(Next1(mem[e].at), StartNode))
      BY <3>2
    <3>4. Onward(e) = Ahead(mem[e].at)
      BY <2>1 DEF Onward
    <3>5. Leads(Onward(e), Ahead(Resume(e)'))
      BY <3>1, <3>3, <3>4, LeadsWait
    <3> QED BY <2>1, <3>2, <3>5 DEF Stores, Moves
  <2>3. CASE Goto(e, "throw") /\ UNCHANGED exec
    BY <1>0, <1>00, <2>1, <2>3 DEF Unwinds, Moves
  <2> QED BY <1>17, <2>2, <2>3 DEF Wait
<1>18. ASSUME Finish(e) PROVE Unwinds(e)
  BY <1>0, <1>00, <1>18 DEF Finish, Unwinds
<1>19. ASSUME Return(e) \/ Throw(e) PROVE Unwinds(e)
  BY <1>0, <1>00, <1>19 DEF Return, Throw, Unwinds
<1>20. ASSUME MarkFailed(e) PROVE Unwinds(e)
  BY <1>0, <1>00, <1>20 DEF MarkFailed, Unwinds
<1> HIDE DEF Going, Resume, ResumeAt, Or, Slack, InRun, IsRow, IsMem, Goto, Rest, HasRow, history
<1>21. WorkerStep(e) => Moves(e)
  BY <1>7, <1>8, <1>9, <1>10, <1>11, <1>12, <1>13, <1>14, <1>15, <1>16, <1>17, <1>18, <1>19, <1>20
     DEF WorkerStep, Moves
<1> QED BY <1>1, <1>2, <1>3, <1>4, <1>5, <1>6, <1>21 DEF StepsOf, Moves

(* A message is paid for at most as often as it went out. *)
PaidFor(e) ==
  /\ \A n \in Nodes : charged[e][n] <= handed[e][n]
  /\ mem[e].pc = "pay" => charged[e][mem[e].at] < handed[e][mem[e].at]
Tallies == handed \in [Executions -> Counts1] /\ charged \in [Executions -> Counts1]

(* A step of an execution pays for no message that did not go out. *)
LEMMA PaidExecution ==
  ASSUME NEW e \in Executions, PlacedInv, Meanwhile, Tallies, Located(e), PaidFor(e), StepsOf(e)
  PROVE  /\ Tallies' /\ PaidFor(e)'
         /\ \A f \in Executions \ {e} :
              /\ handed'[f] = handed[f] /\ charged'[f] = charged[f]
              /\ mem'[f] = mem[f] /\ exec'[f] = exec[f]
<1>0. /\ IsMem(mem[e]) /\ DOMAIN mem = Executions /\ DOMAIN exec = Executions /\ Nodes' = Nodes
  BY Same DEF PlacedInv, LateInv, Late, Domains
<1> DEFINE Ok == /\ Tallies' /\ PaidFor(e)'
                 /\ \A f \in Executions \ {e} :
                      /\ handed'[f] = handed[f] /\ charged'[f] = charged[f]
                      /\ mem'[f] = mem[f] /\ exec'[f] = exec[f]
           Others == \A f \in Executions \ {e} : mem'[f] = mem[f] /\ exec'[f] = exec[f]
<1>1. ASSUME UNCHANGED <<handed, charged>>, mem'[e].pc # "pay", Others PROVE Ok
  BY <1>0, <1>1 DEF Tallies, Counts1, PaidFor
<1>2. CASE Send(e)
  <2>1. mem[e].at \in Nodes /\ mem[e].pc = "send"
    BY <1>2, MessageAhead DEF Send
  <2>2. /\ Others /\ UNCHANGED charged /\ mem'[e].at = mem[e].at
        /\ \/ UNCHANGED handed /\ mem'[e].pc # "pay"
           \/ handed' = [handed EXCEPT ![e][mem[e].at] = @ + 1]
    BY <1>0, <1>2 DEF Send, Thrown, Goto, Hand, IsMem
  <2> DEFINE n == mem[e].at
  <2>3. CASE handed' = [handed EXCEPT ![e][n] = @ + 1]
    <3>1. handed' \in [Executions -> Counts1] /\ handed'[e][n] = handed[e][n] + 1
          /\ \A m \in Nodes \ {n} : handed'[e][m] = handed[e][m]
      BY <2>1, <2>3 DEF Tallies, Counts1
    <3>2. \A f \in Executions \ {e} : handed'[f] = handed[f]
      BY <2>3 DEF Tallies
    <3>3. \A m \in Nodes : charged[e][m] \in Nat /\ handed[e][m] \in Nat
      BY DEF Tallies, Counts1
    <3>4. Tallies'
      BY <1>0, <2>2, <3>1 DEF Tallies, Counts1
    <3>5. PaidFor(e)'
      <4>1. \A m \in Nodes : charged[e][m] <= handed'[e][m]
        BY <2>1, <3>1, <3>3 DEF PaidFor
      <4>2. charged[e][n] < handed'[e][n]
        BY <2>1, <3>1, <3>3 DEF PaidFor
      <4> QED BY <1>0, <2>2, <4>1, <4>2 DEF PaidFor
    <3> QED BY <2>2, <3>2, <3>4, <3>5
  <2>4. CASE UNCHANGED handed /\ mem'[e].pc # "pay"
    BY <1>1, <2>2, <2>4
  <2> QED BY <2>2, <2>3, <2>4
<1>3. CASE Pay(e)
  <2>1. mem[e].at \in Nodes /\ mem[e].pc = "pay"
    BY <1>3, MessageAhead DEF Pay
  <2>2. /\ Others /\ UNCHANGED handed /\ mem'[e].pc # "pay"
        /\ \/ UNCHANGED charged
           \/ charged' = [charged EXCEPT ![e][mem[e].at] = @ + 1]
    BY <1>0, <1>3 DEF Pay, Thrown, Goto, Debit, IsMem
  <2> DEFINE n == mem[e].at
  <2>3. CASE charged' = [charged EXCEPT ![e][n] = @ + 1]
    <3>1. charged' \in [Executions -> Counts1] /\ charged'[e][n] = charged[e][n] + 1
          /\ \A m \in Nodes \ {n} : charged'[e][m] = charged[e][m]
      BY <2>1, <2>3 DEF Tallies, Counts1
    <3>2. \A f \in Executions \ {e} : charged'[f] = charged[f]
      BY <2>3 DEF Tallies
    <3>3. \A m \in Nodes : charged[e][m] \in Nat /\ handed[e][m] \in Nat
      BY DEF Tallies, Counts1
    <3>4. Tallies'
      BY <1>0, <2>2, <3>1 DEF Tallies, Counts1
    <3>5. \A m \in Nodes : charged'[e][m] <= handed[e][m]
      BY <2>1, <3>1, <3>3 DEF PaidFor
    <3>6. PaidFor(e)'
      BY <1>0, <2>2, <3>5 DEF PaidFor
    <3> QED BY <2>2, <3>2, <3>4, <3>6
  <2>4. CASE UNCHANGED charged
    BY <1>1, <2>2, <2>4
  <2> QED BY <2>2, <2>3, <2>4
<1> USE DEF Goto, Rest, IsMem
<1>4. ASSUME NEW i \in DOMAIN events, Listen(e, i) PROVE Ok
  <2>1. UNCHANGED <<handed, charged>> /\ mem'[e].pc # "pay" /\ Others
    BY <1>0, <1>4 DEF Listen, Unused, history
  <2> QED BY <1>1, <2>1
<1>5. ASSUME NEW c \in Contacts, Trigger(e, c) PROVE Ok
  <2>1. UNCHANGED <<handed, charged>> /\ mem'[e].pc # "pay" /\ Others
    BY <1>0, <1>5 DEF Trigger, history
  <2> QED BY <1>1, <2>1
<1>6. ASSUME CreateRow(e) \/ AddJob(e) \/ FiringDies(e) PROVE Ok
  <2>1. UNCHANGED <<handed, charged>> /\ mem'[e].pc # "pay" /\ Others
    BY <1>0, <1>6 DEF CreateRow, AddJob, FiringDies, history
  <2> QED BY <1>1, <2>1
<1>7. ASSUME TakeJob(e) \/ WorkerDies(e) PROVE Ok
  <2>1. UNCHANGED <<handed, charged>> /\ mem'[e].pc # "pay" /\ Others
    BY <1>0, <1>7 DEF TakeJob, WorkerDies, history
  <2> QED BY <1>1, <2>1
<1>8. ASSUME Load(e) \/ Enter(e) PROVE Ok
  <2>1. UNCHANGED <<handed, charged>> /\ mem'[e].pc # "pay" /\ Others
    BY <1>0, <1>8 DEF Load, Loaded, Enter, Stored, StepOf, history
  <2> QED BY <1>1, <2>1
<1>9. ASSUME RecordNode(e) \/ RecordMessage(e) PROVE Ok
  <2>1. UNCHANGED <<handed, charged>> /\ mem'[e].pc # "pay" /\ Others
    BY <1>0, <1>9 DEF RecordNode, RecordMessage, Thrown, history
  <2> QED BY <1>1, <2>1
<1>10. ASSUME ScheduleRetry(e) \/ Requeue(e) \/ TagContact(e) PROVE Ok
  <2>1. UNCHANGED <<handed, charged>> /\ mem'[e].pc # "pay" /\ Others
    BY <1>0, <1>10 DEF ScheduleRetry, Requeue, TagContact, history
  <2> QED BY <1>1, <2>1
<1>11. ASSUME Branch(e) \/ Wait(e) \/ Finish(e) PROVE Ok
  <2>1. UNCHANGED <<handed, charged>> /\ mem'[e].pc # "pay" /\ Others
    BY <1>0, <1>11 DEF Branch, Wait, Stored, Finish, history
  <2> QED BY <1>1, <2>1
<1>12. ASSUME Return(e) \/ Throw(e) \/ MarkFailed(e) PROVE Ok
  <2>1. UNCHANGED <<handed, charged>> /\ mem'[e].pc # "pay" /\ Others
    BY <1>0, <1>12 DEF Return, Throw, MarkFailed, history
  <2> QED BY <1>1, <2>1
<1> HIDE DEF Goto, Rest, IsMem, Ok, Others
<1>13. WorkerStep(e) => Ok
  BY <1>2, <1>3, <1>8, <1>9, <1>10, <1>11, <1>12 DEF WorkerStep, Ok, Others
<1>14. Ok
  BY <1>4, <1>5, <1>6, <1>7, <1>13 DEF StepsOf
<1> QED BY <1>14 DEF Ok

-----------------------------------------------------------------------------
(* All executions *)

Orderly(e) == Located(e) /\ Limited(e) /\ Complete(e) /\ PaidFor(e)
AutomationInv ==
  PlacedInv /\ Bounds /\ Tallies /\ \A e \in Executions : Orderly(e)

(* Nobody moves an execution; it may be created or deleted. *)
Stays(e) ==
  /\ handed'[e] = handed[e] /\ charged'[e] = charged[e] /\ mem'[e] = mem[e]
  /\ exec'[e].st \in ExecutionStatus /\ (mem[e].pc = "found" => exec'[e].st = exec[e].st)
  /\ Going(e)' => Going(e) /\ Resume(e)' = Resume(e)
  /\ exec'[e].st = "Completed" => exec[e].st = "Completed"
  /\ exec[e].st = "none" \/ exec'[e].st \in {exec[e].st, "gone"}

(* What nobody moves stays in order. *)
LEMMA OrderlyStays ==
  ASSUME NEW e \in Executions, Meanwhile, Tallies, Orderly(e), Stays(e)
  PROVE  Orderly(e)'
<1>0. /\ Nodes' = Nodes /\ Steps' = Steps /\ StartNode' = StartNode
      /\ Acyclic' = Acyclic /\ Unbranched' = Unbranched /\ Flow' = Flow
      /\ \A p : Ahead(p)' = Ahead(p)
      /\ \A n : IsMessage(n)' = IsMessage(n) /\ StepOf(n)' = StepOf(n)
      /\ \A h, P : Again(h, P)' = Again(h, P)
  BY Same
<1>1. Located(e)'
  BY <1>0 DEF Orderly, Stays, Located, KindOf
<1>2. Onward(e)' = Onward(e) /\ Slack(e)' = Slack(e)
  BY <1>0 DEF Stays, Onward, Slack
<1>3. Limited(e)'
  <2> SUFFICES ASSUME Acyclic
               PROVE  /\ Again(handed[e], {}) <= Failures'
                      /\ mem[e].pc \in InRun /\ (mem[e].pc = "caught" => Going(e)') =>
                           Again(handed[e], Onward(e)) <= Failures'
                      /\ Going(e)' =>
                           Again(handed[e], Ahead(Resume(e)')) <= Failures' + Slack(e)
    BY <1>0, <1>2 DEF Limited, Stays
  <2>1. /\ Again(handed[e], {}) <= Failures
        /\ mem[e].pc \in InRun /\ (mem[e].pc = "caught" => Going(e)) =>
             Again(handed[e], Onward(e)) <= Failures
        /\ Going(e) => Again(handed[e], Ahead(Resume(e))) <= Failures + Slack(e)
    BY DEF Orderly, Limited
  <2>2. handed[e] \in Counts1 /\ world \in Worlds
    BY DEF Tallies, Meanwhile
  <2>3. \A P : Again(handed[e], P) \in Int
    BY <2>2, AgainIsInt
  <2>4. Failures \in Int /\ Failures' \in Int /\ Failures' >= Failures /\ Slack(e) \in {0, 1}
    BY DEF Meanwhile, Slack
  <2>5. Going(e)' => Going(e) /\ Resume(e)' = Resume(e)
    BY DEF Stays
  <2> QED BY <2>1, <2>3, <2>4, <2>5
<1>4. Complete(e)'
  <2>1. Unsent(e)' = Unsent(e)
    BY <1>0 DEF Stays, Unsent
  <2> QED BY <1>0, <1>2, <2>1 DEF Orderly, Stays, Complete
<1>5. PaidFor(e)'
  BY <1>0 DEF Orderly, Stays, PaidFor
<1> QED BY <1>1, <1>3, <1>4, <1>5 DEF Orderly

(* An execution that goes on, and those that do not. *)
LEMMA OrderlyExecution ==
  ASSUME AutomationInv, Meanwhile, Fault \/ Crash => Failures' > Failures,
         NEW e \in Executions, StepsOf(e)
  PROVE  Tallies' /\ \A f \in Executions : Orderly(f)'
<1>0. /\ PlacedInv /\ Tallies /\ (\A f \in Executions : Orderly(f))
      /\ LateInv /\ handed \in [Executions -> Counts1]
  BY DEF AutomationInv, PlacedInv, Tallies
<1>1. Located(e) /\ Limited(e) /\ Complete(e) /\ PaidFor(e) /\ handed[e] \in Counts1
  BY <1>0 DEF Orderly
<1>2. Moves(e)
  BY <1>0, <1>1, ExecutionMoves
<1>3. Located(e)' /\ Limited(e)' /\ Complete(e)'
  BY <1>0, <1>1, <1>2, LocatedExecution, LimitedMoves, CompleteMoves
<1>4. /\ Tallies' /\ PaidFor(e)'
      /\ \A f \in Executions \ {e} :
           /\ handed'[f] = handed[f] /\ charged'[f] = charged[f]
           /\ mem'[f] = mem[f] /\ exec'[f] = exec[f]
  BY <1>0, <1>1, PaidExecution
<1>5. ASSUME NEW f \in Executions \ {e} PROVE Orderly(f)'
  <2>1. Orderly(f) /\ StartNode' = StartNode
    BY <1>0, Same
  <2>2. Stays(f)
    BY <1>4, <2>1 DEF Stays, Orderly, Located, Going, Resume, ResumeAt, Or
  <2> QED BY <1>0, <2>1, <2>2, OrderlyStays
<1>6. Orderly(e)'
  BY <1>3, <1>4 DEF Orderly
<1> QED BY <1>4, <1>5, <1>6

(* Crons and requests move no execution. *)
LEMMA OrderlyElsewhere ==
  ASSUME AutomationInv, Meanwhile, UNCHANGED <<handed, charged>>,
         \A e \in Executions : Stays(e)
  PROVE  Tallies' /\ \A e \in Executions : Orderly(e)'
<1>1. Tallies /\ (\A e \in Executions : Orderly(e)) /\ Nodes' = Nodes
  BY Same DEF AutomationInv
<1>2. Tallies'
  BY <1>1 DEF Tallies, Counts1
<1>3. \A e \in Executions : Orderly(e)'
  BY <1>1, OrderlyStays
<1> QED BY <1>2, <1>3

(* One that does not change. *)
LEMMA StaysSame ==
  ASSUME AutomationInv, Meanwhile, NEW e \in Executions,
         handed'[e] = handed[e], charged'[e] = charged[e], mem'[e] = mem[e], exec'[e] = exec[e]
  PROVE  Stays(e)
<1>1. exec[e].st \in ExecutionStatus /\ StartNode' = StartNode
  BY Same DEF AutomationInv, Orderly, Located
<1> QED BY <1>1 DEF Stays, Going, Resume, ResumeAt, Or

(* So it does when a cron creates an execution, *)
LEMMA OrderlyCron ==
  ASSUME AutomationInv, Meanwhile, NEW k \in Runs, NEW e \in Executions, CronCreates(k, e)
  PROVE  Tallies' /\ \A f \in Executions : Orderly(f)'
<1>0. DOMAIN exec = Executions /\ StartNode' = StartNode
  BY Same DEF AutomationInv, PlacedInv, LateInv, Domains
<1>1. /\ UNCHANGED <<mem, handed, charged>> /\ exec[e].st = "none" /\ mem[e].pc = "idle"
      /\ UNCHANGED exec \/ \E c : exec' = [exec EXCEPT ![e] = Row("Running", c)]
  BY DEF CronCreates, Unused, history
<1>2. ASSUME NEW f \in Executions PROVE Stays(f)
  <2>1. CASE exec'[f] = exec[f]
    BY <1>1, <2>1, StaysSame
  <2>2. CASE exec'[f] # exec[f]
    <3>1. f = e /\ exec'[f].st = "Running" /\ exec'[f].node = 0
      BY <1>0, <1>1, <2>2 DEF Row
    <3>2. Going(f) /\ Resume(f)' = Resume(f)
      BY <1>0, <1>1, <3>1 DEF Going, Resume, ResumeAt, Or
    <3> QED BY <1>1, <3>1, <3>2 DEF Stays, ExecutionStatus
  <2> QED BY <2>1, <2>2
<1> QED BY <1>1, <1>2, OrderlyElsewhere

(* and when the automation is deleted with its rows. *)
LEMMA OrderlyDelete ==
  ASSUME AutomationInv, Meanwhile, NEW r \in Clients, WriteDelete(r)
  PROVE  Tallies' /\ \A f \in Executions : Orderly(f)'
<1>1. /\ UNCHANGED <<mem, handed, charged>>
      /\ exec' = [e \in Executions |->
                    IF HasRow(e) THEN [exec[e] EXCEPT !.st = "gone"] ELSE exec[e]]
  BY DEF WriteDelete, history
<1>2. ASSUME NEW f \in Executions PROVE Stays(f)
  <2>1. CASE ~HasRow(f)
    BY <1>1, <2>1, StaysSame
  <2>2. CASE HasRow(f)
    <3>1. /\ Located(f) /\ IsRow(exec[f]) /\ exec[f].st # "none"
      BY <2>2 DEF AutomationInv, PlacedInv, LateInv, Late, Orderly, HasRow
    <3>2. exec'[f].st = "gone"
      BY <1>1, <2>2, <3>1 DEF IsRow
    <3> QED BY <1>1, <3>1, <3>2 DEF Stays, Going, ExecutionStatus, Located
  <2> QED BY <2>1, <2>2
<1> QED BY <1>1, <1>2, OrderlyElsewhere

(* Every step of the account keeps the invariant of executions. *)
LEMMA AutomationInductive ==
  ASSUME AutomationInv, [Next]_vars
  PROVE  AutomationInv'
<1>1. PlacedInv' /\ UNCHANGED world /\ world \in Worlds /\ Bounds
  BY PlacedInductive, WorldStays DEF AutomationInv, Bounds
<1>2. Spends \/ UNCHANGED left
  BY AutomationsSpend, ImportSpends, DeliverySpends, BookSpends, ApiSpends, VisaSpends
     DEF Next, Tick, vars, store, Spends
<1>3. /\ Bounds' /\ Meanwhile /\ (Fault \/ Crash => Failures' > Failures)
  <2>1. Spends
    BY <1>2 DEF Spends
  <2>2. /\ Bounds' /\ Failures \in Int /\ Failures' \in Int /\ Failures' >= Failures
        /\ Fault \/ Crash => Failures' = Failures + 1
    BY <1>1, <2>1, FailuresGrow
  <2> QED BY <1>1, <2>2 DEF Meanwhile
<1> SUFFICES Tallies' /\ \A e \in Executions : Orderly(e)'
  BY <1>1, <1>3 DEF AutomationInv
<1>4. ASSUME UNCHANGED <<exec, mem, handed, charged>>
      PROVE  Tallies' /\ \A e \in Executions : Orderly(e)'
  BY <1>3, <1>4, StaysSame, OrderlyElsewhere
<1>5. CASE AutomationsNext
  <2>1. ASSUME NEW e \in Executions, StepsOf(e)
        PROVE  Tallies' /\ \A f \in Executions : Orderly(f)'
    BY <1>3, <2>1, OrderlyExecution
  <2>2. ASSUME NEW k \in Runs, CronFires(k) \/ CronAdds(k) \/ CronDies(k) \/ CronMarks(k)
        PROVE  Tallies' /\ \A f \in Executions : Orderly(f)'
    BY <1>4, <2>2 DEF CronFires, CronAdds, CronDies, CronMarks, executions, history
  <2>3. ASSUME NEW k \in Runs, NEW e \in Executions, CronCreates(k, e)
        PROVE  Tallies' /\ \A f \in Executions : Orderly(f)'
    BY <1>3, <2>3, OrderlyCron
  <2>4. ASSUME NEW r \in Clients, Toggle(r) \/ Delete(r) \/ WriteToggle(r)
        PROVE  Tallies' /\ \A f \in Executions : Orderly(f)'
    BY <1>4, <2>4 DEF Toggle, Delete, Ask, WriteToggle, executions, history
  <2>5. ASSUME NEW r \in Clients, WriteDelete(r)
        PROVE  Tallies' /\ \A f \in Executions : Orderly(f)'
    BY <1>3, <2>5, OrderlyDelete
  <2>6. ASSUME NEW d \in 0..MaxDay, SetDate(d)
        PROVE  Tallies' /\ \A f \in Executions : Orderly(f)'
    BY <1>4, <2>6 DEF SetDate, executions, history
  <2> QED BY <1>5, <2>1, <2>2, <2>3, <2>4, <2>5, <2>6
          DEF AutomationsNext, StepsOf, CronStep, RequestStep
<1>6. ASSUME UNCHANGED automationVars PROVE Tallies' /\ \A e \in Executions : Orderly(e)'
  BY <1>4, <1>6 DEF automationVars, executions, history
<1>7. CASE ImportNext
  BY <1>6, <1>7, ImportFrame DEF Apart
<1>8. CASE DeliveryNext
  BY <1>6, <1>8, DeliveryFrame DEF Beside
<1>9. CASE BookNext
  BY <1>6, <1>9, BookFrame DEF Around
<1>10. CASE ApiNext
  BY <1>6, <1>10, ApiFrame DEF Aside
<1>11. CASE VisaNext
  BY <1>6, <1>11, VisaFrame DEF Away
<1>12. CASE Tick \/ UNCHANGED vars
  BY <1>6, <1>12 DEF Tick, vars
<1> QED BY <1>5, <1>7, <1>8, <1>9, <1>10, <1>11, <1>12 DEF Next

(* It holds before there is an execution. *)
LEMMA AutomationInit == Init => AutomationInv
<1> SUFFICES ASSUME Init PROVE AutomationInv
  OBVIOUS
<1>1. PlacedInv /\ Bounds
  BY BooksInit DEF BooksInv, PurchasesInv
<1>2. /\ exec = [e \in Executions |-> Row("none", Min(Contacts))]
      /\ mem = [e \in Executions |-> [pc |-> "idle", at |-> 0, tags |-> {}]]
      /\ handed = [e \in Executions |-> [n \in Nodes |-> 0]]
      /\ charged = [e \in Executions |-> [n \in Nodes |-> 0]]
  BY DEF Init, AutomationsInit
<1>3. Tallies
  BY <1>2 DEF Tallies, Counts1
<1>4. Failures = 0
  <2>1. world.faults \in Nat /\ world.crashes \in Nat
    BY <1>1, StoreAssumption DEF Bounds
  <2>2. left = [faults |-> world.faults, crashes |-> world.crashes,
                requests |-> world.requests, deliveries |-> world.deliveries]
    BY DEF Init, StoreInit
  <2> QED BY <2>1, <2>2 DEF Failures
<1>5. ASSUME NEW e \in Executions PROVE Orderly(e)
  <2>1. /\ exec[e].st = "none" /\ mem[e].pc = "idle" /\ mem[e].at = 0
        /\ handed[e] = [n \in Nodes |-> 0] /\ charged[e] = [n \in Nodes |-> 0]
    BY <1>2 DEF Row
  <2>2. ASSUME NEW P PROVE Again(handed[e], P) = 0
    <3> DEFINE f == [n \in Nodes |-> IF n \in P THEN handed[e][n] ELSE Less(handed[e][n])]
    <3>1. DOMAIN f = Nodes /\ \A n \in Nodes : f[n] = 0
      BY <2>1 DEF Less
    <3> HIDE DEF f
    <3>2. SumFunction(f) = 0
      BY <1>1, <3>1, FiniteNodes, SumOfZeros DEF Bounds
    <3> QED BY <3>2 DEF Again, f
  <2>3. Located(e) /\ PaidFor(e)
    BY <2>1 DEF Located, InRun, PaidFor, ExecutionStatus
  <2>4. Limited(e)
    BY <1>4, <2>1, <2>2 DEF Limited, InRun, Slack
  <2>5. Complete(e)
    BY <2>1 DEF Complete, InRun, Resume, Unsent
  <2> QED BY <2>3, <2>4, <2>5 DEF Orderly
<1> QED BY <1>1, <1>3, <1>5 DEF AutomationInv

(* Whatever the workflow, and however often an execution's job is run again, a
   failure repeats at most one message, unless the workflow comes back to where
   it was; and no message is paid for more often than it went out. *)
THEOREM MessagesStayBounded == Spec => []MessagesBounded
<1>1. ASSUME AutomationInv PROVE MessagesBounded
  <2>1. ASSUME NEW e \in Executions PROVE Repeated(e) > Failures => Flow.isFlow /\ Cyclic
    <3>1. handed[e] \in Counts1 /\ Limited(e) /\ world \in Worlds
      BY <1>1 DEF AutomationInv, Tallies, Orderly, Bounds
    <3>2. Acyclic => Again(handed[e], {}) <= Failures
      BY <3>1 DEF Limited
    <3>3. Again(handed[e], {}) \in Int /\ Failures \in Int
      BY <1>1, <3>1, AgainIsInt, FailuresAreInt DEF AutomationInv
    <3> QED BY <3>1, <3>2, <3>3, RepeatedIsAgain DEF Acyclic
  <2> QED BY <1>1, <2>1 DEF MessagesBounded, AutomationInv, Orderly, PaidFor
<1> QED BY <1>1, AutomationInit, AutomationInductive, PTL DEF Spec

(* Whatever happens to its jobs and workers, an execution of a workflow without
   conditions is Completed only when every message the start leads to went out. *)
THEOREM CompletedStaysDelivered == Spec => []CompletedMeansDelivered
<1>1. ASSUME AutomationInv PROVE CompletedMeansDelivered
  <2> SUFFICES ASSUME NEW e \in Executions, exec[e].st = "Completed"
               PROVE  IF Flow.isFlow
                        THEN \A n \in LeftOut(e) : n \in Ahead(StartNode) =>
                               \E m \in Steps : Node(m).type = "condition"
                        ELSE handed[e][0] > 0
    BY DEF CompletedMeansDelivered
  <2>1. Unbranched => Unsent(e) = {}
    BY <1>1 DEF AutomationInv, Orderly, Complete
  <2>2. CASE Flow.isFlow
    BY <2>1, <2>2 DEF Unbranched, Unsent, LeftOut, IsMessage
  <2>3. CASE ~Flow.isFlow
    <3>1. handed[e][0] # 0
      BY <2>1, <2>3, AheadMessage DEF Unbranched, Unsent, IsMessage
    <3>2. handed[e][0] \in Nat
      <4>1. 0 \in Nodes
        BY <1>1, StoreAssumption DEF Nodes, Flow, AutomationInv, Bounds
      <4> QED BY <1>1, <4>1 DEF AutomationInv, Tallies, Counts1
    <3> QED BY <2>3, <3>1, <3>2
  <2> QED BY <2>2, <2>3
<1> QED BY <1>1, AutomationInit, AutomationInductive, PTL DEF Spec

-----------------------------------------------------------------------------
(* What is promised of executions *)

(* A row that could not be created is not worked on: nothing was added for it. *)
Dropped(e) ==
  exec[e].st = "gone" /\ status # "gone" =>
    /\ mem[e].pc = "idle" /\ job[e].st = "none"
    /\ \A k \in Runs : cron[k].pc = "add" => cron[k].cur # e
PromiseInv == AutomationInv /\ \A e \in Executions : Dropped(e)

(* What a step may do to an execution, in the words of the promise. *)
KeepsQuiet(e) == exec'[e].st = exec[e].st /\ UNCHANGED <<handed, late>>
Becomes(e, s) == exec'[e].st = s /\ UNCHANGED <<handed, late>>
StartsIt(e) == status # "gone" /\ exec[e].st = "none" /\ Becomes(e, "Running")
DropsIt(e) == exec[e].st = "none" /\ Becomes(e, "gone")
EndsIt(e) == exec[e].st = "Running" /\ (Becomes(e, "Completed") \/ Becomes(e, "Failed"))
SendsIt(e) ==
  /\ mem[e].at \in Nodes /\ handed' = [handed EXCEPT ![e][mem[e].at] = @ + 1]
  /\ exec'[e] = exec[e]
  /\ \/ exec[e].st = "Running" /\ \A f \in Executions : late'[f] = late[f]
     \/ /\ status = "gone" /\ exec[e].st = "gone" /\ late[e] = 0
        /\ late' = [late EXCEPT ![e] = @ + 1]
DoesOne(e) ==
  /\ UNCHANGED <<status, cron>> /\ Dropped(e)'
  /\ \A f \in Executions \ {e} : exec'[f] = exec[f] /\ mem'[f] = mem[f] /\ job'[f] = job[f]
  /\ KeepsQuiet(e) \/ StartsIt(e) \/ DropsIt(e) \/ EndsIt(e) \/ SendsIt(e)

(* Listeners, requests and the worker do one of these. *)
LEMMA ExecutionDoes ==
  ASSUME NEW e \in Executions, PromiseInv, Meanwhile, StepsOf(e)
  PROVE  DoesOne(e)
<1>0. /\ IsRow(exec[e]) /\ IsMem(mem[e]) /\ IsJob(job[e]) /\ Domains
      /\ Located(e) /\ Dropped(e) /\ late[e] \in Nat /\ late[e] <= 1
      /\ late[e] = 1 => mem[e].pc \in Leaving
      /\ status = "gone" => exec[e].st \in {"none", "gone"}
      /\ mem[e].pc \notin {"idle", "found"} => exec[e].st # "none"
      /\ job[e].st # "none" => exec[e].st # "none"
      /\ \A k \in Runs : cron[k].pc = "add" => exec[cron[k].cur].st # "none"
  BY DEF PromiseInv, AutomationInv, PlacedInv, LateInv, Late, LateCron, Orderly
<1>00. /\ mem[e].pc = "found" => exec[e].st = "none"
       /\ exec[e].st \in ExecutionStatus
       /\ mem[e].pc \in InRun \cup {"finish"} => exec[e].st \in {"Running", "gone"}
  BY <1>0 DEF Located
<1> USE DEF DoesOne, KeepsQuiet, StartsIt, DropsIt, EndsIt, Becomes, Dropped, IsRow, IsMem, IsJob,
            Domains, Goto, Rest, HasRow, InRun, firing, history, automation
<1>1. ASSUME NEW i \in DOMAIN events, Listen(e, i) PROVE DoesOne(e)
  BY <1>0, <1>1 DEF Listen, Unused
<1>2. ASSUME NEW c \in Contacts, Trigger(e, c) PROVE DoesOne(e)
  BY <1>0, <1>2 DEF Trigger, Unused
<1>3. ASSUME CreateRow(e) PROVE DoesOne(e)
  BY <1>0, <1>00, <1>3 DEF CreateRow, Row
<1>4. ASSUME AddJob(e) PROVE DoesOne(e)
  BY <1>0, <1>4 DEF AddJob, Added
<1>5. ASSUME FiringDies(e) PROVE DoesOne(e)
  BY <1>0, <1>00, <1>5 DEF FiringDies
<1>6. ASSUME TakeJob(e) PROVE DoesOne(e)
  BY <1>0, <1>6 DEF TakeJob
<1>7. ASSUME WorkerDies(e) PROVE DoesOne(e)
  BY <1>0, <1>7 DEF WorkerDies
<1>8. ASSUME WorkerStep(e) PROVE DoesOne(e)
  <2> USE DEF Elsewhere
  <2>1. CASE Load(e)
    BY <1>0, <2>1 DEF Load, Loaded
  <2>2. CASE Enter(e)
    BY <1>0, <1>00, <2>2 DEF Enter, Stored
  <2>3. CASE Send(e)
    <3>1. mem[e].at \in Nodes /\ mem[e].pc = "send"
      BY <1>0, <2>3, MessageAhead DEF Send
    <3>2. UNCHANGED <<status, cron, exec, job>> /\ Dropped(e)'
          /\ \A f \in Executions \ {e} : mem'[f] = mem[f]
      BY <1>0, <3>1, <2>3 DEF Send, Thrown
    <3>3. CASE UNCHANGED <<handed, late>>
      BY <3>2, <3>3
    <3>4. CASE Hand(e)
      <4>1. IF status = "gone" THEN exec[e].st = "gone" ELSE exec[e].st = "Running"
        BY <1>0, <1>00, <3>1
      <4>2. late[e] = 0
        BY <1>0, <3>1 DEF Leaving
      <4>3. /\ handed' = [handed EXCEPT ![e][mem[e].at] = @ + 1] /\ exec'[e] = exec[e]
            /\ late' = [late EXCEPT ![e] = IF status = "gone" THEN @ + 1 ELSE @]
        BY <3>2, <3>4 DEF Hand
      <4>4. status # "gone" => \A f \in Executions : late'[f] = late[f]
        BY <1>0, <4>3
      <4>5. SendsIt(e)
        BY <3>1, <4>1, <4>2, <4>3, <4>4 DEF SendsIt
      <4> QED BY <3>2, <4>5
    <3> QED BY <2>3, <3>3, <3>4 DEF Send
  <2>4. CASE Pay(e)
    BY <1>0, <2>4 DEF Pay, Thrown
  <2>5. CASE RecordNode(e)
    BY <1>0, <2>5 DEF RecordNode, Thrown
  <2>6. CASE RecordMessage(e)
    BY <1>0, <1>00, <2>6 DEF RecordMessage, Thrown
  <2>7. CASE ScheduleRetry(e)
    BY <1>0, <1>00, <2>7 DEF ScheduleRetry
  <2>8. CASE Requeue(e)
    BY <1>0, <2>8 DEF Requeue, Added
  <2>9. CASE TagContact(e)
    BY <1>0, <2>9 DEF TagContact
  <2>10. CASE Branch(e)
    BY <1>0, <2>10 DEF Branch
  <2>11. CASE Wait(e)
    BY <1>0, <1>00, <2>11 DEF Wait, Stored
  <2>12. CASE Finish(e)
    BY <1>0, <1>00, <2>12 DEF Finish
  <2>13. CASE Return(e)
    BY <1>0, <2>13 DEF Return, NoJob
  <2>14. CASE Throw(e)
    BY <1>0, <2>14 DEF Throw
  <2>15. CASE MarkFailed(e)
    BY <1>0, <2>15 DEF MarkFailed
  <2> QED BY <1>8, <2>1, <2>2, <2>3, <2>4, <2>5, <2>6, <2>7, <2>8, <2>9, <2>10, <2>11,
             <2>12, <2>13, <2>14, <2>15 DEF WorkerStep
<1> QED BY <1>1, <1>2, <1>3, <1>4, <1>5, <1>6, <1>7, <1>8 DEF StepsOf

(* What they do, the promise allows. *)
LEMMA DoesPromised ==
  ASSUME NEW e \in Executions, PromiseInv, Domains', DoesOne(e)
  PROVE  [Executing!Next]_(Executing!vars)
<1>0. /\ status' = status /\ handed \in [Executions -> Counts1] /\ DOMAIN late = Executions
      /\ late[e] \in Nat /\ world \in Worlds
      /\ \A f \in Executions \ {e} : exec'[f] = exec[f]
  BY DEF PromiseInv, AutomationInv, Tallies, Bounds, PlacedInv, LateInv, Late, Domains, DoesOne
<1>1. CASE KeepsQuiet(e)
  <2>1. \A f \in Executions : exec'[f].st = exec[f].st
    BY <1>0, <1>1 DEF KeepsQuiet
  <2>2. UNCHANGED <<Outcomes, SentBy, status, Parted>>
    BY <1>0, <1>1, <2>1 DEF Outcomes, SentBy, Parted, KeepsQuiet
  <2> QED BY <2>2 DEF Executing!vars
<1>2. ASSUME NEW s, Becomes(e, s)
      PROVE  /\ Outcomes' = [Outcomes EXCEPT ![e] = s] /\ UNCHANGED <<SentBy, status, Parted>>
             /\ Outcomes[e] = exec[e].st
  BY <1>0, <1>2 DEF Outcomes, SentBy, Parted, Becomes
<1>3. CASE StartsIt(e)
  <2>1. Executing!Start(e)
    BY <1>2, <1>3 DEF StartsIt, Executing!Start
  <2> QED BY <2>1 DEF Executing!Next
<1>4. CASE DropsIt(e)
  <2>1. Executing!Drop(e)
    BY <1>2, <1>4 DEF DropsIt, Executing!Drop
  <2> QED BY <2>1 DEF Executing!Next
<1>5. CASE EndsIt(e)
  <2>1. Executing!End(e)
    BY <1>2, <1>5 DEF EndsIt, Executing!End
  <2> QED BY <2>1 DEF Executing!Next
<1>6. CASE SendsIt(e)
  <2> DEFINE n == mem[e].at
             g == handed[e]
             h == handed'[e]
  <2>1. n \in Nodes /\ h = [handed[e] EXCEPT ![n] = @ + 1]
        /\ \A f \in Executions \ {e} : handed'[f] = handed[f]
    BY <1>0, <1>6 DEF SendsIt
  <2>2. /\ g \in [Nodes -> Int] /\ h \in [Nodes -> Int] /\ h[n] = g[n] + 1 /\ g[n] \in Int
        /\ \A m \in Nodes \ {n} : h[m] = g[m]
    BY <1>0, <2>1 DEF Counts1
  <2>3. IsFiniteSet(Nodes) /\ n \in Nodes
    BY <1>0, <2>1, FiniteNodes
  <2> HIDE DEF n, g, h
  <2>4. SumFunction(h) = SumFunction(g) + 1
    <3>1. SumFunction(g) \in Int /\ SumFunction(h) = SumFunction(g) + h[n] - g[n]
      BY <2>2, <2>3, SumChanges
    <3> QED BY <2>2, <3>1
  <2>5. SentBy' = [SentBy EXCEPT ![e] = @ + 1]
    BY <2>1, <2>4 DEF SentBy, g, h
  <2>6. UNCHANGED <<Outcomes, status>> /\ Outcomes[e] = exec[e].st
    BY <1>0, <1>6 DEF SendsIt, Outcomes
  <2>7. CASE exec[e].st = "Running" /\ \A f \in Executions : late'[f] = late[f]
    <3>1. Executing!Write(e)
      BY <2>5, <2>6, <2>7 DEF Parted, Executing!Write
    <3> QED BY <3>1 DEF Executing!Next
  <2>8. CASE /\ status = "gone" /\ exec[e].st = "gone" /\ late[e] = 0
             /\ late' = [late EXCEPT ![e] = @ + 1]
    <3>1. Parted' = Parted \cup {e} /\ e \notin Parted
      BY <1>0, <2>8 DEF Parted
    <3>2. Executing!Part(e)
      BY <2>5, <2>6, <2>8, <3>1 DEF Executing!Part
    <3> QED BY <3>2 DEF Executing!Next
  <2> QED BY <1>6, <2>7, <2>8 DEF SendsIt
<1> QED BY <1>1, <1>3, <1>4, <1>5, <1>6 DEF DoesOne

(* Steps of nobody's execution. *)
LEMMA NothingPromised ==
  ASSUME PromiseInv, UNCHANGED <<exec, mem, job, handed, late>>, status' = "gone" <=> status = "gone",
         \A k \in Runs :
           \/ cron'[k] = cron[k] \/ cron'[k].pc # "add"
  PROVE  UNCHANGED Executing!vars /\ \A e \in Executions : Dropped(e)'
<1>1. UNCHANGED <<Outcomes, SentBy, status = "gone", Parted>>
  BY DEF Outcomes, SentBy, Parted
<1>2. \A e \in Executions : Dropped(e)'
  BY DEF PromiseInv, Dropped
<1> QED BY <1>1, <1>2 DEF Executing!vars

(* A cron creates an execution. *)
LEMMA CronPromised ==
  ASSUME PromiseInv, NEW k \in Runs, NEW e \in Executions, CronCreates(k, e)
  PROVE  [Executing!Next]_(Executing!vars) /\ \A f \in Executions : Dropped(f)'
<1>0. /\ UNCHANGED <<status, mem, job, handed, late>> /\ exec[e].st = "none"
      /\ DOMAIN exec = Executions /\ DOMAIN cron = Runs /\ IsCron(cron[k])
      /\ \A f \in Executions : Dropped(f)
  BY DEF CronCreates, Unused, automation, history, PromiseInv, AutomationInv, PlacedInv, LateInv,
         LateCron, Domains
<1>1. ASSUME status # "gone", NEW c, exec' = [exec EXCEPT ![e] = Row("Running", c)],
             cron' = [cron EXCEPT ![k].pc = "add", ![k].cur = e, ![k].todo = @ \ {c}]
      PROVE  [Executing!Next]_(Executing!vars) /\ \A f \in Executions : Dropped(f)'
  <2>1. /\ exec'[e].st = "Running" /\ \A f \in Executions \ {e} : exec'[f] = exec[f]
        /\ cron'[k].cur = e /\ \A m \in Runs \ {k} : cron'[m] = cron[m]
    BY <1>0, <1>1 DEF Row, IsCron
  <2>2. \A f \in Executions : Dropped(f)'
    BY <1>0, <2>1 DEF Dropped
  <2>3. Outcomes' = [Outcomes EXCEPT ![e] = "Running"] /\ Outcomes[e] = "none"
        /\ UNCHANGED <<SentBy, Parted>>
    BY <1>0, <2>1 DEF Outcomes, SentBy, Parted
  <2>4. Executing!Start(e)
    BY <1>0, <1>1, <2>3 DEF Executing!Start
  <2> QED BY <2>2, <2>4 DEF Executing!Next
<1>2. CASE CronStops(k) /\ UNCHANGED exec
  <2>1. \A m \in Runs : cron'[m] = cron[m] \/ cron'[m].pc # "add"
    BY <1>0, <1>2 DEF CronStops, NoCron
  <2> QED BY <1>0, <1>2, <2>1, NothingPromised
<1> QED BY <1>1, <1>2 DEF CronCreates

(* The automation is deleted. *)
LEMMA DeletePromised ==
  ASSUME PromiseInv, NEW r \in Clients, WriteDelete(r)
  PROVE  [Executing!Next]_(Executing!vars) /\ \A f \in Executions : Dropped(f)'
<1>0. /\ status' = "gone" /\ UNCHANGED <<mem, job, cron, handed, late>>
      /\ exec' = [e \in Executions |->
                    IF HasRow(e) THEN [exec[e] EXCEPT !.st = "gone"] ELSE exec[e]]
      /\ \A e \in Executions :
           IsRow(exec[e]) /\ (status = "gone" => exec[e].st \in {"none", "gone"})
  BY DEF WriteDelete, history, PromiseInv, AutomationInv, PlacedInv, LateInv, Late
<1>1. \A e \in Executions : exec'[e].st = IF exec[e].st = "none" THEN "none" ELSE "gone"
  BY <1>0 DEF HasRow, IsRow
<1>2. \A e \in Executions : Dropped(e)'
  BY <1>0 DEF Dropped
<1>3. UNCHANGED <<SentBy, Parted>>
  BY <1>0 DEF SentBy, Parted
<1>4. CASE status = "gone"
  <2>1. UNCHANGED <<Outcomes, status>>
    BY <1>0, <1>1, <1>4 DEF Outcomes
  <2> QED BY <1>2, <1>3, <2>1 DEF Executing!vars
<1>5. CASE status # "gone"
  <2>1. Outcomes' = [e \in Executions |-> IF Outcomes[e] = "none" THEN "none" ELSE "gone"]
    BY <1>1 DEF Outcomes
  <2>2. Executing!Delete
    BY <1>0, <1>3, <1>5, <2>1 DEF Executing!Delete
  <2> QED BY <1>2, <2>2 DEF Executing!Next
<1> QED BY <1>4, <1>5

(* Every step of the account does what is promised, or nothing of it. *)
LEMMA StepsPromised ==
  ASSUME PromiseInv, [Next]_vars
  PROVE  PromiseInv' /\ [Executing!Next]_(Executing!vars)
<1>1. /\ AutomationInv' /\ UNCHANGED world /\ world \in Worlds /\ Bounds
      /\ Domains' /\ (\A e \in Executions : Dropped(e)) /\ DOMAIN cron = Runs
  <2>1. AutomationInv'
    BY AutomationInductive DEF PromiseInv
  <2> QED BY <2>1, WorldStays DEF PromiseInv, AutomationInv, Bounds, PlacedInv, LateInv, Domains
<1>2. Meanwhile
  <2>1. Spends
    BY AutomationsSpend, ImportSpends, DeliverySpends, BookSpends, ApiSpends, VisaSpends
       DEF Next, Tick, vars, store, Spends
  <2> QED BY <1>1, <2>1, FailuresGrow DEF Meanwhile
<1> SUFFICES [Executing!Next]_(Executing!vars) /\ \A e \in Executions : Dropped(e)'
  BY <1>1 DEF PromiseInv
<1>3. ASSUME UNCHANGED <<exec, mem, job, handed, late>>, status' = "gone" <=> status = "gone",
             \A k \in Runs : cron'[k] = cron[k] \/ cron'[k].pc # "add"
      PROVE  [Executing!Next]_(Executing!vars) /\ \A e \in Executions : Dropped(e)'
  BY <1>3, NothingPromised
<1>4. CASE AutomationsNext
  <2>1. ASSUME NEW e \in Executions, StepsOf(e)
        PROVE  [Executing!Next]_(Executing!vars) /\ \A f \in Executions : Dropped(f)'
    <3>1. DoesOne(e)
      BY <1>2, <2>1, ExecutionDoes
    <3>2. \A f \in Executions : Dropped(f)'
      BY <1>1, <3>1 DEF DoesOne, Dropped
    <3> QED BY <1>1, <3>1, <3>2, DoesPromised
  <2>2. ASSUME NEW k \in Runs, CronFires(k) \/ CronDies(k) \/ CronMarks(k)
        PROVE  [Executing!Next]_(Executing!vars) /\ \A f \in Executions : Dropped(f)'
    <3>1. UNCHANGED <<exec, mem, job, handed, late, status>>
      BY <2>2 DEF CronFires, CronDies, CronMarks, executions, history, automation
    <3>2. \A m \in Runs : cron'[m] = cron[m] \/ cron'[m].pc # "add"
      <4>1. CASE CronFires(k)
        BY <1>1, <4>1 DEF CronFires
      <4>2. CASE CronMarks(k)
        BY <1>1, <4>2 DEF CronMarks, CronStops, NoCron
      <4>3. CASE CronDies(k)
        BY <4>3 DEF CronDies, NoCron
      <4> QED BY <2>2, <4>1, <4>2, <4>3
    <3> QED BY <1>3, <3>1, <3>2
  <2>3. ASSUME NEW k \in Runs, CronAdds(k)
        PROVE  [Executing!Next]_(Executing!vars) /\ \A f \in Executions : Dropped(f)'
    <3>0. /\ UNCHANGED <<exec, mem, handed, late, status>> /\ cron[k].pc = "add"
          /\ DOMAIN job = Executions /\ IsCron(cron[k])
      BY <2>3 DEF CronAdds, history, automation, PromiseInv, AutomationInv, PlacedInv, LateInv,
                  LateCron, Domains
    <3>1. \A m \in Runs : cron'[m] = cron[m] \/ cron'[m].pc # "add"
      BY <1>1, <2>3, <3>0 DEF CronAdds, CronStops, NoCron, IsCron
    <3>2. \A f \in Executions \ {cron[k].cur} : job'[f] = job[f]
      BY <2>3, <3>0 DEF CronAdds, Added
    <3>3. \A f \in Executions : Dropped(f)'
      BY <1>1, <3>0, <3>1, <3>2 DEF Dropped
    <3>4. UNCHANGED <<Outcomes, SentBy, status, Parted>>
      BY <3>0 DEF Outcomes, SentBy, Parted
    <3> QED BY <3>3, <3>4 DEF Executing!vars
  <2>4. ASSUME NEW k \in Runs, NEW e \in Executions, CronCreates(k, e)
        PROVE  [Executing!Next]_(Executing!vars) /\ \A f \in Executions : Dropped(f)'
    BY <2>4, CronPromised
  <2>5. ASSUME NEW r \in Clients, Toggle(r) \/ Delete(r) \/ WriteToggle(r)
        PROVE  [Executing!Next]_(Executing!vars) /\ \A f \in Executions : Dropped(f)'
    BY <1>3, <2>5 DEF Toggle, Delete, Ask, WriteToggle, executions, history, automation
  <2>6. ASSUME NEW r \in Clients, WriteDelete(r)
        PROVE  [Executing!Next]_(Executing!vars) /\ \A f \in Executions : Dropped(f)'
    BY <2>6, DeletePromised
  <2>7. ASSUME NEW d \in 0..MaxDay, SetDate(d)
        PROVE  [Executing!Next]_(Executing!vars) /\ \A f \in Executions : Dropped(f)'
    BY <1>3, <2>7 DEF SetDate, executions, history, firing
  <2> QED BY <1>4, <2>1, <2>2, <2>3, <2>4, <2>5, <2>6, <2>7
          DEF AutomationsNext, StepsOf, CronStep, RequestStep
<1>5. ASSUME UNCHANGED automationVars
      PROVE  [Executing!Next]_(Executing!vars) /\ \A e \in Executions : Dropped(e)'
  BY <1>3, <1>5 DEF automationVars, automation, executions, history, firing
<1>6. CASE ImportNext
  BY <1>5, <1>6, ImportFrame DEF Apart
<1>7. CASE DeliveryNext
  BY <1>5, <1>7, DeliveryFrame DEF Beside
<1>8. CASE BookNext
  BY <1>5, <1>8, BookFrame DEF Around
<1>9. CASE ApiNext
  BY <1>5, <1>9, ApiFrame DEF Aside
<1>10. CASE VisaNext
  BY <1>5, <1>10, VisaFrame DEF Away
<1>11. CASE Tick \/ UNCHANGED vars
  BY <1>5, <1>11 DEF Tick, vars
<1> QED BY <1>4, <1>6, <1>7, <1>8, <1>9, <1>10, <1>11 DEF Next

(* Whatever the workflow, and whatever jobs, workers, crons and requests do to an
   execution, messages go out only while it is Running, what ended stays ended
   although its job may run again and nodes write that it is Running, and a
   deleted automation parts with at most one message of each. *)
THEOREM ExecutionsKeepPromise == Spec => KeepsExecutionPromise
<1>1. ASSUME Init PROVE PromiseInv /\ Executing!Init
  <2>1. AutomationInv
    BY <1>1, AutomationInit
  <2>2. /\ exec = [e \in Executions |-> Row("none", Min(Contacts))]
        /\ handed = [e \in Executions |-> [n \in Nodes |-> 0]]
        /\ late = [e \in Executions |-> 0] /\ status \in world.status
    BY <1>1 DEF Init, AutomationsInit
  <2>3. IsFiniteSet(Nodes)
    BY <2>1, FiniteNodes DEF AutomationInv, Bounds
  <2>4. SumFunction([n \in Nodes |-> 0]) = 0
    BY <2>3, SumOfZeros
  <2>5. Outcomes = [e \in Executions |-> "none"] /\ SentBy = [e \in Executions |-> 0] /\ Parted = {}
    BY <2>2, <2>4 DEF Outcomes, SentBy, Parted, Row
  <2>6. status # "gone"
    BY <2>1, <2>2, WorkflowAssumption DEF AutomationInv, Bounds, AutomationStatus
  <2>7. \A e \in Executions : Dropped(e)
    BY <2>2 DEF Dropped, Row
  <2> QED BY <2>1, <2>5, <2>6, <2>7 DEF PromiseInv, Executing!Init
<1>2. PromiseInv /\ [Next]_vars => PromiseInv' /\ [Executing!Next]_(Executing!vars)
  BY StepsPromised
<1> QED BY <1>1, <1>2, PTL DEF Spec, KeepsExecutionPromise, Executing!Spec

-----------------------------------------------------------------------------
(* Contacts that are new *)

(* What is going to get contact c an execution, besides the executions it has:
   events that are queued and requests that have an event to emit, or will if
   the contact is new. *)
Welcomes(c) == Event("contact_added", c)
Given(e) == exec[e].st # "none" \/ mem[e].pc # "idle"
Got(c) == {e \in Executions : exec[e].contact = c /\ Given(e)}
Queued(c) == {i \in DOMAIN events : events[i] = Welcomes(c)}
Tells(r, c) == r.contact = c /\ (r.at = "announce" \/ (r.at = "write" /\ r.op = "create"))
Telling(c) == {a \in Callers : Tells(form[a], c)}
Welcome(c) == Cardinality(Got(c)) + Cardinality(Queued(c)) + Cardinality(Telling(c))

(* A contact that was added may be welcomed once, and each request may start one
   execution more. *)
IsAdded(c) == IF c \in present \ world.present THEN 1 ELSE 0
Allowed(c) == IsAdded(c) + world.requests - left.requests

IsEvent(x) == x = Event(x.kind, x.contact) /\ x.kind \in EventKinds
AreEvents(q) == \E S : q \in Seq(S) /\ \A x \in S : IsEvent(x)

WelcomeInv ==
  /\ PlacedInv /\ ImportInv /\ AreEvents(events) /\ left.requests <= world.requests
  /\ world.trigger = "contact_added" =>
       /\ \A k \in Runs : cron[k].pc = "idle"
       /\ \A c \in Contacts : Welcome(c) <= Allowed(c)

(* These are numbers. *)
LEMMA WelcomeParts ==
  ASSUME WelcomeInv, NEW c
  PROVE  /\ IsFiniteSet(Got(c)) /\ IsFiniteSet(Queued(c)) /\ IsFiniteSet(Telling(c))
         /\ Cardinality(Got(c)) \in Nat /\ Cardinality(Queued(c)) \in Nat
         /\ Cardinality(Telling(c)) \in Nat
         /\ IsAdded(c) \in Nat /\ Allowed(c) \in Int /\ Welcome(c) \in Nat
<1>1. IsFiniteSet(Got(c)) /\ IsFiniteSet(Telling(c))
  BY FS_Subset, StoreAssumption DEF Got, Telling
<1>2. IsFiniteSet(Queued(c))
  <2>1. PICK S : events \in Seq(S)
    BY DEF WelcomeInv, AreEvents
  <2>2. Len(events) \in Nat /\ DOMAIN events = 1..Len(events)
    BY <2>1, LenProperties
  <2>3. IsFiniteSet(DOMAIN events)
    BY <2>2, FS_Interval
  <2> QED BY <2>3, FS_Subset DEF Queued
<1>3. left.requests \in Nat /\ world.requests \in Nat
  BY StoreAssumption DEF WelcomeInv, ImportInv, ImportTypes, Bounds
<1>4. IsAdded(c) \in Nat
  BY DEF IsAdded
<1> QED BY <1>1, <1>2, <1>3, <1>4, FS_CardinalityType DEF Allowed, Welcome

(* The shortest queues. *)
LEMMA FewEvents ==
  /\ AreEvents(<<>>)
  /\ \A x : IsEvent(x) => AreEvents(<<x>>) /\ DOMAIN <<x>> = {1} /\ <<x>>[1] = x
<1>1. ASSUME NEW q, NEW S, q \in Seq(S), \A y \in S : IsEvent(y) PROVE AreEvents(q)
  BY <1>1 DEF AreEvents
<1>2. AreEvents(<<>>)
  <2>1. PICK S : S = {}
    OBVIOUS
  <2>2. <<>> \in Seq(S) /\ \A y \in S : IsEvent(y)
    BY <2>1, EmptySeq
  <2> QED BY <1>1, <2>2
<1>3. ASSUME NEW x, IsEvent(x) PROVE AreEvents(<<x>>) /\ DOMAIN <<x>> = {1} /\ <<x>>[1] = x
  <2>1. PICK S : S = {x}
    OBVIOUS
  <2>2. <<x>> \in Seq({x}) /\ DOMAIN <<x>> = {1} /\ <<x>>[1] = x
    OBVIOUS
  <2>3. <<x>> \in Seq(S)
    BY <2>1, <2>2
  <2>4. \A y \in S : IsEvent(y)
    BY <1>3, <2>1
  <2>5. AreEvents(<<x>>)
    BY <1>1, <2>3, <2>4
  <2> QED BY <2>2, <2>5
<1> QED BY <1>2, <1>3

(* An event more at the end. *)
LEMMA EventAppended ==
  ASSUME AreEvents(events), NEW k \in EventKinds, NEW d, Emit(k, d)
  PROVE  /\ AreEvents(events')
         /\ \E n : \A c : Queued(c)' \subseteq (IF Event(k, d) = Welcomes(c) THEN Queued(c) \cup {n} ELSE Queued(c))
<1>1. PICK S : events \in Seq(S) /\ \A x \in S : IsEvent(x)
  BY DEF AreEvents
<1>2. PICK x : x = Event(k, d)
  OBVIOUS
<1>3. IsEvent(x)
  BY <1>2 DEF IsEvent, Event, EventKinds
<1>4. PICK U : U = S \cup {x}
  OBVIOUS
<1>5. events \in Seq(U) /\ x \in U /\ \A y \in U : IsEvent(y)
  BY <1>1, <1>3, <1>4, SeqMonotonic
<1>6. events' = Append(events, x)
  BY <1>2 DEF Emit
<1>7. /\ events' \in Seq(U) /\ Len(events') = Len(events) + 1
      /\ \A i \in 1..Len(events) : events'[i] = events[i]
      /\ events'[Len(events) + 1] = x
  BY <1>5, <1>6, AppendProperties
<1>8. /\ DOMAIN events = 1..Len(events) /\ DOMAIN events' = 1..Len(events) + 1
      /\ Len(events) \in Nat
  BY <1>5, <1>7, LenProperties
<1>9. PICK n : n = Len(events) + 1
  OBVIOUS
<1>10. ASSUME NEW c
       PROVE  Queued(c)' \subseteq (IF x = Welcomes(c) THEN Queued(c) \cup {n} ELSE Queued(c))
  <2>1. ASSUME NEW i \in DOMAIN events', events'[i] = Welcomes(c)
        PROVE  i \in (IF x = Welcomes(c) THEN Queued(c) \cup {n} ELSE Queued(c))
    <3>1. CASE i = n
      BY <1>7, <1>9, <2>1, <3>1
    <3>2. CASE i # n
      <4>1. i \in DOMAIN events /\ events[i] = Welcomes(c)
        BY <1>7, <1>8, <1>9, <2>1, <3>2
      <4> QED BY <4>1 DEF Queued
    <3> QED BY <3>1, <3>2
  <2>2. Welcomes(c)' = Welcomes(c)
    BY DEF Welcomes, Event
  <2> QED BY <2>1, <2>2 DEF Queued
<1>11. AreEvents(events')
  BY <1>5, <1>7 DEF AreEvents
<1> QED BY <1>2, <1>10, <1>11

(* Events of other kinds at the end. *)
LEMMA OthersAppended ==
  ASSUME AreEvents(events), NEW q, AreEvents(q), events' = events \o q,
         \A i \in DOMAIN q : q[i].kind # "contact_added"
  PROVE  AreEvents(events') /\ \A c : Queued(c)' \subseteq Queued(c)
<1>1. PICK S : events \in Seq(S) /\ \A x \in S : IsEvent(x)
  BY DEF AreEvents
<1>2. PICK T : q \in Seq(T) /\ \A x \in T : IsEvent(x)
  BY DEF AreEvents
<1>3. PICK U : U = S \cup T
  OBVIOUS
<1>4. events \in Seq(U) /\ q \in Seq(U) /\ \A x \in U : IsEvent(x)
  BY <1>1, <1>2, <1>3, SeqMonotonic
<1>5. /\ events' \in Seq(U) /\ Len(events') = Len(events) + Len(q)
      /\ \A i \in 1..Len(events) + Len(q) :
           events'[i] = IF i <= Len(events) THEN events[i] ELSE q[i - Len(events)]
  BY <1>4, ConcatProperties
<1>6. /\ DOMAIN events = 1..Len(events) /\ DOMAIN events' = 1..Len(events')
      /\ DOMAIN q = 1..Len(q) /\ Len(events) \in Nat /\ Len(q) \in Nat
  BY <1>4, <1>5, LenProperties
<1>7. ASSUME NEW c, NEW i \in DOMAIN events', events'[i] = Welcomes(c)
      PROVE  i \in Queued(c)
  <2>1. CASE i <= Len(events)
    BY <1>5, <1>6, <1>7, <2>1 DEF Queued
  <2>2. CASE ~(i <= Len(events))
    <3>1. i - Len(events) \in DOMAIN q /\ q[i - Len(events)] = Welcomes(c)
      BY <1>5, <1>6, <1>7, <2>2
    <3> QED BY <3>1 DEF Welcomes, Event
  <2> QED BY <2>1, <2>2
<1>8. \A c : Queued(c)' \subseteq Queued(c)
  BY <1>7 DEF Queued, Welcomes, Event
<1> QED BY <1>4, <1>5, <1>8 DEF AreEvents

(* An event taken out: there is one less of its contact, if it says that one was
   added. *)
LEMMA EventTaken ==
  ASSUME AreEvents(events), NEW i \in DOMAIN events, events' = RemoveAt(events, i), NEW c
  PROVE  /\ AreEvents(events') /\ IsEvent(events[i])
         /\ Cardinality(Queued(c)') <= Cardinality(Queued(c) \ {i})
<1>1. PICK S : events \in Seq(S) /\ \A x \in S : IsEvent(x)
  BY DEF AreEvents
<1>2. PICK n : n = Len(events)
  OBVIOUS
<1>3. n \in Nat /\ DOMAIN events = 1..n /\ i \in 1..n /\ \A j \in 1..n : events[j] \in S
  BY <1>1, <1>2, LenProperties, ElementOfSeq
<1>4. PICK q : q = SubSeq(events, 1, i - 1)
  OBVIOUS
<1>5. PICK r : r = SubSeq(events, i + 1, n)
  OBVIOUS
<1>6. q \in Seq(S) /\ Len(q) = i - 1 /\ \A j \in 1..i - 1 : q[j] = events[j]
  <2>1. \A j \in 1..i - 1 : events[j] \in S
    BY <1>3
  <2>2. 1 \in Int /\ i - 1 \in Int
    BY <1>3
  <2>3. /\ SubSeq(events, 1, i - 1) \in Seq(S)
        /\ Len(SubSeq(events, 1, i - 1)) = IF 1 <= i - 1 THEN i - 1 - 1 + 1 ELSE 0
        /\ \A j \in 1..i - 1 - 1 + 1 : SubSeq(events, 1, i - 1)[j] = events[1 + j - 1]
    BY <2>1, <2>2, SubSeqProperties
  <2> QED BY <1>3, <1>4, <2>3
<1>7. r \in Seq(S) /\ Len(r) = n - i /\ \A j \in 1..n - i : r[j] = events[j + i]
  <2>1. \A j \in i + 1..n : events[j] \in S
    BY <1>3
  <2>2. i + 1 \in Int /\ n \in Int
    BY <1>3
  <2>3. /\ SubSeq(events, i + 1, n) \in Seq(S)
        /\ Len(SubSeq(events, i + 1, n)) = IF i + 1 <= n THEN n - (i + 1) + 1 ELSE 0
        /\ \A j \in 1..n - (i + 1) + 1 : SubSeq(events, i + 1, n)[j] = events[i + 1 + j - 1]
    BY <2>1, <2>2, SubSeqProperties
  <2> QED BY <1>3, <1>5, <2>3
<1>8. events' = q \o r
  BY <1>2, <1>4, <1>5 DEF RemoveAt
<1>9. /\ events' \in Seq(S) /\ Len(events') = n - 1
      /\ \A j \in 1..n - 1 : events'[j] = IF j < i THEN events[j] ELSE events[j + 1]
  <2>1. /\ events' \in Seq(S) /\ Len(events') = Len(q) + Len(r)
        /\ \A j \in 1..Len(q) + Len(r) : events'[j] = IF j <= Len(q) THEN q[j] ELSE r[j - Len(q)]
    BY <1>6, <1>7, <1>8, ConcatProperties
  <2>2. i \in Int /\ n \in Int /\ 1 <= i /\ i <= n /\ Len(q) + Len(r) = n - 1
    BY <1>3, <1>6, <1>7
  <2>3. ASSUME NEW j \in 1..n - 1 PROVE events'[j] = IF j < i THEN events[j] ELSE events[j + 1]
    <3>1. events'[j] = IF j <= i - 1 THEN q[j] ELSE r[j - (i - 1)]
      BY <1>6, <2>1, <2>2
    <3>2. CASE j < i
      BY <1>6, <2>2, <3>1, <3>2
    <3>3. CASE ~(j < i)
      <4>1. PICK k : k = j - (i - 1)
        OBVIOUS
      <4>2. k \in 1..n - i /\ k + i = j + 1 /\ ~(j <= i - 1)
        BY <2>2, <3>3, <4>1
      <4>3. r[k] = events[j + 1]
        BY <1>7, <4>2
      <4> QED BY <3>1, <3>3, <4>1, <4>2, <4>3
    <3> QED BY <3>2, <3>3
  <2>4. events' \in Seq(S) /\ Len(events') = n - 1
    BY <2>1, <2>2
  <2> QED BY <2>3, <2>4
<1>10. DOMAIN events' = 1..n - 1
  BY <1>9, LenProperties
<1>11. PICK A : A = Queued(c)'
  OBVIOUS
<1>12. PICK B : B = Queued(c) \ {i}
  OBVIOUS
<1>13. PICK g : g = [j \in A |-> IF j < i THEN j ELSE j + 1]
  OBVIOUS
<1>14. A \subseteq 1..n - 1 /\ \A j \in A : events'[j] = Welcomes(c)
  BY <1>10, <1>11 DEF Queued, Welcomes, Event
<1>15. ASSUME NEW j \in A PROVE g[j] \in B
  <2>1. j \in 1..n - 1 /\ events'[j] = Welcomes(c) /\ g[j] = IF j < i THEN j ELSE j + 1
    BY <1>13, <1>14
  <2>2. g[j] \in 1..n /\ g[j] # i /\ events[g[j]] = Welcomes(c)
    BY <1>3, <1>9, <2>1
  <2> QED BY <1>3, <1>12, <2>2 DEF Queued
<1>16. g \in [A -> B]
  BY <1>13, <1>15
<1>17. \A j, k \in A : g[j] = g[k] => j = k
  BY <1>3, <1>13, <1>14
<1>18. g \in Injection(A, B)
  BY <1>13, <1>16, <1>17 DEF Injection, IsInjective
<1>19. IsFiniteSet(B)
  <2>1. B \in SUBSET (1..n)
    BY <1>3, <1>12 DEF Queued
  <2>2. IsFiniteSet(1..n)
    BY <1>3, FS_Interval
  <2> QED BY <2>1, <2>2, FS_Subset
<1>20. Cardinality(A) <= Cardinality(B)
  BY <1>18, <1>19, FS_Injection
<1> QED BY <1>1, <1>3, <1>9, <1>11, <1>12, <1>20 DEF AreEvents

(* An execution that has a contact keeps it, and no other gets one. *)
LEMMA ExecutionKeeps ==
  ASSUME PlacedInv, NEW e \in Executions,
         \/ CreateRow(e) \/ AddJob(e) \/ FiringDies(e) \/ TakeJob(e) \/ WorkerDies(e)
         \/ WorkerStep(e)
  PROVE  /\ UNCHANGED events
         /\ \A c : Got(c)' \subseteq Got(c) /\ Got(c) \subseteq Got(c)'
<1>0. Late(e) /\ Domains
  BY DEF PlacedInv, LateInv
<1> DEFINE Ok == /\ UNCHANGED events /\ Given(e) /\ Given(e)' /\ exec'[e].contact = exec[e].contact
                 /\ \A f \in Executions \ {e} : exec'[f] = exec[f] /\ mem'[f] = mem[f]
<1> USE DEF IsRow, IsMem, IsJob, Late, Domains, Goto, Rest, Given, HasRow
<1>3. ASSUME CreateRow(e) PROVE Ok
  BY <1>0, <1>3 DEF CreateRow, Row
<1>4. ASSUME AddJob(e) PROVE Ok
  BY <1>0, <1>4 DEF AddJob
<1>5. ASSUME FiringDies(e) PROVE Ok
  BY <1>0, <1>5 DEF FiringDies
<1>6. ASSUME TakeJob(e) PROVE Ok
  BY <1>0, <1>6 DEF TakeJob, store
<1>7. ASSUME WorkerDies(e) PROVE Ok
  BY <1>0, <1>7 DEF WorkerDies
<1>8. ASSUME WorkerStep(e) PROVE Ok
  <2>1. CASE Load(e)
    BY <1>0, <2>1 DEF Load, Elsewhere
  <2>2. CASE Enter(e)
    BY <1>0, <2>2 DEF Enter, Stored, Elsewhere
  <2>3. CASE Send(e)
    BY <1>0, <2>3 DEF Send, Thrown, Elsewhere
  <2>4. CASE Pay(e)
    BY <1>0, <2>4 DEF Pay, Thrown, Elsewhere
  <2>5. CASE RecordNode(e)
    BY <1>0, <2>5 DEF RecordNode, Thrown, Elsewhere
  <2>6. CASE RecordMessage(e)
    BY <1>0, <2>6 DEF RecordMessage, Thrown, Elsewhere
  <2>7. CASE ScheduleRetry(e)
    BY <1>0, <2>7 DEF ScheduleRetry, Elsewhere
  <2>8. CASE Requeue(e)
    BY <1>0, <2>8 DEF Requeue, Elsewhere
  <2>9. CASE TagContact(e)
    BY <1>0, <2>9 DEF TagContact, Elsewhere
  <2>10. CASE Branch(e)
    BY <1>0, <2>10 DEF Branch, Elsewhere
  <2>11. CASE Wait(e)
    BY <1>0, <2>11 DEF Wait, Stored, Elsewhere
  <2>12. CASE Finish(e)
    BY <1>0, <2>12 DEF Finish, Elsewhere
  <2>13. CASE Return(e)
    BY <1>0, <2>13 DEF Return, store
  <2>14. CASE Throw(e)
    BY <1>0, <2>14 DEF Throw, store
  <2>15. CASE MarkFailed(e)
    BY <1>0, <2>15 DEF MarkFailed, Elsewhere
  <2> QED BY <1>8, <2>1, <2>2, <2>3, <2>4, <2>5, <2>6, <2>7, <2>8, <2>9, <2>10, <2>11, <2>12, <2>13, <2>14, <2>15 DEF WorkerStep
<1> HIDE DEF IsRow, IsMem, IsJob, Late, Domains, Goto, Rest, Given, HasRow
<1>9. Ok
  BY <1>3, <1>4, <1>5, <1>6, <1>7, <1>8
<1>10. ASSUME NEW c, NEW f \in Executions, exec'[f].contact = c, Given(f)'
       PROVE  f \in Got(c)
  BY <1>9, <1>10 DEF Got, Given
<1>11. ASSUME NEW c, NEW f \in Executions, exec[f].contact = c, Given(f)
       PROVE  exec'[f].contact = c /\ Given(f)'
  BY <1>9, <1>11 DEF Given
<1> QED BY <1>9, <1>10, <1>11 DEF Got

(* What is allowed is not taken back. *)
LEMMA AllowedGrows ==
  ASSUME WelcomeInv, UNCHANGED world, Spends, present \subseteq present'
  PROVE  /\ (left.requests <= world.requests)'
         /\ \A c : /\ Allowed(c) \in Int /\ Allowed(c)' \in Int /\ Allowed(c) <= Allowed(c)'
                   /\ Request => Allowed(c) + 1 <= Allowed(c)'
                   /\ c \in present' \ present => Allowed(c) + 1 <= Allowed(c)'
<1>1. /\ world.requests \in Nat /\ left.requests \in Nat /\ left.requests <= world.requests
      /\ left \in [faults : Nat, crashes : Nat, requests : Nat, deliveries : Nat]
      /\ world.present \subseteq present
  BY StoreAssumption DEF WelcomeInv, ImportInv, ImportTypes, Bounds
<1>2. left'.requests \in Nat /\ left'.requests <= left.requests
      /\ (Request => left'.requests = left.requests - 1)
  BY <1>1 DEF Spends, Fault, Crash, Request, Delivery
<1>3. ASSUME NEW c
      PROVE  /\ IsAdded(c) \in Nat /\ IsAdded(c)' \in Nat /\ IsAdded(c) <= IsAdded(c)'
             /\ c \in present' \ present => IsAdded(c) + 1 <= IsAdded(c)'
  BY <1>1 DEF IsAdded
<1>4. ASSUME NEW c
      PROVE  Allowed(c) = IsAdded(c) + world.requests - left.requests
             /\ Allowed(c)' = IsAdded(c)' + world.requests - left'.requests
  BY DEF Allowed
<1>5. ASSUME NEW c
      PROVE  /\ Allowed(c) \in Int /\ Allowed(c)' \in Int /\ Allowed(c) <= Allowed(c)'
             /\ Request => Allowed(c) + 1 <= Allowed(c)'
             /\ c \in present' \ present => Allowed(c) + 1 <= Allowed(c)'
  BY <1>1, <1>2, <1>3, <1>4
<1> QED BY <1>1, <1>2, <1>5

(* A set with one element more at most. *)
LEMMA OneMore ==
  ASSUME NEW S, NEW T, NEW u, IsFiniteSet(S), T \subseteq S \cup {u}
  PROVE  /\ IsFiniteSet(T) /\ Cardinality(S) \in Nat /\ Cardinality(T) \in Nat
         /\ Cardinality(T) <= Cardinality(S) + 1
         /\ T \subseteq S => Cardinality(T) <= Cardinality(S)
<1>1. IsFiniteSet(S \cup {u}) /\ Cardinality(S \cup {u}) <= Cardinality(S) + 1
      /\ Cardinality(S) \in Nat
  <2>1. Cardinality(S) \in Nat
    BY FS_CardinalityType
  <2>2. IsFiniteSet(S \cup {u}) /\ Cardinality(S \cup {u}) \in {Cardinality(S), Cardinality(S) + 1}
    BY FS_AddElement
  <2> QED BY <2>1, <2>2
<1>2. IsFiniteSet(T) /\ Cardinality(T) <= Cardinality(S \cup {u})
  BY <1>1, FS_Subset
<1>3. Cardinality(T) \in Nat /\ Cardinality(S \cup {u}) \in Nat
  BY <1>1, <1>2, FS_CardinalityType
<1>4. T \subseteq S => Cardinality(T) <= Cardinality(S)
  BY FS_Subset
<1> QED BY <1>1, <1>2, <1>3, <1>4

(* There is not more to welcome a contact with, or one thing more. *)
LEMMA WelcomeGrows ==
  ASSUME WelcomeInv, NEW c, NEW x, NEW y, NEW z,
         Got(c)' \subseteq Got(c) \cup {x}, Queued(c)' \subseteq Queued(c) \cup {y},
         Telling(c)' \subseteq Telling(c) \cup {z}
  PROVE  /\ Got(c)' \subseteq Got(c) /\ Queued(c)' \subseteq Queued(c) /\ Telling(c)' \subseteq Telling(c)
              => Welcome(c)' <= Welcome(c)
         /\ Got(c)' \subseteq Got(c) /\ Queued(c)' \subseteq Queued(c)
              => Welcome(c)' <= Welcome(c) + 1
         /\ Got(c)' \subseteq Got(c) /\ Telling(c)' \subseteq Telling(c)
              => Welcome(c)' <= Welcome(c) + 1
         /\ Queued(c)' \subseteq Queued(c) /\ Telling(c)' \subseteq Telling(c)
              => Welcome(c)' <= Welcome(c) + 1
<1>2. IsFiniteSet(Got(c)) /\ IsFiniteSet(Queued(c)) /\ IsFiniteSet(Telling(c))
  BY WelcomeParts
<1>3. PICK G, Q, T : G = Got(c)' /\ Q = Queued(c)' /\ T = Telling(c)'
  OBVIOUS
<1>4. /\ Cardinality(Got(c)) \in Nat /\ Cardinality(G) \in Nat
      /\ Cardinality(G) <= Cardinality(Got(c)) + 1
      /\ G \subseteq Got(c) => Cardinality(G) <= Cardinality(Got(c))
  BY <1>2, <1>3, OneMore
<1>5. /\ Cardinality(Queued(c)) \in Nat /\ Cardinality(Q) \in Nat
      /\ Cardinality(Q) <= Cardinality(Queued(c)) + 1
      /\ Q \subseteq Queued(c) => Cardinality(Q) <= Cardinality(Queued(c))
  BY <1>2, <1>3, OneMore
<1>6. /\ Cardinality(Telling(c)) \in Nat /\ Cardinality(T) \in Nat
      /\ Cardinality(T) <= Cardinality(Telling(c)) + 1
      /\ T \subseteq Telling(c) => Cardinality(T) <= Cardinality(Telling(c))
  BY <1>2, <1>3, OneMore
<1>7. Welcome(c)' = Cardinality(G) + Cardinality(Q) + Cardinality(T)
  BY <1>3 DEF Welcome
<1>8. Welcome(c) = Cardinality(Got(c)) + Cardinality(Queued(c)) + Cardinality(Telling(c))
  BY DEF Welcome
<1> QED BY <1>3, <1>4, <1>5, <1>6, <1>7, <1>8

(* What a step has to show: where it welcomes a contact once more, the contact
   was added or a request made. *)
LEMMA WelcomeMoves ==
  ASSUME WelcomeInv, PlacedInv', ImportInv', UNCHANGED world, Spends, present \subseteq present',
         AreEvents(events'),
         world.trigger = "contact_added" =>
           /\ \A k \in Runs : cron'[k].pc = "idle"
           /\ \A c \in Contacts :
                \/ Welcome(c)' <= Welcome(c)
                \/ Welcome(c)' <= Welcome(c) + 1 /\ (Request \/ c \in present' \ present)
  PROVE  WelcomeInv'
<1>1. (left.requests <= world.requests)'
  BY AllowedGrows
<1>2. ASSUME world.trigger = "contact_added", NEW c \in Contacts PROVE (Welcome(c) <= Allowed(c))'
  <2>1. /\ Allowed(c) \in Int /\ Allowed(c)' \in Int /\ Allowed(c) <= Allowed(c)'
        /\ Request \/ c \in present' \ present => Allowed(c) + 1 <= Allowed(c)'
    BY AllowedGrows
  <2>2. Welcome(c) \in Nat /\ Welcome(c) <= Allowed(c)
    BY <1>2, WelcomeParts DEF WelcomeInv
  <2>3. Welcome(c)' \in Nat
    <3>1. /\ IsFiniteSet(Got(c)') /\ IsFiniteSet(Telling(c)')
      BY FS_Subset, StoreAssumption DEF Got, Telling
    <3>2. IsFiniteSet(Queued(c)')
      <4>1. PICK S : events' \in Seq(S)
        BY DEF AreEvents
      <4>2. Len(events') \in Nat /\ DOMAIN events' = 1..Len(events')
        BY <4>1, LenProperties
      <4>3. IsFiniteSet(DOMAIN events')
        BY <4>2, FS_Interval
      <4> QED BY <4>3, FS_Subset DEF Queued
    <3>3. Cardinality(Got(c)') \in Nat /\ Cardinality(Queued(c)') \in Nat /\ Cardinality(Telling(c)') \in Nat
      BY <3>1, <3>2, FS_CardinalityType
    <3> QED BY <3>3 DEF Welcome
  <2> QED BY <1>2, <2>1, <2>2, <2>3
<1> QED BY <1>1, <1>2 DEF WelcomeInv

(* A step that welcomes nobody. *)
LEMMA WelcomesNobody ==
  ASSUME WelcomeInv, PlacedInv', ImportInv', UNCHANGED world, Spends, present \subseteq present',
         AreEvents(events'),
         world.trigger = "contact_added" => \A k \in Runs : cron'[k].pc = "idle",
         \A c : /\ Got(c)' \subseteq Got(c) /\ Queued(c)' \subseteq Queued(c)
                /\ Telling(c)' \subseteq Telling(c)
  PROVE  WelcomeInv'
<1>1. ASSUME NEW c \in Contacts PROVE Welcome(c)' <= Welcome(c)
  <2>1. /\ Got(c)' \subseteq Got(c) \cup {0} /\ Queued(c)' \subseteq Queued(c) \cup {0}
        /\ Telling(c)' \subseteq Telling(c) \cup {0}
    OBVIOUS
  <2> QED BY <2>1, WelcomeGrows
<1> QED BY <1>1, WelcomeMoves

(* Executions, queued events and requests are as they were. *)
LEMMA WelcomeSame ==
  ASSUME NEW c
  PROVE  /\ UNCHANGED <<exec, mem>> => Got(c)' = Got(c)
         /\ UNCHANGED events => Queued(c)' = Queued(c)
         /\ UNCHANGED form => Telling(c)' = Telling(c)
BY DEF Got, Given, Queued, Welcomes, Event, Telling, Tells

(* A listener reads its event: the contact has an execution instead. *)
LEMMA WelcomeListens ==
  ASSUME WelcomeInv, PlacedInv', ImportInv', NEW e \in Executions, NEW i \in DOMAIN events,
         Listen(e, i)
  PROVE  WelcomeInv'
<1>0. UNCHANGED <<world, present, left, cron, form>> /\ Spends /\ events' = RemoveAt(events, i)
  BY DEF Listen, others, bookVars, firing, Spends
<1>1. AreEvents(events) /\ DOMAIN exec = Executions /\ DOMAIN mem = Executions
      /\ (\A f \in Executions : IsRow(exec[f]) /\ IsMem(mem[f]))
  BY DEF WelcomeInv, PlacedInv, LateInv, Late, Domains
<1>2. AreEvents(events') /\ IsEvent(events[i])
      /\ \A c : Cardinality(Queued(c)') <= Cardinality(Queued(c) \ {i})
  BY <1>0, <1>1, EventTaken
<1>3. /\ exec[e].st = "none" /\ mem[e].pc = "idle"
      /\ \/ /\ world.trigger = events[i].kind
            /\ exec' = [exec EXCEPT ![e].contact = events[i].contact] /\ Goto(e, "found")
         \/ UNCHANGED <<exec, mem>>
  BY DEF Listen, Unused
<1>4. ASSUME world.trigger = "contact_added", NEW c \in Contacts
      PROVE  Welcome(c)' <= Welcome(c)
  <2>0. /\ IsFiniteSet(Got(c)) /\ IsFiniteSet(Queued(c)) /\ Telling(c)' = Telling(c)
        /\ Cardinality(Got(c)) \in Nat /\ Cardinality(Queued(c)) \in Nat
        /\ Cardinality(Telling(c)) \in Nat
    BY <1>0, WelcomeParts, WelcomeSame
  <2>1. PICK G, Q : G = Got(c)' /\ Q = Queued(c)'
    OBVIOUS
  <2>2. Cardinality(Q) <= Cardinality(Queued(c) \ {i}) /\ Q = Queued(c)'
    BY <1>2, <2>1
  <2>3. /\ Cardinality(Queued(c) \ {i}) =
             IF i \in Queued(c) THEN Cardinality(Queued(c)) - 1 ELSE Cardinality(Queued(c))
    BY <2>0, FS_RemoveElement
  <2>4. IsFiniteSet(Q)
    <3>1. PICK S : events' \in Seq(S)
      BY <1>2 DEF AreEvents
    <3>2. Len(events') \in Nat /\ DOMAIN events' = 1..Len(events')
      BY <3>1, LenProperties
    <3>3. IsFiniteSet(DOMAIN events')
      BY <3>2, FS_Interval
    <3> QED BY <2>1, <3>3, FS_Subset DEF Queued
  <2>5. Cardinality(Q) \in Nat
    BY <2>4, FS_CardinalityType
  <2>6. CASE events[i] = Welcomes(c)
    <3>1. i \in Queued(c)
      BY <2>6 DEF Queued
    <3>2. G \subseteq Got(c) \cup {e}
      <4>1. ASSUME NEW f \in Executions \ {e} PROVE exec'[f] = exec[f] /\ mem'[f] = mem[f]
        BY <1>1, <1>3 DEF Goto
      <4> QED BY <2>1, <4>1 DEF Got, Given
    <3>3. Cardinality(G) \in Nat /\ Cardinality(G) <= Cardinality(Got(c)) + 1
      BY <2>0, <3>2, OneMore
    <3>6. Welcome(c)' = Cardinality(G) + Cardinality(Q) + Cardinality(Telling(c))
      BY <2>0, <2>1 DEF Welcome
    <3>7. Welcome(c) = Cardinality(Got(c)) + Cardinality(Queued(c)) + Cardinality(Telling(c))
      BY DEF Welcome
    <3> QED BY <2>0, <2>2, <2>3, <2>5, <3>1, <3>3, <3>6, <3>7
  <2>7. CASE events[i] # Welcomes(c)
    <3>1. ASSUME NEW f \in Executions, exec'[f].contact = c, Given(f)'
          PROVE  f \in Got(c)
      <4>1. CASE UNCHANGED <<exec, mem>>
        BY <3>1, <4>1 DEF Got, Given
      <4>2. CASE world.trigger = events[i].kind /\ exec' = [exec EXCEPT ![e].contact = events[i].contact] /\ Goto(e, "found")
        <5>1. events[i].contact # c
          BY <1>2, <1>4, <2>7, <4>2 DEF IsEvent, Event, Welcomes
        <5>2. f # e
          BY <1>1, <3>1, <4>2, <5>1 DEF IsRow
        <5>3. exec'[f] = exec[f] /\ mem'[f] = mem[f]
          BY <1>1, <4>2, <5>2 DEF Goto
        <5> QED BY <3>1, <5>3 DEF Got, Given
      <4> QED BY <1>3, <4>1, <4>2
    <3>2. G \subseteq Got(c)
      BY <2>1, <3>1 DEF Got
    <3>3. Cardinality(G) <= Cardinality(Got(c)) /\ IsFiniteSet(G)
      BY <2>0, <3>2, FS_Subset
    <3>4. Cardinality(G) \in Nat
      BY <3>3, FS_CardinalityType
    <3>5. Cardinality(Q) <= Cardinality(Queued(c))
      BY <2>0, <2>2, <2>3, <2>5
    <3>6. Welcome(c)' = Cardinality(G) + Cardinality(Q) + Cardinality(Telling(c))
      BY <2>0, <2>1 DEF Welcome
    <3>7. Welcome(c) = Cardinality(Got(c)) + Cardinality(Queued(c)) + Cardinality(Telling(c))
      BY DEF Welcome
    <3> QED BY <2>0, <2>5, <3>3, <3>4, <3>5, <3>6, <3>7
  <2> QED BY <2>6, <2>7
<1>5. world.trigger = "contact_added" => \A k \in Runs : cron'[k].pc = "idle"
  BY <1>0 DEF WelcomeInv
<1> QED BY <1>0, <1>2, <1>4, <1>5, WelcomeMoves

(* A request starts an execution. *)
LEMMA WelcomeTriggered ==
  ASSUME WelcomeInv, PlacedInv', ImportInv', NEW e \in Executions, NEW d \in Contacts,
         Trigger(e, d)
  PROVE  WelcomeInv'
<1>0. UNCHANGED <<world, present, events, cron, form>> /\ Request /\ Spends
  BY DEF Trigger, others, bookVars, firing, Spends
<1>1. DOMAIN exec = Executions /\ DOMAIN mem = Executions
  BY DEF WelcomeInv, PlacedInv, LateInv, Domains
<1>2. \A f \in Executions \ {e} : exec'[f] = exec[f] /\ mem'[f] = mem[f]
  BY <1>1 DEF Trigger, Goto
<1>3. ASSUME NEW c \in Contacts PROVE Welcome(c)' <= Welcome(c) + 1
  <2>1. Queued(c)' = Queued(c) /\ Telling(c)' = Telling(c)
    BY <1>0, WelcomeSame
  <2>2. Got(c)' \subseteq Got(c) \cup {e}
    BY <1>2 DEF Got, Given
  <2>3. Queued(c)' \subseteq Queued(c) \cup {0} /\ Telling(c)' \subseteq Telling(c) \cup {0}
    BY <2>1
  <2> QED BY <2>1, <2>2, <2>3, WelcomeGrows
<1>4. AreEvents(events')
  BY <1>0 DEF WelcomeInv
<1>5. world.trigger = "contact_added" => \A k \in Runs : cron'[k].pc = "idle"
  BY <1>0 DEF WelcomeInv
<1>6. present \subseteq present'
  BY <1>0
<1> QED BY <1>0, <1>3, <1>4, <1>5, <1>6, WelcomeMoves

(* Automations welcome nobody else: their crons are for dates. *)
LEMMA WelcomeAutomations ==
  ASSUME WelcomeInv, PlacedInv', ImportInv', AutomationsNext
  PROVE  WelcomeInv'
<1>0. /\ UNCHANGED <<world, present, form>> /\ Spends
      /\ DOMAIN exec = Executions /\ DOMAIN mem = Executions /\ DOMAIN cron = Runs
      /\ AreEvents(events) /\ PlacedInv
  BY AutomationsFrame, AutomationsSpend DEF others, bookVars, WelcomeInv, PlacedInv, LateInv, Domains
<1>1. ASSUME UNCHANGED events, \A c : Got(c)' \subseteq Got(c),
             world.trigger = "contact_added" => \A k \in Runs : cron'[k].pc = "idle"
      PROVE  WelcomeInv'
  <2>1. \A c : Queued(c)' \subseteq Queued(c) /\ Telling(c)' \subseteq Telling(c)
    BY <1>0, <1>1, WelcomeSame
  <2>2. AreEvents(events') /\ present \subseteq present'
    BY <1>0, <1>1
  <2> QED BY <1>0, <1>1, <2>1, <2>2, WelcomesNobody
<1>2. world.trigger = "contact_added" => \A k \in Runs : cron[k].pc = "idle"
  BY DEF WelcomeInv
<1>3. ASSUME NEW e \in Executions,
             \/ CreateRow(e) \/ AddJob(e) \/ FiringDies(e) \/ TakeJob(e) \/ WorkerDies(e)
             \/ WorkerStep(e)
      PROVE  WelcomeInv'
  <2>1. UNCHANGED events /\ \A c : Got(c)' \subseteq Got(c)
    BY <1>0, <1>3, ExecutionKeeps
  <2>2. UNCHANGED cron
    <3>1. CASE CreateRow(e) \/ AddJob(e) \/ FiringDies(e) \/ TakeJob(e) \/ WorkerDies(e)
      BY <3>1 DEF CreateRow, AddJob, FiringDies, TakeJob, WorkerDies, firing
    <3>2. CASE WorkerStep(e)
      BY <3>2 DEF WorkerStep, Load, Enter, Send, Pay, RecordNode, RecordMessage, ScheduleRetry,
                  Requeue, TagContact, Branch, Wait, Finish, Return, Throw, MarkFailed,
                  Elsewhere, firing
    <3> QED BY <1>3, <3>1, <3>2
  <2> QED BY <1>1, <1>2, <2>1, <2>2
<1>4. ASSUME NEW k \in Runs, CronFires(k) \/ CronMarks(k) \/ CronAdds(k) \/ CronDies(k)
      PROVE  WelcomeInv'
  <2>1. UNCHANGED <<events, exec, mem>>
    BY <1>4 DEF CronFires, CronMarks, CronAdds, CronDies, executions, store
  <2>2. \A c : Got(c)' \subseteq Got(c)
    BY <2>1, WelcomeSame
  <2>3. world.trigger # "contact_added"
    BY <1>2, <1>4 DEF CronFires, CronMarks, CronAdds, CronDies, Due, Daily
  <2> QED BY <1>1, <2>1, <2>2, <2>3
<1>5. ASSUME NEW k \in Runs, NEW e \in Executions, CronCreates(k, e) PROVE WelcomeInv'
  <2>1. world.trigger # "contact_added" /\ UNCHANGED events
    BY <1>2, <1>5 DEF CronCreates
  <2>2. AreEvents(events') /\ present \subseteq present' /\ world'.trigger # "contact_added"
    BY <1>0, <2>1
  <2> QED BY <1>0, <2>1, <2>2, WelcomeMoves
<1>6. ASSUME NEW r \in Clients, Toggle(r) \/ Delete(r) \/ RequestStep(r) PROVE WelcomeInv'
  <2>1. UNCHANGED <<events, cron>>
    BY <1>6 DEF Toggle, Delete, Ask, RequestStep, WriteToggle, WriteDelete, store
  <2>2. ASSUME NEW c PROVE Got(c)' \subseteq Got(c)
    <3>1. CASE UNCHANGED <<exec, mem>>
      BY <3>1, WelcomeSame
    <3>2. CASE WriteDelete(r)
      <4>1. /\ UNCHANGED mem
            /\ exec' = [e \in Executions |->
                          IF HasRow(e) THEN [exec[e] EXCEPT !.st = "gone"] ELSE exec[e]]
        BY <3>2 DEF WriteDelete
      <4>2. \A e \in Executions : IsRow(exec[e])
        BY <1>0 DEF PlacedInv, LateInv, Late
      <4>3. ASSUME NEW e \in Executions, exec'[e].contact = c, Given(e)' PROVE e \in Got(c)
        <5>1. CASE HasRow(e)
          <6>1. exec'[e] = [exec[e] EXCEPT !.st = "gone"] /\ IsRow(exec[e]) /\ exec[e].st # "none"
            BY <4>1, <4>2, <5>1 DEF HasRow
          <6>2. exec'[e].contact = exec[e].contact
            BY <6>1 DEF IsRow
          <6> QED BY <4>3, <6>1, <6>2 DEF Got, Given
        <5>2. CASE ~HasRow(e)
          BY <4>1, <4>3, <5>2 DEF Got, Given
        <5> QED BY <5>1, <5>2
      <4> QED BY <4>3 DEF Got
    <3> QED BY <1>6, <3>1, <3>2 DEF Toggle, Delete, Ask, RequestStep, WriteToggle, executions
  <2> QED BY <1>1, <1>2, <2>1, <2>2
<1>7. ASSUME NEW d \in 0..MaxDay, SetDate(d) PROVE WelcomeInv'
  <2>1. UNCHANGED <<events, cron, exec, mem>>
    BY <1>7 DEF SetDate, executions, firing
  <2>2. \A c : Got(c)' \subseteq Got(c)
    BY <2>1, WelcomeSame
  <2> QED BY <1>1, <1>2, <2>1, <2>2
<1> QED BY <1>3, <1>4, <1>5, <1>6, <1>7, WelcomeListens, WelcomeTriggered DEF AutomationsNext, CronStep

(* Imports: a row that adds a contact announces it, and no other does. *)
LEMMA WelcomeImports ==
  ASSUME WelcomeInv, PlacedInv', ImportInv', ImportNext
  PROVE  WelcomeInv'
<1>0. /\ UNCHANGED <<world, exec, mem, cron, form>> /\ Spends /\ AreEvents(events) /\ ImportInv
      /\ ImportTypes
  BY ImportFrame, ImportSpends
     DEF Apart, automationVars, executions, firing, bookVars, WelcomeInv, ImportInv
<1>1. \A c : Got(c)' = Got(c) /\ Telling(c)' = Telling(c)
  BY <1>0, WelcomeSame
<1>2. world.trigger = "contact_added" => \A k \in Runs : cron'[k].pc = "idle"
  BY <1>0 DEF WelcomeInv
<1>3. ASSUME UNCHANGED <<events, present>> PROVE WelcomeInv'
  <2>1. \A c : Queued(c)' = Queued(c)
    BY <1>3, WelcomeSame
  <2>2. AreEvents(events') /\ present \subseteq present'
    BY <1>0, <1>3
  <2> QED BY <1>0, <1>1, <1>2, <2>1, <2>2, WelcomesNobody
<1>4. ASSUME NEW f \in Files, NewRow(f), ~UNCHANGED <<events, present>> PROVE WelcomeInv'
  <2>1. PICK d : d = RowOf(f).contact
    OBVIOUS
  <2>2. /\ imp[f].pc = "row" /\ d # None /\ ~Taken(d) /\ present' = present \cup {d}
        /\ Emit("contact_added", d)
    BY <1>4, <2>1 DEF NewRow
  <2>3. d \in Keyed
    BY <1>0, <2>1, <2>2, RowType
  <2>4. d \notin present /\ d \in present'
    BY <1>0, <2>2, <2>3, ContactAdded
  <2>5. /\ AreEvents(events')
        /\ \E n : \A c : Queued(c)' \subseteq
                    (IF Event("contact_added", d) = Welcomes(c) THEN Queued(c) \cup {n} ELSE Queued(c))
    <3>1. "contact_added" \in EventKinds
      BY DEF EventKinds
    <3> QED BY <1>0, <2>2, <3>1, EventAppended
  <2>6. PICK n : \A c : Queued(c)' \subseteq
                    (IF Event("contact_added", d) = Welcomes(c) THEN Queued(c) \cup {n} ELSE Queued(c))
    BY <2>5
  <2>7. ASSUME NEW c \in Contacts
        PROVE  \/ Welcome(c)' <= Welcome(c)
               \/ Welcome(c)' <= Welcome(c) + 1 /\ (Request \/ c \in present' \ present)
    <3>1. Queued(c)' \subseteq Queued(c) \cup {n} /\ (c # d => Queued(c)' \subseteq Queued(c))
      BY <2>6 DEF Welcomes, Event
    <3>2. Got(c)' \subseteq Got(c) \cup {0} /\ Telling(c)' \subseteq Telling(c) \cup {0}
          /\ Got(c)' \subseteq Got(c) /\ Telling(c)' \subseteq Telling(c)
      BY <1>1
    <3>3. /\ Queued(c)' \subseteq Queued(c) => Welcome(c)' <= Welcome(c)
          /\ Welcome(c)' <= Welcome(c) + 1
      BY <1>0, <3>1, <3>2, WelcomeGrows
    <3> QED BY <2>4, <3>1, <3>3
  <2> QED BY <1>0, <1>2, <2>2, <2>5, <2>7, WelcomeMoves
<1>5. ASSUME NEW f \in Files, TakeFile(f) \/ ImportStep(f) \/ ImportDies(f), ~NewRow(f)
      PROVE  UNCHANGED <<events, present>>
  BY <1>5 DEF TakeFile, ImportStep, ReadBatch, InvalidRow, DuplicateRow, GenerateReport,
              ImportEnds, ImportThrows, ImportDies
<1> QED BY <1>3, <1>4, <1>5 DEF ImportNext, ImportStep

(* Webhooks and links emit events of other kinds. *)
LEMMA WelcomeDelivery ==
  ASSUME WelcomeInv, PlacedInv', ImportInv', DeliveryNext
  PROVE  WelcomeInv'
<1>0. /\ UNCHANGED <<world, present, exec, mem, cron, form>> /\ Spends /\ AreEvents(events)
  BY DeliveryFrame, DeliverySpends DEF Beside, automationVars, executions, firing, bookVars, WelcomeInv
<1>1. \A c : Got(c)' = Got(c) /\ Telling(c)' = Telling(c)
  BY <1>0, WelcomeSame
<1>2. world.trigger = "contact_added" => \A k \in Runs : cron'[k].pc = "idle"
  BY <1>0 DEF WelcomeInv
<1>3. ASSUME AreEvents(events'), \A c : Queued(c)' \subseteq Queued(c) PROVE WelcomeInv'
  BY <1>0, <1>1, <1>2, <1>3, WelcomesNobody
<1>4. ASSUME UNCHANGED events PROVE WelcomeInv'
  BY <1>0, <1>3, <1>4, WelcomeSame
<1>5. ASSUME NEW d \in Lanes, Log(d) PROVE WelcomeInv'
  <2>1. CASE UNCHANGED events
    BY <1>4, <2>1
  <2>2. CASE Emit("campaign_opened", To(d)) \/ Emit("link_clicked", To(d))
    <3>1. PICK k \in {"campaign_opened", "link_clicked"} : Emit(k, To(d))
      BY <2>2
    <3>2. PICK x : x = To(d)
      OBVIOUS
    <3>3. /\ AreEvents(events')
          /\ \E n : \A c : Queued(c)' \subseteq
                      (IF Event(k, x) = Welcomes(c) THEN Queued(c) \cup {n} ELSE Queued(c))
      <4>1. k \in EventKinds /\ Emit(k, x)
        BY <3>1, <3>2 DEF EventKinds
      <4> QED BY <1>0, <4>1, EventAppended
    <3>4. \A c : Event(k, x) # Welcomes(c)
      BY DEF Event, Welcomes
    <3> QED BY <1>3, <3>3, <3>4
  <2> QED BY <1>5, <2>1, <2>2 DEF Log
<1>6. ASSUME NEW d \in Lanes, LaneStep(d) PROVE WelcomeInv'
  <2>1. CASE EmailWrite(d) \/ BouncedOptOut(d) \/ ResendOpen(d) \/ ResendClick(d) \/ ResendBounce(d)
    BY <1>4, <2>1 DEF EmailWrite, BouncedOptOut, ResendOpen, ResendClick, ResendBounce
  <2>2. CASE ResendUnsubscribe(d) \/ ResendMark(d) \/ Count(d)
    BY <1>4, <2>2 DEF ResendUnsubscribe, ResendMark, Count
  <2>3. CASE Sms(d) \/ TrackOpen(d) \/ TrackClick(d) \/ TrackUnsubscribe(d)
    BY <1>4, <2>3 DEF Sms, TrackOpen, TrackClick, TrackUnsubscribe
  <2> QED BY <1>5, <1>6, <2>1, <2>2, <2>3 DEF LaneStep
<1>7. ASSUME NEW m \in world.messages, ReceiveCard(m) PROVE WelcomeInv'
  BY <1>4, <1>7 DEF ReceiveCard
<1>8. ASSUME NEW m \in world.messages, NEW d \in Lanes, NEW c \in Contacts, Receive(d, m, c)
      PROVE  WelcomeInv'
  BY <1>4, <1>8 DEF Receive
<1>9. ASSUME NEW d \in Lanes, LaneFails(d) PROVE WelcomeInv'
  BY <1>4, <1>9 DEF LaneFails
<1> QED BY <1>6, <1>7, <1>8, <1>9 DEF DeliveryNext

(* The request of a goes on and remembers r. *)
LEMMA RequestGoes ==
  ASSUME WelcomeInv, PlacedInv', ImportInv', UNCHANGED <<world, exec, mem, cron>>, Spends,
         present \subseteq present', AreEvents(events'), \A c : Queued(c)' \subseteq Queued(c),
         NEW a \in Callers, NEW r, form' = [form EXCEPT ![a] = r],
         \A c : Tells(r, c) => Tells(form[a], c)
  PROVE  WelcomeInv'
<1>1. DOMAIN form = Callers
  BY DEF WelcomeInv, ImportInv, FormTypes
<1>2. ASSUME NEW c PROVE Telling(c)' \subseteq Telling(c) /\ Got(c)' \subseteq Got(c)
  <2>1. \A b \in Callers : Tells(form'[b], c) => Tells(form[b], c)
    BY <1>1
  <2>2. Telling(c)' = {b \in Callers : Tells(form'[b], c)}
    BY DEF Telling, Tells
  <2>3. Telling(c)' \subseteq Telling(c)
    BY <2>1, <2>2 DEF Telling
  <2> QED BY <2>3, WelcomeSame
<1>3. world.trigger = "contact_added" => \A k \in Runs : cron'[k].pc = "idle"
  BY DEF WelcomeInv
<1> QED BY <1>2, <1>3, WelcomesNobody

(* Requests on contacts: who asked for a contact to be created has an event to
   emit once it is. *)
LEMMA WelcomeBook ==
  ASSUME WelcomeInv, PlacedInv', ImportInv', BookNext
  PROVE  WelcomeInv'
<1>0. /\ UNCHANGED <<world, exec, mem, cron>> /\ Spends /\ AreEvents(events)
      /\ DOMAIN form = Callers /\ present \subseteq present'
      /\ \A a \in Callers : IsForm(form[a])
  BY BookFrame, BookSpends, BookAdds
     DEF Around, automationVars, executions, firing, WelcomeInv, ImportInv, ImportTypes, FormTypes
<1>1. world.trigger = "contact_added" => \A k \in Runs : cron'[k].pc = "idle"
  BY <1>0 DEF WelcomeInv
<1>2. ASSUME UNCHANGED events PROVE AreEvents(events') /\ \A c : Queued(c)' \subseteq Queued(c)
  BY <1>0, <1>2, WelcomeSame
<1>3. ASSUME NEW a \in Callers, FormEnds(a), AreEvents(events'), \A c : Queued(c)' \subseteq Queued(c)
      PROVE  WelcomeInv'
  <2>1. PICK r : r = NoForm
    OBVIOUS
  <2>2. form' = [form EXCEPT ![a] = r] /\ \A c : ~Tells(r, c)
    BY <1>3, <2>1 DEF FormEnds, NoForm, Tells
  <2> QED BY <1>0, <1>3, <2>2, RequestGoes
<1>4. ASSUME NEW a \in Callers, NEW x \in {"announce", "match"}, FormGoes(a, x),
             AreEvents(events'), \A c : Queued(c)' \subseteq Queued(c),
             x = "announce" => form[a].at = "write" /\ form[a].op = "create"
      PROVE  WelcomeInv'
  <2>1. PICK r : r = [form[a] EXCEPT !.at = x]
    OBVIOUS
  <2>2. form' = [form EXCEPT ![a] = r]
    BY <1>0, <1>4, <2>1 DEF FormGoes
  <2>3. r.at = x /\ r.contact = form[a].contact
    BY <1>0, <2>1 DEF IsForm
  <2>4. \A c : Tells(r, c) => Tells(form[a], c)
    BY <1>4, <2>3 DEF Tells
  <2> QED BY <1>0, <1>4, <2>2, <2>4, RequestGoes
<1>5. ASSUME NEW a \in Callers, CreateContact(a) PROVE WelcomeInv'
  <2>1. UNCHANGED events /\ form[a].at = "write" /\ form[a].op = "create"
        /\ (FormGoes(a, "announce") \/ FormEnds(a))
    BY <1>5 DEF CreateContact
  <2> QED BY <1>2, <1>3, <1>4, <2>1
<1>6. ASSUME NEW a \in Callers, UpdateContact(a) PROVE WelcomeInv'
  <2>1. UNCHANGED events /\ FormGoes(a, "match")
    BY <1>6 DEF UpdateContact
  <2> QED BY <1>2, <1>4, <2>1
<1>7. ASSUME NEW a \in Callers, OptOut(a) \/ FormFails(a) PROVE WelcomeInv'
  <2>1. UNCHANGED events /\ FormEnds(a)
    BY <1>7 DEF OptOut, FormFails
  <2> QED BY <1>2, <1>3, <2>1
<1>8. ASSUME NEW a \in Callers, Announce(a) PROVE WelcomeInv'
  <2>1. PICK d : d = form[a].contact
    OBVIOUS
  <2>2. Emit("contact_added", d) /\ FormGoes(a, "match") /\ form[a].at = "announce" /\ UNCHANGED present
    BY <1>8, <2>1 DEF Announce
  <2>3. /\ AreEvents(events')
        /\ \E n : \A c : Queued(c)' \subseteq
                    (IF Event("contact_added", d) = Welcomes(c) THEN Queued(c) \cup {n} ELSE Queued(c))
    <3>1. "contact_added" \in EventKinds
      BY DEF EventKinds
    <3> QED BY <1>0, <2>2, <3>1, EventAppended
  <2>4. PICK n : \A c : Queued(c)' \subseteq
                    (IF Event("contact_added", d) = Welcomes(c) THEN Queued(c) \cup {n} ELSE Queued(c))
    BY <2>3
  <2>5. ASSUME NEW c PROVE Telling(c)' \subseteq Telling(c) \ {a}
    <3>1. \A b \in Callers \ {a} : form'[b] = form[b]
      BY <1>0, <2>2 DEF FormGoes
    <3>2. form'[a].at = "match"
      BY <1>0, <2>2 DEF FormGoes, IsForm
    <3>3. ~Tells(form'[a], c)
      BY <3>2 DEF Tells
    <3>4. Telling(c)' = {b \in Callers : Tells(form'[b], c)}
      BY DEF Telling, Tells
    <3> QED BY <3>1, <3>3, <3>4 DEF Telling
  <2>6. ASSUME NEW c \in Contacts PROVE Welcome(c)' <= Welcome(c)
    <3>1. Queued(c)' \subseteq Queued(c) \cup {n} /\ (c # d => Queued(c)' \subseteq Queued(c))
      BY <2>4 DEF Welcomes, Event
    <3>2. Got(c)' = Got(c) /\ Telling(c)' \subseteq Telling(c)
      BY <1>0, <2>5, WelcomeSame
    <3>3. CASE c # d
      <4>1. /\ Got(c)' \subseteq Got(c) \cup {0} /\ Telling(c)' \subseteq Telling(c) \cup {0}
        BY <3>2
      <4> QED BY <3>1, <3>2, <3>3, <4>1, WelcomeGrows
    <3>4. CASE c = d
      <4>1. PICK Q, T : Q = Queued(c)' /\ T = Telling(c)'
        OBVIOUS
      <4>2. /\ IsFiniteSet(Queued(c)) /\ IsFiniteSet(Telling(c)) /\ Cardinality(Got(c)) \in Nat
        BY WelcomeParts
      <4>3. /\ Cardinality(Q) \in Nat /\ Cardinality(Queued(c)) \in Nat
            /\ Cardinality(Q) <= Cardinality(Queued(c)) + 1
        BY <3>1, <4>1, <4>2, OneMore
      <4>4. a \in Telling(c)
        BY <2>1, <2>2, <3>4 DEF Telling, Tells
      <4>5. Cardinality(Telling(c) \ {a}) = Cardinality(Telling(c)) - 1 /\ IsFiniteSet(Telling(c) \ {a})
        BY <4>2, <4>4, FS_RemoveElement
      <4>6. IsFiniteSet(T) /\ Cardinality(T) <= Cardinality(Telling(c) \ {a})
        BY <2>5, <4>1, <4>5, FS_Subset
      <4>7. Cardinality(T) \in Nat /\ Cardinality(Telling(c)) \in Nat
        BY <4>2, <4>6, FS_CardinalityType
      <4>8. Welcome(c)' = Cardinality(Got(c)) + Cardinality(Q) + Cardinality(T)
        BY <3>2, <4>1 DEF Welcome
      <4>9. Welcome(c) = Cardinality(Got(c)) + Cardinality(Queued(c)) + Cardinality(Telling(c))
        BY DEF Welcome
      <4> QED BY <4>2, <4>3, <4>5, <4>6, <4>7, <4>8, <4>9
    <3> QED BY <3>3, <3>4
  <2> QED BY <1>0, <1>1, <2>3, <2>6, WelcomeMoves
<1>9. ASSUME NEW q, AreEvents(q), \A i \in DOMAIN q : q[i].kind # "contact_added", events' = events \o q
      PROVE  AreEvents(events') /\ \A c : Queued(c)' \subseteq Queued(c)
  BY <1>0, <1>9, OthersAppended
<1>10. ASSUME NEW c, NEW joined
       PROVE  /\ AreEvents(JoinedEvents(c, joined))
              /\ \A i \in DOMAIN JoinedEvents(c, joined) : JoinedEvents(c, joined)[i].kind # "contact_added"
  <2>1. PICK x : x = Event("segment_joined", c)
    OBVIOUS
  <2>2. IsEvent(x) /\ x.kind # "contact_added"
    BY <2>1 DEF IsEvent, Event, EventKinds
  <2>3. AreEvents(<<x>>) /\ AreEvents(<<>>) /\ DOMAIN <<x>> = {1} /\ <<x>>[1] = x
    BY <2>2, FewEvents
  <2>4. \A i \in DOMAIN <<x>> : <<x>>[i].kind # "contact_added"
    BY <2>2, <2>3
  <2>5. JoinedEvents(c, joined) = <<x>> \/ JoinedEvents(c, joined) = <<>>
    BY <2>1 DEF JoinedEvents
  <2>6. DOMAIN <<>> = {}
    OBVIOUS
  <2>7. CASE JoinedEvents(c, joined) = <<x>>
    BY <2>3, <2>4, <2>7
  <2>8. CASE JoinedEvents(c, joined) = <<>>
    BY <2>3, <2>6, <2>8
  <2> QED BY <2>5, <2>7, <2>8
<1>11. ASSUME NEW a \in Callers, MatchNext(a) PROVE WelcomeInv'
  <2>1. PICK found \in BOOLEAN :
          IF form[a].op = "create"
            THEN events' = events \o JoinedEvents(form[a].contact, found) /\ FormEnds(a)
            ELSE /\ form' = [form EXCEPT ![a].at = "before", ![a].hit = found] /\ UNCHANGED events
    BY <1>11 DEF MatchNext
  <2>2. CASE form[a].op = "create"
    <3>1. PICK q : q = JoinedEvents(form[a].contact, found)
      OBVIOUS
    <3>2. AreEvents(q) /\ \A i \in DOMAIN q : q[i].kind # "contact_added"
      BY <1>10, <3>1
    <3> QED BY <1>3, <1>9, <2>1, <2>2, <3>1, <3>2
  <2>3. CASE form[a].op # "create"
    <3>1. PICK r : r = [form[a] EXCEPT !.at = "before", !.hit = found]
      OBVIOUS
    <3>2. form' = [form EXCEPT ![a] = r] /\ r.at = "before"
      BY <1>0, <2>1, <2>3, <3>1 DEF IsForm
    <3>3. \A c : ~Tells(r, c)
      BY <3>2 DEF Tells
    <3> QED BY <1>0, <1>2, <2>1, <2>3, <3>2, <3>3, RequestGoes
  <2> QED BY <2>2, <2>3
<1>12. ASSUME NEW a \in Callers, MatchBefore(a) PROVE WelcomeInv'
  <2>1. PICK found \in BOOLEAN :
          events' = events \o JoinedEvents(form[a].contact, form[a].hit /\ ~found)
                    \o (IF form[a].added # {} THEN <<Event("tag_added", form[a].contact)>> ELSE <<>>)
    BY <1>12 DEF MatchBefore
  <2>2. PICK q : q = JoinedEvents(form[a].contact, form[a].hit /\ ~found)
    OBVIOUS
  <2>3. PICK x : x = Event("tag_added", form[a].contact)
    OBVIOUS
  <2>4. PICK r : r = (IF form[a].added # {} THEN <<x>> ELSE <<>>)
    OBVIOUS
  <2>5. AreEvents(q) /\ \A i \in DOMAIN q : q[i].kind # "contact_added"
    BY <1>10, <2>2
  <2>6. IsEvent(x) /\ x.kind # "contact_added"
    BY <2>3 DEF IsEvent, Event, EventKinds
  <2>7. AreEvents(<<x>>) /\ AreEvents(<<>>) /\ DOMAIN <<x>> = {1} /\ <<x>>[1] = x /\ DOMAIN <<>> = {}
    BY <2>6, FewEvents
  <2>8. AreEvents(r) /\ \A i \in DOMAIN r : r[i].kind # "contact_added"
    <3>1. CASE r = <<x>>
      BY <2>6, <2>7, <3>1
    <3>2. CASE r = <<>>
      BY <2>7, <3>2
    <3> QED BY <2>4, <3>1, <3>2
  <2>9. PICK s : s = q \o r
    OBVIOUS
  <2>10. AreEvents(s) /\ (\A i \in DOMAIN s : s[i].kind # "contact_added") /\ events' = events \o s
    <3>1. PICK S : q \in Seq(S) /\ \A y \in S : IsEvent(y)
      BY <2>5 DEF AreEvents
    <3>2. PICK T : r \in Seq(T) /\ \A y \in T : IsEvent(y)
      BY <2>8 DEF AreEvents
    <3>3. PICK V : events \in Seq(V)
      BY <1>0 DEF AreEvents
    <3>4. PICK U : U = S \cup T
      OBVIOUS
    <3>5. q \in Seq(U) /\ r \in Seq(U) /\ \A y \in U : IsEvent(y)
      BY <3>1, <3>2, <3>4, SeqMonotonic
    <3>6. /\ s \in Seq(U) /\ Len(s) = Len(q) + Len(r)
          /\ \A i \in 1..Len(q) + Len(r) : s[i] = IF i <= Len(q) THEN q[i] ELSE r[i - Len(q)]
      BY <2>9, <3>5, ConcatProperties
    <3>7. /\ DOMAIN s = 1..Len(s) /\ DOMAIN q = 1..Len(q) /\ DOMAIN r = 1..Len(r)
          /\ Len(q) \in Nat /\ Len(r) \in Nat
      BY <3>5, <3>6, LenProperties
    <3>8. ASSUME NEW i \in DOMAIN s PROVE s[i].kind # "contact_added"
      <4>1. CASE i <= Len(q)
        BY <2>5, <3>6, <3>7, <4>1
      <4>2. CASE ~(i <= Len(q))
        <5>1. i - Len(q) \in DOMAIN r /\ s[i] = r[i - Len(q)]
          BY <3>6, <3>7, <4>2
        <5> QED BY <2>8, <5>1
      <4> QED BY <4>1, <4>2
    <3>9. PICK W : W = U \cup V
      OBVIOUS
    <3>10. q \in Seq(W) /\ r \in Seq(W) /\ events \in Seq(W)
      BY <3>3, <3>5, <3>9, SeqMonotonic
    <3>11. events' = (events \o q) \o r
      BY <2>1, <2>2, <2>3, <2>4
    <3>12. (events \o q) \o r = events \o (q \o r)
      BY <3>10, ConcatAssociative
    <3> QED BY <2>9, <3>5, <3>6, <3>8, <3>11, <3>12 DEF AreEvents
  <2>11. FormEnds(a)
    BY <1>12 DEF MatchBefore
  <2> QED BY <1>3, <1>9, <2>10, <2>11
<1>13. ASSUME NEW a \in Callers, NEW op, NEW d \in Contacts, NEW T, AskContact(a, op, d, T)
       PROVE  WelcomeInv'
  <2>1. Request /\ UNCHANGED <<events, present>> /\ \A b \in Callers \ {a} : form'[b] = form[b]
    BY <1>0, <1>13 DEF AskContact
  <2>2. ASSUME NEW c \in Contacts PROVE Welcome(c)' <= Welcome(c) + 1
    <3>1. Telling(c)' \subseteq Telling(c) \cup {a}
      BY <2>1 DEF Telling, Tells
    <3>2. Got(c)' = Got(c) /\ Queued(c)' = Queued(c)
      BY <1>0, <2>1, WelcomeSame
    <3>3. Got(c)' \subseteq Got(c) \cup {0} /\ Queued(c)' \subseteq Queued(c) \cup {0}
      BY <3>2
    <3> QED BY <3>1, <3>2, <3>3, WelcomeGrows
  <2>3. AreEvents(events')
    BY <1>0, <2>1
  <2> QED BY <1>0, <1>1, <2>1, <2>2, <2>3, WelcomeMoves
<1>14. ASSUME UNCHANGED <<form, events>> PROVE WelcomeInv'
  <2>1. \A c : Got(c)' \subseteq Got(c) /\ Queued(c)' \subseteq Queued(c) /\ Telling(c)' \subseteq Telling(c)
    BY <1>0, <1>14, WelcomeSame
  <2>2. AreEvents(events')
    BY <1>0, <1>14
  <2> QED BY <1>0, <1>1, <2>1, <2>2, WelcomesNobody
<1>15. CASE JobArrives \/ JobIsLost
  BY <1>14, <1>15 DEF JobArrives, JobIsLost
<1>16. ASSUME NEW b \in Backends, CountStep(b) \/ CountThrows(b) \/ CountDies(b) PROVE WelcomeInv'
  BY <1>14, <1>16 DEF CountStep, CountThrows, CountDies, TakeRecalculation, CountMatching, WriteCount
<1> QED BY <1>5, <1>6, <1>7, <1>8, <1>11, <1>12, <1>13, <1>15, <1>16 DEF BookNext, FormStep

(* Every step of the account keeps the invariant of welcomes. *)
LEMMA WelcomeInductive == WelcomeInv /\ [Next]_vars => WelcomeInv'
<1> SUFFICES ASSUME WelcomeInv, [Next]_vars PROVE WelcomeInv'
  OBVIOUS
<1>1. PlacedInv' /\ ImportInv' /\ UNCHANGED world
  BY PlacedInductive, ImportInductive, WorldStays DEF WelcomeInv, ImportInv, ImportTypes, Bounds
<1>2. ASSUME UNCHANGED <<present, exec, mem, cron, events, form>>, Spends PROVE WelcomeInv'
  <2>1. \A c : Got(c)' \subseteq Got(c) /\ Queued(c)' \subseteq Queued(c) /\ Telling(c)' \subseteq Telling(c)
    BY <1>2, WelcomeSame
  <2>2. AreEvents(events') /\ present \subseteq present'
    BY <1>2 DEF WelcomeInv
  <2>3. world.trigger = "contact_added" => \A k \in Runs : cron'[k].pc = "idle"
    BY <1>2 DEF WelcomeInv
  <2> QED BY <1>1, <1>2, <2>1, <2>2, <2>3, WelcomesNobody
<1>3. CASE AutomationsNext
  BY <1>1, <1>3, WelcomeAutomations
<1>4. CASE ImportNext
  BY <1>1, <1>4, WelcomeImports
<1>5. CASE DeliveryNext
  BY <1>1, <1>5, WelcomeDelivery
<1>6. CASE BookNext
  BY <1>1, <1>6, WelcomeBook
<1>7. CASE ApiNext
  BY <1>2, <1>7, ApiFrame, ApiSpends DEF Aside, automationVars, executions, firing, bookVars
<1>8. CASE VisaNext
  BY <1>2, <1>8, VisaFrame, VisaSpends DEF Away, automationVars, executions, firing, bookVars
<1>9. CASE Tick \/ UNCHANGED vars
  BY <1>2, <1>9 DEF Tick, vars, store, others, automationVars, executions, firing, bookVars, Spends
<1> QED BY <1>3, <1>4, <1>5, <1>6, <1>7, <1>8, <1>9 DEF Next

(* It holds while nobody was added. *)
LEMMA WelcomeInit == Init => WelcomeInv
<1> SUFFICES ASSUME Init PROVE WelcomeInv
  OBVIOUS
<1>1. /\ world \in Worlds /\ events = <<>> /\ left.requests = world.requests
      /\ exec = [e \in Executions |-> Row("none", Min(Contacts))]
      /\ mem = [e \in Executions |-> [pc |-> "idle", at |-> 0, tags |-> {}]]
      /\ cron = [k \in Runs |-> NoCron] /\ form = [a \in Callers |-> NoForm]
  BY DEF Init, StoreInit, AutomationsInit, BookInit
<1>2. world.requests \in Nat
  BY <1>1, StoreAssumption
<1>3. AreEvents(events)
  BY <1>1, FewEvents
<1>4. ASSUME NEW c PROVE Welcome(c) <= Allowed(c)
  <2>1. Got(c) = {} /\ Queued(c) = {} /\ Telling(c) = {}
    BY <1>1 DEF Got, Given, Row, Queued, Telling, Tells, NoForm
  <2>2. Welcome(c) = 0 + 0 + 0
    BY <2>1, FS_EmptySet DEF Welcome
  <2> QED BY <1>1, <1>2, <2>2 DEF Allowed, IsAdded
<1>5. \A k \in Runs : cron[k].pc = "idle"
  BY <1>1 DEF NoCron
<1>6. PlacedInv
  <2>1. LateInv
    BY LateInit
  <2>2. \A e \in Executions : Placed(e)
    BY <1>1, StoreAssumption DEF Placed, Nodes, Flow
  <2> QED BY <2>1, <2>2 DEF PlacedInv
<1> QED BY <1>1, <1>2, <1>3, <1>4, <1>5, <1>6, ImportInit0 DEF WelcomeInv

(* Whatever files name a contact, however often they are read again, and whatever
   requests create it at the same time, contactAdded starts one execution of it for
   the row that added it, and one more for each request at most. *)
THEOREM WelcomedStaysOnce == Spec => []WelcomedOnce
<1>1. ASSUME WelcomeInv PROVE WelcomedOnce
  <2> SUFFICES ASSUME world.trigger = "contact_added", NEW c \in Contacts
               PROVE  Fires(c) + Cardinality({i \in DOMAIN events : events[i] = Event("contact_added", c)})
                        <= 1 + world.requests - left.requests
    BY DEF WelcomedOnce
  <2>1. Fires(c) = Cardinality(Got(c))
    BY DEF Fires, Got, Given
  <2>2. {i \in DOMAIN events : events[i] = Event("contact_added", c)} = Queued(c)
    BY DEF Queued, Welcomes
  <2>3. /\ Cardinality(Got(c)) \in Nat /\ Cardinality(Queued(c)) \in Nat
        /\ Cardinality(Telling(c)) \in Nat /\ IsAdded(c) \in {0, 1}
    BY <1>1, WelcomeParts DEF IsAdded
  <2>4. left.requests \in Nat /\ world \in Worlds
    BY <1>1 DEF WelcomeInv, ImportInv, ImportTypes, Bounds
  <2>5. world.requests \in Nat
    BY <2>4, StoreAssumption
  <2>6. Welcome(c) <= Allowed(c)
    BY <1>1 DEF WelcomeInv
  <2>7. Welcome(c) = Cardinality(Got(c)) + Cardinality(Queued(c)) + Cardinality(Telling(c))
    BY DEF Welcome
  <2>8. Allowed(c) = IsAdded(c) + world.requests - left.requests
    BY DEF Allowed
  <2>9. Cardinality(Got(c)) + Cardinality(Queued(c)) <= 1 + world.requests - left.requests
    BY <2>3, <2>4, <2>5, <2>6, <2>7, <2>8
  <2> QED BY <2>1, <2>2, <2>9
<1> QED BY <1>1, WelcomeInit, WelcomeInductive, PTL DEF Spec

-----------------------------------------------------------------------------
(* Automations with a date *)

Dated == Daily \cup {"date_based"}
IsDate(x) == x = [date |-> x.date, fired |-> x.fired]

(* The runs that have yet to give c an execution, and the processes that may begin
   one without anything going wrong, or overtaking another. *)
Owing(c) == {k \in Runs : cron[k].pc # "idle" /\ c \in cron[k].todo}
Ready ==
  {b \in Backends : IF world.trigger = "date_based"
                      THEN ~HasRun(b) /\ config.fired = Never /\ status # "gone"
                      ELSE ran[b] < day}
Fired(c) == Cardinality(Got(c)) + Cardinality(Owing(c)) + Cardinality(Ready)
Limit == Cardinality(Backends) * Passes + Failures + Overtaken

(* Contacts a run is done with: they have an execution, or did not want one. *)
Reached(c) == Got(c) # {} \/ (world.trigger # "date_based" /\ optOut[c])

NotTooOften ==
  world.trigger \in Dated /\ "trigger" \notin world.operations =>
    \A c \in Contacts : Fired(c) <= Limit
Remembered ==
  world.trigger \in Dated /\ (world.trigger = "date_based" \/ "optIn" \notin world.operations) =>
    \A c \in world.present :
      /\ config.fired # Never => Reached(c)
      /\ LeavesMark => \A k \in Runs : cron[k].pc # "idle" => c \in cron[k].todo \/ Reached(c)
FiresTypes ==
  /\ day \in Nat /\ laps \in Nat /\ ran \in [Backends -> Int]
  /\ IsDate(config) /\ \A k \in Runs : IsDate(cron[k].seen)
  /\ ~LeavesMark => config.fired = Never
FiresInv ==
  /\ WelcomeInv /\ FiresTypes /\ ("optIn" \notin world.operations => ConsentInv)
  /\ NotTooOften /\ Remembered

(* Products grow with a factor. *)
LEMMA TimesGrows ==
  ASSUME NEW n \in Nat, NEW p \in Int, NEW q \in Int, p <= q
  PROVE  /\ n * p \in Int /\ n * q \in Int /\ n * p <= n * q
         /\ q = p + 1 => n * q = n * p + n
<1>1. n * p \in Int /\ n * q \in Int
  OBVIOUS
<1>2. PICK d : d = q - p
  OBVIOUS
<1>3. d \in Nat /\ q = p + d
  BY <1>2
<1>4. n * q = n * p + n * d
  BY <1>3
<1>5. n * d \in Nat
  BY <1>3
<1>6. q = p + 1 => n * q = n * p + n
  OBVIOUS
<1>7. n * p <= n * q
  BY <1>1, <1>4, <1>5
<1> QED BY <1>1, <1>6, <1>7

(* These are numbers. *)
LEMMA FiredParts ==
  ASSUME NEW c
  PROVE  /\ IsFiniteSet(Got(c)) /\ IsFiniteSet(Owing(c)) /\ IsFiniteSet(Ready)
         /\ Cardinality(Got(c)) \in Nat /\ Cardinality(Owing(c)) \in Nat /\ Cardinality(Ready) \in Nat
         /\ Cardinality(Backends) \in Nat /\ Fired(c) \in Nat
         /\ IsFiniteSet(Got(c)') /\ IsFiniteSet(Owing(c)') /\ IsFiniteSet(Ready')
         /\ Cardinality(Got(c)') \in Nat /\ Cardinality(Owing(c)') \in Nat /\ Cardinality(Ready') \in Nat
         /\ Cardinality(Ready') <= Cardinality(Backends) /\ Fired(c)' \in Nat
<1>1. IsFiniteSet(Backends) /\ IsFiniteSet(Executions) /\ IsFiniteSet(Runs)
  BY StoreAssumption
<1>2. PICK G, O, R : G = Got(c)' /\ O = Owing(c)' /\ R = Ready'
  OBVIOUS
<1>3. G \subseteq Executions /\ O \subseteq Runs /\ R \subseteq Backends
  BY <1>2 DEF Got, Owing, Ready
<1>4. IsFiniteSet(G) /\ IsFiniteSet(O) /\ IsFiniteSet(R) /\ Cardinality(R) <= Cardinality(Backends)
  BY <1>1, <1>3, FS_Subset
<1>5. Cardinality(G) \in Nat /\ Cardinality(O) \in Nat /\ Cardinality(R) \in Nat
      /\ Cardinality(Backends) \in Nat
  BY <1>1, <1>4, FS_CardinalityType
<1>6. Got(c) \subseteq Executions /\ Owing(c) \subseteq Runs /\ Ready \subseteq Backends
  BY DEF Got, Owing, Ready
<1>7. IsFiniteSet(Got(c)) /\ IsFiniteSet(Owing(c)) /\ IsFiniteSet(Ready)
  BY <1>1, <1>6, FS_Subset
<1>8. Cardinality(Got(c)) \in Nat /\ Cardinality(Owing(c)) \in Nat /\ Cardinality(Ready) \in Nat
  BY <1>7, FS_CardinalityType
<1>9. Fired(c) \in Nat
  BY <1>8 DEF Fired
<1>10. Fired(c)' = Cardinality(G) + Cardinality(O) + Cardinality(R)
  BY <1>2 DEF Fired
<1> QED BY <1>2, <1>4, <1>5, <1>7, <1>8, <1>9, <1>10

(* Executions, runs under way and runs to come may not become more, but for one. *)
LEMMA FiredGrows ==
  ASSUME NEW c, NEW x,
         Got(c)' \subseteq Got(c), Owing(c)' \subseteq Owing(c), Ready' \subseteq Ready \cup {x}
  PROVE  /\ Fired(c)' <= Fired(c) + 1
         /\ Ready' \subseteq Ready => Fired(c)' <= Fired(c)
<1>1. PICK G, O, R : G = Got(c)' /\ O = Owing(c)' /\ R = Ready'
  OBVIOUS
<1>2. /\ IsFiniteSet(Got(c)) /\ IsFiniteSet(Owing(c)) /\ IsFiniteSet(Ready)
      /\ Cardinality(Got(c)) \in Nat /\ Cardinality(Owing(c)) \in Nat /\ Cardinality(Ready) \in Nat
      /\ Cardinality(G) \in Nat /\ Cardinality(O) \in Nat /\ Cardinality(R) \in Nat
  BY <1>1, FiredParts
<1>3. Cardinality(G) <= Cardinality(Got(c)) /\ Cardinality(O) <= Cardinality(Owing(c))
  BY <1>1, <1>2, FS_Subset
<1>4. /\ Cardinality(R) <= Cardinality(Ready) + 1
      /\ R \subseteq Ready => Cardinality(R) <= Cardinality(Ready)
  BY <1>1, <1>2, OneMore
<1>5. Fired(c)' = Cardinality(G) + Cardinality(O) + Cardinality(R)
  BY <1>1 DEF Fired
<1>6. Fired(c) = Cardinality(Got(c)) + Cardinality(Owing(c)) + Cardinality(Ready)
  BY DEF Fired
<1> QED BY <1>1, <1>2, <1>3, <1>4, <1>5, <1>6

(* A set that gave one element up. *)
LEMMA OneLess ==
  ASSUME NEW S, NEW T, NEW u \in S, IsFiniteSet(S), T \subseteq S \ {u}
  PROVE  Cardinality(T) <= Cardinality(S) - 1
<1>1. IsFiniteSet(S \ {u}) /\ Cardinality(S \ {u}) = Cardinality(S) - 1
  BY FS_RemoveElement
<1>2. Cardinality(T) <= Cardinality(S \ {u})
  BY <1>1, FS_Subset
<1> QED BY <1>1, <1>2

(* The limit is a number that grows with failures, passes and runs that overtake
   others. *)
LEMMA LimitGrows ==
  ASSUME FiresInv, UNCHANGED world, Spends, day' \in {day, day + 1}, laps' \in {laps, laps + 1}
  PROVE  /\ Limit \in Int /\ Limit' \in Int /\ Limit <= Limit'
         /\ Fault \/ Crash \/ Overtaken' = Overtaken + 1 => Limit + 1 <= Limit'
         /\ Passes' = Passes + 1 => Limit + Cardinality(Backends) <= Limit'
<1>1. Bounds /\ left.requests \in Nat /\ world.requests \in Nat
  BY StoreAssumption DEF FiresInv, WelcomeInv, ImportInv, ImportTypes, Bounds
<1>2. /\ Failures \in Int /\ Failures' \in Int /\ Failures' >= Failures
      /\ Fault \/ Crash => Failures' = Failures + 1
  BY <1>1, FailuresGrow
<1>3. left'.requests \in Nat /\ left'.requests <= left.requests
  BY <1>1 DEF Bounds, Spends, Fault, Crash, Request, Delivery
<1>4. Passes \in Int /\ Passes' \in Int /\ Passes <= Passes'
  <2>1. day \in Nat /\ day' \in Nat /\ day <= day'
    BY DEF FiresInv, FiresTypes
  <2>2. CASE world.trigger = "date_based"
    <3>1. /\ Passes = 1 + world.requests - left.requests
          /\ Passes' = 1 + world.requests - left'.requests
      BY <2>2 DEF Passes
    <3>2. PICK w, l, k : w = world.requests /\ l = left.requests /\ k = left'.requests
      OBVIOUS
    <3>3. w \in Nat /\ l \in Nat /\ k \in Nat /\ k <= l
      BY <1>1, <1>3, <3>2
    <3>4. Passes = 1 + w - l /\ Passes' = 1 + w - k
      BY <3>1, <3>2
    <3> QED BY <3>3, <3>4
  <2>3. CASE world.trigger # "date_based"
    <3>1. Passes = day + 1 /\ Passes' = day' + 1
      BY <2>3 DEF Passes
    <3>2. PICK d, e : d = day /\ e = day'
      OBVIOUS
    <3>3. d \in Nat /\ e \in Nat /\ d <= e
      BY <2>1, <3>2
    <3>4. Passes = d + 1 /\ Passes' = e + 1
      BY <3>1, <3>2
    <3> QED BY <3>3, <3>4
  <2> QED BY <2>2, <2>3
<1>5. PICK n, p, q : n = Cardinality(Backends) /\ p = Passes /\ q = Passes'
  OBVIOUS
<1>6. n \in Nat
  BY <1>5, FS_CardinalityType, StoreAssumption
<1>7. /\ n * p \in Int /\ n * q \in Int /\ n * p <= n * q
      /\ q = p + 1 => n * q = n * p + n
  BY <1>4, <1>5, <1>6, TimesGrows
<1>8. PICK o, r : o = Overtaken /\ r = Overtaken'
  OBVIOUS
<1>9. o \in Int /\ r \in Int /\ o <= r
  BY <1>8 DEF Overtaken, FiresInv, FiresTypes
<1>10. Limit = n * p + Failures + o /\ Limit' = n * q + Failures' + r
  BY <1>5, <1>8 DEF Limit
<1>11. PICK f, g : f = Failures /\ g = Failures'
  OBVIOUS
<1>12. /\ f \in Int /\ g \in Int /\ f <= g /\ (Fault \/ Crash => g = f + 1)
       /\ Limit = n * p + f + o /\ Limit' = n * q + g + r
  BY <1>2, <1>10, <1>11
<1>13. PICK x, y : x = n * p /\ y = n * q
  OBVIOUS
<1>14. /\ x \in Int /\ y \in Int /\ x <= y /\ (q = p + 1 => y = x + n)
       /\ Limit = x + f + o /\ Limit' = y + g + r
  BY <1>7, <1>12, <1>13
<1>15. /\ Limit \in Int /\ Limit' \in Int /\ Limit <= Limit'
       /\ g = f + 1 \/ r = o + 1 => Limit + 1 <= Limit'
       /\ q = p + 1 => Limit + n <= Limit'
  BY <1>6, <1>9, <1>12, <1>14
<1>16. Fault \/ Crash \/ Overtaken' = Overtaken + 1 => g = f + 1 \/ r = o + 1
  BY <1>8, <1>12
<1> QED BY <1>5, <1>15, <1>16

(* What a step has to show of the numbers. *)
LEMMA FiresCounts ==
  ASSUME FiresInv, UNCHANGED world, Spends, day' \in {day, day + 1}, laps' \in {laps, laps + 1},
         world.trigger \in Dated /\ "trigger" \notin world.operations =>
           \A c \in Contacts :
             \/ Fired(c)' <= Fired(c)
             \/ Fired(c)' <= Fired(c) + 1 /\ (Fault \/ Crash \/ Overtaken' = Overtaken + 1)
             \/ Fired(c)' <= Fired(c) + Cardinality(Backends) /\ Passes' = Passes + 1
  PROVE  NotTooOften'
<1> SUFFICES ASSUME world.trigger \in Dated, "trigger" \notin world.operations, NEW c \in Contacts
             PROVE  Fired(c)' <= Limit'
  BY DEF NotTooOften, Dated, Daily
<1>1. Fired(c) <= Limit
  BY DEF FiresInv, NotTooOften
<1>2. Fired(c) \in Nat /\ Fired(c)' \in Nat /\ Cardinality(Backends) \in Nat
  BY FiredParts
<1>3. /\ Limit \in Int /\ Limit' \in Int /\ Limit <= Limit'
      /\ Fault \/ Crash \/ Overtaken' = Overtaken + 1 => Limit + 1 <= Limit'
      /\ Passes' = Passes + 1 => Limit + Cardinality(Backends) <= Limit'
  BY LimitGrows
<1>4. CASE Fired(c)' <= Fired(c)
  BY <1>1, <1>2, <1>3, <1>4
<1>5. CASE Fired(c)' <= Fired(c) + 1 /\ (Fault \/ Crash \/ Overtaken' = Overtaken + 1)
  BY <1>1, <1>2, <1>3, <1>5
<1>6. CASE Fired(c)' <= Fired(c) + Cardinality(Backends) /\ Passes' = Passes + 1
  BY <1>1, <1>2, <1>3, <1>6
<1> QED BY <1>4, <1>5, <1>6

(* Consent that was withdrawn is not given again. *)
ConsentGrows ==
  "optIn" \notin world.operations => \A c \in Contacts : optOut[c] => optOut'[c]

(* Who was reached stays reached. *)
LEMMA ReachedStays ==
  ASSUME FiresInv, UNCHANGED world, ConsentGrows, \A c : Got(c) \subseteq Got(c)',
         world.trigger = "date_based" \/ "optIn" \notin world.operations,
         NEW c \in world.present, Reached(c)
  PROVE  Reached(c)'
<1>1. c \in Contacts
  BY DEF FiresInv, WelcomeInv, ImportInv, ImportTypes
<1> QED BY <1>1 DEF Reached, ConsentGrows

(* What a step has to show of marks and runs. *)
LEMMA FiresMoves ==
  ASSUME FiresInv, WelcomeInv', UNCHANGED world, ConsentGrows,
         "optIn" \notin world.operations => ConsentInv',
         FiresTypes', NotTooOften', \A c : Got(c) \subseteq Got(c)',
         world.trigger \in Dated =>
           /\ config'.fired # Never =>
                \/ config.fired # Never
                \/ \E k \in Runs : LeavesMark /\ cron[k].pc # "idle" /\ cron[k].todo = {}
           /\ LeavesMark => \A k \in Runs : cron'[k].pc # "idle" =>
                \/ cron[k].pc # "idle" /\ \A c \in cron[k].todo : c \in cron'[k].todo \/ Got(c)' # {}
                \/ \A c \in world.present :
                     c \in cron'[k].todo \/ (world.trigger # "date_based" /\ optOut'[c])
  PROVE  FiresInv'
<1>1. Remembered'
  <2> SUFFICES ASSUME world.trigger \in Dated,
                      world.trigger = "date_based" \/ "optIn" \notin world.operations,
                      NEW c \in world.present
               PROVE  /\ config'.fired # Never => Reached(c)'
                      /\ LeavesMark => \A k \in Runs :
                           cron'[k].pc # "idle" => c \in cron'[k].todo \/ Reached(c)'
    BY DEF Remembered, Dated, Daily, LeavesMark
  <2>1. Reached(c) => Reached(c)'
    BY ReachedStays
  <2>2. /\ config.fired # Never => Reached(c)
        /\ LeavesMark => \A k \in Runs : cron[k].pc # "idle" => c \in cron[k].todo \/ Reached(c)
    BY DEF FiresInv, Remembered
  <2>3. config'.fired # Never => Reached(c)'
    BY <2>1, <2>2
  <2>4. ASSUME LeavesMark, NEW k \in Runs, cron'[k].pc # "idle"
        PROVE  c \in cron'[k].todo \/ Reached(c)'
    <3>1. CASE cron[k].pc # "idle" /\ \A d \in cron[k].todo : d \in cron'[k].todo \/ Got(d)' # {}
      <4>1. c \in cron[k].todo => c \in cron'[k].todo \/ Got(c)' # {}
        BY <3>1
      <4>2. Got(c)' # {} => Reached(c)'
        BY DEF Reached
      <4> QED BY <2>1, <2>2, <2>4, <3>1, <4>1, <4>2
    <3>2. CASE \A d \in world.present :
                 d \in cron'[k].todo \/ (world.trigger # "date_based" /\ optOut'[d])
      BY <3>2 DEF Reached
    <3> QED BY <2>4, <3>1, <3>2
  <2> QED BY <2>3, <2>4
<1> QED BY <1>1 DEF FiresInv

(* A step that has nothing to do with executions and dates. *)
LEMMA FiresElsewhere ==
  ASSUME FiresInv, WelcomeInv', ConsentGrows, Spends,
         "optIn" \notin world.operations => ConsentInv',
         UNCHANGED <<world, day, status, config, cron, ran, laps>>,
         \A c : Got(c)' \subseteq Got(c) /\ Got(c) \subseteq Got(c)'
  PROVE  FiresInv'
<1>1. FiresTypes'
  BY DEF FiresInv, FiresTypes, IsDate, LeavesMark
<1>2. NotTooOften'
  <2>1. ASSUME NEW c PROVE Fired(c)' <= Fired(c)
    <3>1. Owing(c)' = Owing(c) /\ Ready' = Ready
      BY DEF Owing, Ready, HasRun
    <3>2. Owing(c)' \subseteq Owing(c) /\ Ready' \subseteq Ready \cup {0}
      BY <3>1
    <3> QED BY <3>1, <3>2, FiredGrows
  <2> QED BY <2>1, FiresCounts
<1>3. config'.fired # Never => config.fired # Never
  OBVIOUS
<1>4. ASSUME NEW k \in Runs, cron'[k].pc # "idle"
      PROVE  cron[k].pc # "idle" /\ \A c \in cron[k].todo : c \in cron'[k].todo \/ Got(c)' # {}
  BY <1>4
<1> QED BY <1>1, <1>2, <1>3, <1>4, FiresMoves

(* Runs of one process end without a mark. *)
LEMMA FiresStops ==
  ASSUME FiresInv, WelcomeInv', Spends, "optIn" \notin world.operations => ConsentInv',
         NEW b, \A a \in Runs : cron'[a] = cron[a] \/ (cron'[a] = NoCron /\ cron[a].by = b),
         Fault \/ Crash \/ status = "gone" \/ world.trigger # "date_based",
         UNCHANGED <<world, day, status, config, ran, laps, exec, mem, optOut>>
  PROVE  FiresInv'
<1>1. NoCron.pc = "idle" /\ IsDate(NoCron.seen)
  BY DEF NoCron, IsDate
<1>2. \A a \in Runs : cron'[a] = cron[a] \/ (cron'[a].pc = "idle" /\ IsDate(cron'[a].seen))
  BY <1>1
<1>3. FiresTypes'
  <2>1. \A a \in Runs : IsDate(cron'[a].seen)
    BY <1>2 DEF FiresInv, FiresTypes
  <2> QED BY <2>1 DEF FiresInv, FiresTypes, IsDate, LeavesMark
<1>4. \A c : Got(c)' = Got(c)
  BY WelcomeSame
<1>5. NotTooOften'
  <2>1. ASSUME NEW c
        PROVE  Fired(c)' <= Fired(c) \/ (Fired(c)' <= Fired(c) + 1 /\ (Fault \/ Crash))
    <3>1. Owing(c)' \subseteq Owing(c)
      BY <1>2 DEF Owing
    <3>2. Ready' \subseteq Ready \cup {b}
      <4>1. ASSUME NEW a, a # b, HasRun(a) PROVE HasRun(a)'
        BY <4>1 DEF HasRun
      <4> QED BY <4>1 DEF Ready
    <3>3. CASE Fault \/ Crash
      BY <1>4, <3>1, <3>2, <3>3, FiredGrows
    <3>4. CASE status = "gone" \/ world.trigger # "date_based"
      <4>1. Ready' \subseteq Ready
        BY <3>4 DEF Ready
      <4> QED BY <1>4, <3>1, <3>2, <4>1, FiredGrows
    <3> QED BY <3>3, <3>4
  <2> QED BY <2>1, FiresCounts
<1>6. ASSUME NEW a \in Runs, cron'[a].pc # "idle"
      PROVE  cron[a].pc # "idle" /\ \A c \in cron[a].todo : c \in cron'[a].todo \/ Got(c)' # {}
  BY <1>2, <1>6
<1>7. ConsentGrows
  BY DEF ConsentGrows
<1> QED BY <1>3, <1>4, <1>5, <1>6, <1>7, FiresMoves

(* One run ends so. *)
LEMMA FiresStopsOne ==
  ASSUME FiresInv, WelcomeInv', Spends, "optIn" \notin world.operations => ConsentInv',
         NEW k \in Runs, CronStops(k),
         Fault \/ Crash \/ status = "gone" \/ world.trigger # "date_based",
         UNCHANGED <<world, day, status, config, ran, laps, exec, mem, optOut>>
  PROVE  FiresInv'
<1>1. DOMAIN cron = Runs
  BY DEF FiresInv, WelcomeInv, PlacedInv, LateInv, Domains
<1>2. PICK b : b = cron[k].by
  OBVIOUS
<1>3. \A a \in Runs : cron'[a] = cron[a] \/ (cron'[a] = NoCron /\ cron[a].by = b)
  BY <1>1, <1>2 DEF CronStops
<1> QED BY <1>3, FiresStops

(* A cron begins: it spends the run it had, or overtakes another of its process. *)
LEMMA FiresBegins ==
  ASSUME FiresInv, WelcomeInv', "optIn" \notin world.operations => ConsentInv',
         NEW k \in Runs, CronFires(k)
  PROVE  FiresInv'
<1>0. /\ UNCHANGED <<world, day, status, config, exec, mem, optOut, left>> /\ Spends
      /\ cron[k].pc = "idle" /\ status = "Active"
  BY DEF CronFires, store, automation, executions, Spends
<1>p. PICK b \in Backends :
        /\ Due(b) /\ ran' = [ran EXCEPT ![b] = day]
        /\ cron' = [cron EXCEPT ![k] = [pc |-> "create", todo |-> Targets, cur |-> 0,
                                       seen |-> config, by |-> b, now |-> day]]
        /\ laps' = IF HasRun(b) THEN laps + 1 ELSE laps
  BY DEF CronFires
<1>1. DOMAIN cron = Runs /\ FiresTypes
  BY DEF FiresInv, WelcomeInv, PlacedInv, LateInv, Domains
<1>2. /\ cron'[k] = [pc |-> "create", todo |-> Targets, cur |-> 0, seen |-> config,
                     by |-> b, now |-> day]
      /\ \A a \in Runs \ {k} : cron'[a] = cron[a]
  BY <1>1, <1>p
<1>3. FiresTypes'
  <2>1. \A a \in Runs : IsDate(cron'[a].seen)
    BY <1>1, <1>2 DEF FiresTypes
  <2>2. ran' \in [Backends -> Int] /\ laps' \in Nat
    BY <1>1, <1>p DEF FiresTypes
  <2> QED BY <1>0, <1>1, <2>1, <2>2 DEF FiresTypes, IsDate, LeavesMark
<1>4. \A c : Got(c)' = Got(c)
  BY <1>0, WelcomeSame
<1>5. NotTooOften'
  <2>1. ASSUME NEW a, HasRun(a) PROVE HasRun(a)'
    BY <1>0, <1>2, <2>1 DEF HasRun
  <2>2. HasRun(b)'
    BY <1>2 DEF HasRun
  <2>3. Ready' \subseteq Ready
    <3>1. CASE world.trigger = "date_based"
      BY <1>0, <2>1, <3>1 DEF Ready
    <3>2. CASE world.trigger # "date_based"
      <4>1. \A a \in Backends : ran'[a] = IF a = b THEN day ELSE ran[a]
        BY <1>1, <1>p DEF FiresTypes
      <4>2. ~(day < day)
        BY <1>1 DEF FiresTypes
      <4> QED BY <1>0, <3>2, <4>1, <4>2 DEF Ready
    <3> QED BY <3>1, <3>2
  <2>4. world.trigger # "date_based" \/ ~HasRun(b) => b \in Ready /\ b \notin Ready'
    <3>1. CASE world.trigger = "date_based"
      BY <1>0, <1>p, <2>2, <3>1 DEF Ready, Due, Daily
    <3>2. CASE world.trigger # "date_based"
      <4>1. ran[b] < day
        BY <1>p, <3>2 DEF Due
      <4>2. ran'[b] = day /\ ~(day < day)
        BY <1>1, <1>p DEF FiresTypes
      <4> QED BY <1>0, <3>2, <4>1, <4>2 DEF Ready
    <3> QED BY <3>1, <3>2
  <2>5. world.trigger = "date_based" /\ HasRun(b) => Overtaken' = Overtaken + 1
    BY <1>0, <1>p DEF Overtaken
  <2>6. ASSUME NEW c
        PROVE  \/ Fired(c)' <= Fired(c)
               \/ Fired(c)' <= Fired(c) + 1 /\ Overtaken' = Overtaken + 1
    <3>1. PICK O, R : O = Owing(c)' /\ R = Ready'
      OBVIOUS
    <3>2. O \subseteq Owing(c) \cup {k}
      BY <1>2, <3>1 DEF Owing
    <3>3. R \subseteq Ready
      BY <2>3, <3>1
    <3>4. /\ IsFiniteSet(Owing(c)) /\ IsFiniteSet(Ready) /\ Cardinality(Got(c)) \in Nat
          /\ Cardinality(Owing(c)) \in Nat /\ Cardinality(Ready) \in Nat
          /\ Cardinality(O) \in Nat /\ Cardinality(R) \in Nat
      BY <3>1, FiredParts
    <3>5. Cardinality(O) <= Cardinality(Owing(c)) + 1
      BY <3>2, <3>4, OneMore
    <3>6. Cardinality(R) <= Cardinality(Ready)
      BY <3>3, <3>4, FS_Subset
    <3>7. Fired(c)' = Cardinality(Got(c)) + Cardinality(O) + Cardinality(R)
      BY <1>4, <3>1 DEF Fired
    <3>8. Fired(c) = Cardinality(Got(c)) + Cardinality(Owing(c)) + Cardinality(Ready)
      BY DEF Fired
    <3>9. CASE world.trigger = "date_based" /\ HasRun(b)
      BY <2>5, <3>4, <3>5, <3>6, <3>7, <3>8, <3>9
    <3>10. CASE world.trigger # "date_based" \/ ~HasRun(b)
      <4>1. b \in Ready /\ R \subseteq Ready \ {b}
        BY <2>4, <3>1, <3>3, <3>10
      <4>2. Cardinality(R) <= Cardinality(Ready) - 1
        BY <3>4, <4>1, OneLess
      <4> QED BY <3>4, <3>5, <3>7, <3>8, <4>2
    <3> QED BY <3>9, <3>10
  <2>7. laps' \in {laps, laps + 1}
    BY <1>p
  <2> QED BY <1>0, <2>6, <2>7, FiresCounts
<1>6. ASSUME LeavesMark, NEW a \in Runs, cron'[a].pc # "idle"
      PROVE  \/ cron[a].pc # "idle" /\ \A c \in cron[a].todo : c \in cron'[a].todo \/ Got(c)' # {}
             \/ \A c \in world.present :
                  c \in cron'[a].todo \/ (world.trigger # "date_based" /\ optOut'[c])
  <2>1. CASE a = k
    <3>1. world.present \subseteq present
      BY DEF FiresInv, WelcomeInv, ImportInv, ImportTypes
    <3>2. \A c \in present : c \in Targets \/ (world.trigger # "date_based" /\ optOut[c])
      BY <1>6 DEF Targets, LeavesMark
    <3> QED BY <1>0, <1>2, <2>1, <3>1, <3>2
  <2>2. CASE a # k
    BY <1>2, <1>6, <2>2
  <2> QED BY <2>1, <2>2
<1>7. ConsentGrows
  BY <1>0 DEF ConsentGrows
<1> QED BY <1>0, <1>3, <1>4, <1>5, <1>6, <1>7, FiresMoves

(* A cron creates an execution: it no longer owes it. *)
LEMMA FiresCreates ==
  ASSUME FiresInv, WelcomeInv', "optIn" \notin world.operations => ConsentInv',
         NEW k \in Runs, NEW e \in Executions, CronCreates(k, e)
  PROVE  FiresInv'
<1>0. /\ UNCHANGED <<world, day, status, config, ran, laps, mem, optOut>>
      /\ cron[k].pc = "create" /\ exec[e].st = "none" /\ mem[e].pc = "idle" /\ Spends
  BY DEF CronCreates, automation, others, Unused, Spends
<1>1. /\ DOMAIN cron = Runs /\ DOMAIN exec = Executions /\ FiresTypes
      /\ IsCron(cron[k])
  BY DEF FiresInv, WelcomeInv, PlacedInv, LateInv, Domains, LateCron
<1>2. CASE /\ status = "gone" \/ Fault
           /\ CronStops(k) /\ UNCHANGED exec
  BY <1>0, <1>2, FiresStopsOne
<1>3. ASSUME NEW d \in cron[k].todo, UNCHANGED left,
             exec' = [exec EXCEPT ![e] = Row("Running", d)],
             cron' = [cron EXCEPT ![k].pc = "add", ![k].cur = e, ![k].todo = @ \ {d}]
      PROVE  FiresInv'
  <2>1. /\ cron'[k].pc = "add" /\ cron'[k].todo = cron[k].todo \ {d} /\ cron'[k].seen = cron[k].seen
        /\ cron'[k].by = cron[k].by
        /\ \A a \in Runs \ {k} : cron'[a] = cron[a]
    BY <1>1, <1>3 DEF IsCron
  <2>2. /\ exec'[e].st = "Running" /\ exec'[e].contact = d
        /\ \A f \in Executions \ {e} : exec'[f] = exec[f]
    BY <1>1, <1>3 DEF Row
  <2>3. ASSUME NEW c PROVE Got(c) \subseteq Got(c)' /\ Got(c)' \subseteq Got(c) \cup {e}
                           /\ (c # d => Got(c)' \subseteq Got(c))
    BY <1>0, <2>2 DEF Got, Given
  <2>4. ASSUME NEW c PROVE Owing(c)' \subseteq Owing(c) /\ Ready' \subseteq Ready
    BY <1>0, <2>1 DEF Owing, Ready, HasRun
  <2>5. FiresTypes'
    <3>1. \A a \in Runs : IsDate(cron'[a].seen)
      BY <1>1, <2>1 DEF FiresTypes
    <3> QED BY <1>0, <1>1, <3>1 DEF FiresTypes, IsDate, LeavesMark
  <2>6. ASSUME NEW c PROVE Fired(c)' <= Fired(c)
    <3>1. CASE c # d
      <4>1. Ready' \subseteq Ready \cup {0}
        BY <2>4
      <4> QED BY <2>3, <2>4, <3>1, <4>1, FiredGrows
    <3>2. CASE c = d
      <4>1. PICK G, O, R : G = Got(c)' /\ O = Owing(c)' /\ R = Ready'
        OBVIOUS
      <4>2. k \in Owing(c)
        BY <1>0, <1>3, <3>2 DEF Owing
      <4>3. O \subseteq Owing(c) \ {k}
        BY <2>1, <2>4, <3>2, <4>1 DEF Owing
      <4>4. /\ IsFiniteSet(Got(c)) /\ IsFiniteSet(Owing(c)) /\ IsFiniteSet(Ready)
            /\ Cardinality(Got(c)) \in Nat /\ Cardinality(Owing(c)) \in Nat /\ Cardinality(Ready) \in Nat
            /\ Cardinality(G) \in Nat /\ Cardinality(O) \in Nat /\ Cardinality(R) \in Nat
        BY <4>1, FiredParts
      <4>5. G \subseteq Got(c) \cup {e} /\ R \subseteq Ready
        BY <2>3, <2>4, <4>1
      <4>6. Cardinality(G) <= Cardinality(Got(c)) + 1
        BY <4>4, <4>5, OneMore
      <4>7. Cardinality(O) <= Cardinality(Owing(c)) - 1
        BY <4>2, <4>3, <4>4, OneLess
      <4>8. Cardinality(R) <= Cardinality(Ready)
        BY <4>4, <4>5, FS_Subset
      <4>9. Fired(c)' = Cardinality(G) + Cardinality(O) + Cardinality(R)
        BY <4>1 DEF Fired
      <4>10. Fired(c) = Cardinality(Got(c)) + Cardinality(Owing(c)) + Cardinality(Ready)
        BY DEF Fired
      <4> QED BY <4>4, <4>6, <4>7, <4>8, <4>9, <4>10
    <3> QED BY <3>1, <3>2
  <2>7. NotTooOften'
    BY <1>0, <2>6, FiresCounts
  <2>8. ASSUME NEW a \in Runs, cron'[a].pc # "idle"
        PROVE  cron[a].pc # "idle" /\ \A c \in cron[a].todo : c \in cron'[a].todo \/ Got(c)' # {}
    <3>1. CASE a = k
      <4>1. e \in Got(d)'
        BY <2>2 DEF Got, Given
      <4> QED BY <1>0, <2>1, <3>1, <4>1
    <3>2. CASE a # k
      BY <2>1, <2>8, <3>2
    <3> QED BY <3>1, <3>2
  <2>9. ConsentGrows
    BY <1>0 DEF ConsentGrows
  <2> QED BY <1>0, <2>3, <2>5, <2>7, <2>8, <2>9, FiresMoves
<1>4. \/ /\ status = "gone" \/ Fault
         /\ CronStops(k) /\ UNCHANGED exec
      \/ /\ UNCHANGED left
         /\ \E d \in cron[k].todo :
              /\ exec' = [exec EXCEPT ![e] = Row("Running", d)]
              /\ cron' = [cron EXCEPT ![k].pc = "add", ![k].cur = e, ![k].todo = @ \ {d}]
  BY DEF CronCreates
<1> QED BY <1>2, <1>3, <1>4

(* The job of an execution is added, or the process dies. *)
LEMMA FiresAdds ==
  ASSUME FiresInv, WelcomeInv', "optIn" \notin world.operations => ConsentInv',
         NEW k \in Runs, CronAdds(k) \/ CronDies(k)
  PROVE  FiresInv'
<1>0. /\ UNCHANGED <<world, day, status, config, ran, laps, exec, mem, optOut>> /\ Spends
      /\ cron[k].pc # "idle"
  BY DEF CronAdds, CronDies, automation, executions, Spends
<1>1. /\ DOMAIN cron = Runs /\ FiresTypes /\ IsCron(cron[k])
  BY DEF FiresInv, WelcomeInv, PlacedInv, LateInv, Domains, LateCron
<1>2. CASE CronStops(k) /\ Fault
  BY <1>0, <1>2, FiresStopsOne
<1>3. CASE cron' = [cron EXCEPT ![k].pc = "create", ![k].cur = 0]
  <2>1. /\ cron'[k].pc = "create" /\ cron'[k].todo = cron[k].todo /\ cron'[k].seen = cron[k].seen
        /\ cron'[k].by = cron[k].by
        /\ \A a \in Runs \ {k} : cron'[a] = cron[a]
    BY <1>1, <1>3 DEF IsCron
  <2>2. \A c : Got(c)' = Got(c)
    BY <1>0, WelcomeSame
  <2>3. \A a \in Runs : /\ cron'[a].todo = cron[a].todo /\ cron'[a].seen = cron[a].seen
                        /\ cron'[a].by = cron[a].by
                        /\ cron'[a].pc = "idle" <=> cron[a].pc = "idle"
    BY <1>0, <2>1
  <2>4. FiresTypes'
    <3>1. \A a \in Runs : IsDate(cron'[a].seen)
      BY <1>1, <2>3 DEF FiresTypes
    <3> QED BY <1>0, <1>1, <3>1 DEF FiresTypes, IsDate, LeavesMark
  <2>5. ASSUME NEW c PROVE Fired(c)' <= Fired(c)
    <3>1. Owing(c)' \subseteq Owing(c) /\ Ready' \subseteq Ready
      BY <1>0, <2>3 DEF Owing, Ready, HasRun
    <3>2. Ready' \subseteq Ready \cup {0}
      BY <3>1
    <3> QED BY <2>2, <3>1, <3>2, FiredGrows
  <2>6. NotTooOften'
    BY <1>0, <2>5, FiresCounts
  <2>7. ASSUME NEW a \in Runs, cron'[a].pc # "idle"
        PROVE  cron[a].pc # "idle" /\ \A c \in cron[a].todo : c \in cron'[a].todo \/ Got(c)' # {}
    BY <2>3, <2>7
  <2>8. ConsentGrows
    BY <1>0 DEF ConsentGrows
  <2> QED BY <1>0, <2>2, <2>4, <2>6, <2>7, <2>8, FiresMoves
<1>4. CASE CronDies(k)
  <2>1. PICK b : b = cron[k].by
    OBVIOUS
  <2>2. \A a \in Runs : cron'[a] = cron[a] \/ (cron'[a] = NoCron /\ cron[a].by = b)
    BY <1>4, <2>1 DEF CronDies
  <2>3. Crash
    BY <1>4 DEF CronDies
  <2> QED BY <1>0, <2>2, <2>3, FiresStops
<1> QED BY <1>2, <1>3, <1>4 DEF CronAdds

(* The mark is left when nobody is on the list of the run any more. *)
LEMMA FiresMarks ==
  ASSUME FiresInv, WelcomeInv', "optIn" \notin world.operations => ConsentInv',
         NEW k \in Runs, CronMarks(k)
  PROVE  FiresInv'
<1>0. /\ UNCHANGED <<world, day, status, ran, laps, exec, mem, optOut>> /\ Spends /\ CronStops(k)
      /\ cron[k].pc = "create" /\ cron[k].todo = {}
  BY DEF CronMarks, executions, Spends
<1>1. /\ DOMAIN cron = Runs /\ FiresTypes
  BY DEF FiresInv, WelcomeInv, PlacedInv, LateInv, Domains
<1>2. CASE UNCHANGED config /\ (Fault \/ status = "gone" \/ world.trigger # "date_based")
  BY <1>0, <1>2, FiresStopsOne
<1>3. ASSUME LeavesMark, NEW f, world.trigger = "date_based" => f = day,
             config' = [cron[k].seen EXCEPT !.fired = f]
      PROVE  FiresInv'
  <2>1. cron'[k] = NoCron /\ \A a \in Runs \ {k} : cron'[a] = cron[a]
    BY <1>0, <1>1 DEF CronStops
  <2>2. NoCron.pc = "idle" /\ IsDate(NoCron.seen)
    BY DEF NoCron, IsDate
  <2>3. IsDate(config') /\ config'.fired = f
    <3>1. PICK s, t : s = cron[k].seen /\ t = config'
      OBVIOUS
    <3>2. s = [date |-> s.date, fired |-> s.fired]
      BY <1>1, <3>1 DEF FiresTypes, IsDate
    <3>3. t = [s EXCEPT !.fired = f]
      BY <1>3, <3>1
    <3>4. t = [date |-> s.date, fired |-> f]
      BY <3>2, <3>3
    <3>5. t.date = s.date /\ t.fired = f
      BY <3>4
    <3> QED BY <3>1, <3>4, <3>5 DEF IsDate
  <2>4. FiresTypes'
    <3>1. \A a \in Runs : IsDate(cron'[a].seen)
      BY <1>1, <2>1, <2>2 DEF FiresTypes
    <3>2. LeavesMark'
      BY <1>0, <1>3 DEF LeavesMark
    <3> QED BY <1>0, <1>1, <2>3, <3>1, <3>2 DEF FiresTypes
  <2>5. \A c : Got(c)' = Got(c)
    BY <1>0, WelcomeSame
  <2>6. ASSUME NEW c PROVE Fired(c)' <= Fired(c)
    <3>1. Owing(c)' \subseteq Owing(c)
      BY <2>1, <2>2 DEF Owing
    <3>2. day # Never
      BY <1>1 DEF FiresTypes, Never
    <3>3. Ready' \subseteq Ready
      BY <1>0, <1>3, <2>3, <3>2 DEF Ready
    <3>4. Ready' \subseteq Ready \cup {0}
      BY <3>3
    <3> QED BY <2>5, <3>1, <3>3, <3>4, FiredGrows
  <2>7. NotTooOften'
    BY <1>0, <2>6, FiresCounts
  <2>8. ASSUME NEW a \in Runs, cron'[a].pc # "idle"
        PROVE  cron[a].pc # "idle" /\ \A c \in cron[a].todo : c \in cron'[a].todo \/ Got(c)' # {}
    BY <2>1, <2>2, <2>8
  <2>9. ConsentGrows
    BY <1>0 DEF ConsentGrows
  <2>10. \E a \in Runs : LeavesMark /\ cron[a].pc # "idle" /\ cron[a].todo = {}
    BY <1>0, <1>3
  <2> QED BY <1>0, <2>4, <2>5, <2>7, <2>8, <2>9, <2>10, FiresMoves
<1>4. CASE LeavesMark /\ status # "gone"
           /\ config' = [cron[k].seen EXCEPT !.fired =
                           IF world.trigger = "date_based" THEN day ELSE cron[k].now]
  <2>1. PICK f : f = IF world.trigger = "date_based" THEN day ELSE cron[k].now
    OBVIOUS
  <2> QED BY <1>3, <1>4, <2>1
<1> QED BY <1>2, <1>4 DEF CronMarks, LeavesMark

(* Requests on the automation: those that turn it off or on, or delete it, begin
   no run. *)
LEMMA FiresRequests ==
  ASSUME FiresInv, WelcomeInv', "optIn" \notin world.operations => ConsentInv',
         NEW r \in Clients, Toggle(r) \/ Delete(r) \/ RequestStep(r)
  PROVE  FiresInv'
<1>0. /\ UNCHANGED <<world, day, config, cron, ran, laps, mem, optOut>> /\ Spends
      /\ status = "gone" => status' = "gone"
  <2>1. CASE Toggle(r) \/ Delete(r)
    BY <2>1 DEF Toggle, Delete, Ask, automation, executions, Spends
  <2>2. CASE WriteToggle(r)
    BY <2>2 DEF WriteToggle, executions, store, Spends
  <2>3. CASE WriteDelete(r)
    BY <2>3 DEF WriteDelete, store, Spends
  <2> QED BY <2>1, <2>2, <2>3 DEF RequestStep
<1>1. ASSUME NEW c PROVE Got(c)' = Got(c)
  <2>1. CASE UNCHANGED <<exec, mem>>
    BY <2>1, WelcomeSame
  <2>2. CASE WriteDelete(r)
    <3>1. \A e \in Executions : /\ exec'[e] = IF HasRow(e) THEN [exec[e] EXCEPT !.st = "gone"] ELSE exec[e]
                                /\ IsRow(exec[e]) /\ mem'[e] = mem[e]
      BY <1>0, <2>2 DEF WriteDelete, FiresInv, WelcomeInv, PlacedInv, LateInv, Late
    <3>2. ASSUME NEW e \in Executions
          PROVE  exec'[e].contact = exec[e].contact /\ (Given(e)' <=> Given(e))
      <4>1. CASE HasRow(e)
        <5>1. exec'[e] = [exec[e] EXCEPT !.st = "gone"] /\ IsRow(exec[e]) /\ exec[e].st # "none"
          BY <3>1, <4>1 DEF HasRow
        <5>2. exec'[e].contact = exec[e].contact /\ exec'[e].st = "gone"
          BY <5>1 DEF IsRow
        <5> QED BY <5>1, <5>2 DEF Given
      <4>2. CASE ~HasRow(e)
        BY <3>1, <4>2 DEF Given
      <4> QED BY <4>1, <4>2
    <3> QED BY <3>2 DEF Got
  <2> QED BY <2>1, <2>2 DEF Toggle, Delete, Ask, RequestStep, WriteToggle, executions
<1>2. FiresTypes'
  BY <1>0 DEF FiresInv, FiresTypes, IsDate, LeavesMark
<1>3. ASSUME NEW c PROVE Fired(c)' <= Fired(c)
  <2>1. Owing(c)' \subseteq Owing(c) /\ Ready' \subseteq Ready
    BY <1>0 DEF Owing, Ready, HasRun
  <2>2. Ready' \subseteq Ready \cup {0}
    BY <2>1
  <2> QED BY <1>1, <2>1, <2>2, FiredGrows
<1>4. NotTooOften'
  BY <1>0, <1>3, FiresCounts
<1>5. config'.fired # Never => config.fired # Never
  BY <1>0
<1>6. ASSUME NEW a \in Runs, cron'[a].pc # "idle"
      PROVE  cron[a].pc # "idle" /\ \A c \in cron[a].todo : c \in cron'[a].todo \/ Got(c)' # {}
  BY <1>0, <1>6
<1>7. ConsentGrows
  BY <1>0 DEF ConsentGrows
<1> QED BY <1>0, <1>1, <1>2, <1>4, <1>5, <1>6, <1>7, FiresMoves

(* One pass more: every process may begin a run again. *)
LEMMA FiresAgain ==
  ASSUME FiresInv, NEW c, Got(c)' \subseteq Got(c), Owing(c)' \subseteq Owing(c)
  PROVE  Fired(c)' <= Fired(c) + Cardinality(Backends)
<1>1. PICK G, O, R : G = Got(c)' /\ O = Owing(c)' /\ R = Ready'
  OBVIOUS
<1>2. /\ IsFiniteSet(Got(c)) /\ IsFiniteSet(Owing(c)) /\ Cardinality(Got(c)) \in Nat
      /\ Cardinality(Owing(c)) \in Nat /\ Cardinality(Ready) \in Nat
      /\ Cardinality(G) \in Nat /\ Cardinality(O) \in Nat /\ Cardinality(R) \in Nat
      /\ Cardinality(Backends) \in Nat /\ Cardinality(R) <= Cardinality(Backends)
  BY <1>1, FiredParts
<1>3. Cardinality(G) <= Cardinality(Got(c)) /\ Cardinality(O) <= Cardinality(Owing(c))
  BY <1>1, <1>2, FS_Subset
<1>4. Fired(c)' = Cardinality(G) + Cardinality(O) + Cardinality(R)
  BY <1>1 DEF Fired
<1>5. Fired(c) = Cardinality(Got(c)) + Cardinality(Owing(c)) + Cardinality(Ready)
  BY DEF Fired
<1> QED BY <1>2, <1>3, <1>4, <1>5

(* A new date takes the mark away. *)
LEMMA FiresDated ==
  ASSUME FiresInv, WelcomeInv', "optIn" \notin world.operations => ConsentInv',
         NEW d \in 0..MaxDay, SetDate(d)
  PROVE  FiresInv'
<1>0. /\ UNCHANGED <<world, day, cron, ran, laps, exec, mem, optOut>> /\ Request /\ Spends
      /\ config' = [date |-> d, fired |-> Never]
  BY DEF SetDate, executions, firing, Spends
<1>1. IsDate(config') /\ config'.fired = Never
  BY <1>0 DEF IsDate
<1>2. FiresTypes'
  BY <1>0, <1>1 DEF FiresInv, FiresTypes, IsDate, LeavesMark
<1>3. \A c : Got(c)' = Got(c) /\ Owing(c)' = Owing(c)
  BY <1>0, WelcomeSame DEF Owing
<1>4. ASSUME NEW c, world.trigger # "date_based" PROVE Fired(c)' <= Fired(c)
  <2>1. Ready' \subseteq Ready
    BY <1>0, <1>4 DEF Ready
  <2>2. Owing(c)' \subseteq Owing(c) /\ Got(c)' \subseteq Got(c) /\ Ready' \subseteq Ready \cup {0}
    BY <1>3, <2>1
  <2> QED BY <2>1, <2>2, FiredGrows
<1>5. ASSUME NEW c, world.trigger = "date_based"
      PROVE  Fired(c)' <= Fired(c) + Cardinality(Backends) /\ Passes' = Passes + 1
  <2>1. Bounds
    BY DEF FiresInv, WelcomeInv, ImportInv, ImportTypes, Bounds
  <2>2. left.requests \in Nat /\ left'.requests = left.requests - 1 /\ world.requests \in Nat
    BY <1>0, <2>1, StoreAssumption DEF Bounds, Request
  <2>3. Passes = 1 + world.requests - left.requests /\ Passes' = 1 + world.requests - left'.requests
    BY <1>0, <1>5 DEF Passes
  <2>4. Passes' = Passes + 1
    BY <2>2, <2>3
  <2> QED BY <1>3, <2>4, FiresAgain
<1>6. NotTooOften'
  BY <1>0, <1>4, <1>5, FiresCounts
<1>7. ASSUME NEW a \in Runs, cron'[a].pc # "idle"
      PROVE  cron[a].pc # "idle" /\ \A c \in cron[a].todo : c \in cron'[a].todo \/ Got(c)' # {}
  BY <1>0, <1>7
<1>8. ConsentGrows
  BY <1>0 DEF ConsentGrows
<1> QED BY <1>0, <1>1, <1>2, <1>3, <1>6, <1>7, <1>8, FiresMoves

(* A day passes: automations for every day run again. *)
LEMMA FiresTick ==
  ASSUME FiresInv, WelcomeInv', "optIn" \notin world.operations => ConsentInv', Tick
  PROVE  FiresInv'
<1>0. /\ UNCHANGED <<world, status, config, cron, ran, laps, exec, mem, optOut>> /\ Spends
      /\ day' = day + 1 /\ day \in Nat
  BY DEF Tick, automationVars, automation, executions, firing, Spends, FiresInv, FiresTypes
<1>1. FiresTypes'
  <2>1. day' \in Nat
    BY <1>0
  <2> QED BY <1>0, <2>1 DEF FiresInv, FiresTypes, IsDate, LeavesMark
<1>2. \A c : Got(c)' = Got(c) /\ Owing(c)' = Owing(c)
  BY <1>0, WelcomeSame DEF Owing
<1>3. ASSUME NEW c, world.trigger = "date_based" PROVE Fired(c)' <= Fired(c)
  <2>1. Ready' \subseteq Ready
    BY <1>0, <1>3 DEF Ready, HasRun
  <2>2. Owing(c)' \subseteq Owing(c) /\ Got(c)' \subseteq Got(c) /\ Ready' \subseteq Ready \cup {0}
    BY <1>2, <2>1
  <2> QED BY <2>1, <2>2, FiredGrows
<1>4. ASSUME NEW c, world.trigger # "date_based"
      PROVE  Fired(c)' <= Fired(c) + Cardinality(Backends) /\ Passes' = Passes + 1
  <2>1. Passes = day + 1 /\ Passes' = day' + 1
    BY <1>0, <1>4 DEF Passes
  <2>2. Passes' = Passes + 1
    BY <1>0, <2>1
  <2> QED BY <1>2, <2>2, FiresAgain
<1>5. NotTooOften'
  BY <1>0, <1>3, <1>4, FiresCounts
<1>6. ASSUME NEW a \in Runs, cron'[a].pc # "idle"
      PROVE  cron[a].pc # "idle" /\ \A c \in cron[a].todo : c \in cron'[a].todo \/ Got(c)' # {}
  BY <1>0, <1>6
<1>7. config'.fired # Never => config.fired # Never
  BY <1>0
<1>8. ConsentGrows
  BY <1>0 DEF ConsentGrows
<1> QED BY <1>0, <1>1, <1>2, <1>5, <1>6, <1>7, <1>8, FiresMoves

(* Another trigger, or one that clients may pull by hand. *)
LEMMA FiresByHand ==
  ASSUME FiresInv, WelcomeInv', ConsentGrows, Spends,
         "optIn" \notin world.operations => ConsentInv',
         UNCHANGED <<world, day, status, config, cron, ran, laps>>,
         world.trigger \notin Dated \/ "trigger" \in world.operations,
         \A c : Got(c) \subseteq Got(c)'
  PROVE  FiresInv'
<1>1. FiresTypes'
  BY DEF FiresInv, FiresTypes, IsDate, LeavesMark
<1>2. NotTooOften'
  BY FiresCounts
<1>3. ASSUME NEW k \in Runs, cron'[k].pc # "idle"
      PROVE  cron[k].pc # "idle" /\ \A c \in cron[k].todo : c \in cron'[k].todo \/ Got(c)' # {}
  BY <1>3
<1>4. config'.fired # Never => config.fired # Never
  OBVIOUS
<1> QED BY <1>1, <1>2, <1>3, <1>4, FiresMoves

(* Listeners and requests: what they start is not about dates, or by hand. *)
LEMMA FiresStarts ==
  ASSUME FiresInv, WelcomeInv', "optIn" \notin world.operations => ConsentInv',
         NEW e \in Executions,
         (\E i \in DOMAIN events : Listen(e, i)) \/ (\E c \in Contacts : Trigger(e, c))
  PROVE  FiresInv'
<1>0. /\ UNCHANGED <<world, day, status, config, cron, ran, laps, optOut>> /\ Spends
      /\ exec[e].st = "none" /\ mem[e].pc = "idle"
  BY DEF Listen, Trigger, automation, firing, Unused, Spends
<1>1. ConsentGrows
  BY <1>0 DEF ConsentGrows
<1>2. DOMAIN exec = Executions /\ DOMAIN mem = Executions /\ AreEvents(events)
  BY DEF FiresInv, WelcomeInv, PlacedInv, LateInv, Domains
<1>3. ASSUME \A f \in Executions \ {e} : exec'[f] = exec[f] /\ mem'[f] = mem[f]
      PROVE  \A c : Got(c) \subseteq Got(c)'
  BY <1>0, <1>3 DEF Got, Given
<1>4. ASSUME NEW i \in DOMAIN events, Listen(e, i) PROVE FiresInv'
  <2>1. CASE UNCHANGED <<exec, mem>>
    <3>1. \A c : Got(c)' = Got(c)
      BY <2>1, WelcomeSame
    <3> QED BY <1>0, <1>1, <3>1, FiresElsewhere
  <2>2. CASE /\ world.trigger = events[i].kind
             /\ exec' = [exec EXCEPT ![e].contact = events[i].contact] /\ Goto(e, "found")
    <3>1. events' = RemoveAt(events, i)
      BY <1>4 DEF Listen
    <3>2. IsEvent(events[i])
      BY <1>2, <3>1, EventTaken
    <3>3. world.trigger \notin Dated
      BY <2>2, <3>2 DEF IsEvent, EventKinds, Dated, Daily
    <3>4. \A f \in Executions \ {e} : exec'[f] = exec[f] /\ mem'[f] = mem[f]
      BY <1>2, <2>2 DEF Goto
    <3> QED BY <1>0, <1>1, <1>3, <3>3, <3>4, FiresByHand
  <2> QED BY <1>4, <2>1, <2>2 DEF Listen
<1>5. ASSUME NEW c \in Contacts, Trigger(e, c) PROVE FiresInv'
  <2>1. "trigger" \in world.operations
    BY <1>5 DEF Trigger
  <2>2. \A f \in Executions \ {e} : exec'[f] = exec[f] /\ mem'[f] = mem[f]
    BY <1>2, <1>5 DEF Trigger, Goto
  <2> QED BY <1>0, <1>1, <1>3, <2>1, <2>2, FiresByHand
<1> QED BY <1>4, <1>5

(* Automations: listeners, requests, workers and crons. *)
LEMMA FiresAutomations ==
  ASSUME FiresInv, WelcomeInv', "optIn" \notin world.operations => ConsentInv', AutomationsNext
  PROVE  FiresInv'
<1>0. UNCHANGED <<world, day, optOut>> /\ Spends /\ PlacedInv
  BY AutomationsFrame, AutomationsSpend DEF FiresInv, WelcomeInv
<1>1. ConsentGrows
  BY <1>0 DEF ConsentGrows
<1>2. ASSUME NEW e \in Executions,
             \/ CreateRow(e) \/ AddJob(e) \/ FiringDies(e) \/ TakeJob(e) \/ WorkerDies(e)
             \/ WorkerStep(e)
      PROVE  FiresInv'
  <2>1. \A c : Got(c)' \subseteq Got(c) /\ Got(c) \subseteq Got(c)'
    BY <1>0, <1>2, ExecutionKeeps
  <2>2. UNCHANGED <<status, config, cron, ran, laps>>
    <3>1. CASE CreateRow(e) \/ AddJob(e) \/ FiringDies(e)
      BY <3>1 DEF CreateRow, AddJob, FiringDies, automation, firing
    <3>2. CASE TakeJob(e) \/ WorkerDies(e)
      BY <3>2 DEF TakeJob, WorkerDies, automation, firing
    <3>3. CASE WorkerStep(e)
      BY <3>3 DEF WorkerStep, Load, Enter, Send, Pay, RecordNode, RecordMessage, ScheduleRetry,
                  Requeue, TagContact, Branch, Wait, Finish, Return, Throw, MarkFailed,
                  Elsewhere, automation, firing
    <3> QED BY <1>2, <3>1, <3>2, <3>3
  <2> QED BY <1>0, <1>1, <2>1, <2>2, FiresElsewhere
<1>3. ASSUME NEW e \in Executions,
             (\E i \in DOMAIN events : Listen(e, i)) \/ (\E c \in Contacts : Trigger(e, c))
      PROVE  FiresInv'
  BY <1>3, FiresStarts
<1>4. ASSUME NEW k \in Runs, CronFires(k) \/ CronStep(k) \/ CronDies(k) PROVE FiresInv'
  <2>1. CASE CronFires(k)
    BY <2>1, FiresBegins
  <2>2. ASSUME NEW e \in Executions, CronCreates(k, e) PROVE FiresInv'
    BY <2>2, FiresCreates
  <2>3. CASE CronAdds(k) \/ CronDies(k)
    BY <2>3, FiresAdds
  <2>4. CASE CronMarks(k)
    BY <2>4, FiresMarks
  <2> QED BY <1>4, <2>1, <2>2, <2>3, <2>4 DEF CronStep
<1>5. ASSUME NEW r \in Clients, Toggle(r) \/ Delete(r) \/ RequestStep(r) PROVE FiresInv'
  BY <1>5, FiresRequests
<1>6. ASSUME NEW d \in 0..MaxDay, SetDate(d) PROVE FiresInv'
  BY <1>6, FiresDated
<1> QED BY <1>2, <1>3, <1>4, <1>5, <1>6 DEF AutomationsNext

(* Without the request that gives consent no step of the account takes a
   withdrawal back. *)
LEMMA ConsentStays ==
  ASSUME "optIn" \notin world.operations => ConsentInv, [Next]_vars
  PROVE  ConsentGrows
<1> SUFFICES ASSUME "optIn" \notin world.operations PROVE \A c \in Contacts : optOut[c] => optOut'[c]
  BY DEF ConsentGrows
<1>0. /\ ConsentInv /\ optOut \in [Contacts -> BOOLEAN]
      /\ \A d \in Lanes : lane[d].at # "idle" => To(d) \in Contacts
  BY DEF ConsentInv, ConsentTypes, To
<1>1. CASE UNCHANGED optOut
  BY <1>1
<1>2. ASSUME NEW c, optOut' = [optOut EXCEPT ![c] = TRUE]
      PROVE  \A b \in Contacts : optOut[b] => optOut'[b]
  BY <1>0, <1>2
<1>3. CASE DeliveryNext
  <2>1. ASSUME NEW m \in world.messages, ReceiveCard(m) PROVE UNCHANGED optOut
    BY <2>1 DEF ReceiveCard
  <2>2. ASSUME NEW m \in world.messages, NEW d \in Lanes, NEW c \in Contacts, Receive(d, m, c)
        PROVE  UNCHANGED optOut
    BY <2>2 DEF Receive
  <2>3. ASSUME NEW d \in Lanes, LaneStep(d) \/ LaneFails(d)
        PROVE  \A b \in Contacts : optOut[b] => optOut'[b]
    <3>1. CASE BouncedOptOut(d) \/ TrackUnsubscribe(d) \/ ResendUnsubscribe(d)
      BY <1>2, <3>1 DEF BouncedOptOut, TrackUnsubscribe, ResendUnsubscribe
    <3>2. CASE EmailWrite(d) \/ ResendOpen(d) \/ ResendClick(d) \/ ResendBounce(d) \/ ResendMark(d)
      BY <1>1, <3>2 DEF EmailWrite, ResendOpen, ResendClick, ResendBounce, ResendMark
    <3>3. CASE Count(d) \/ Log(d) \/ TrackOpen(d) \/ TrackClick(d) \/ LaneFails(d)
      BY <1>1, <3>3 DEF Count, Log, TrackOpen, TrackClick, LaneFails
    <3>4. CASE Sms(d)
      <4>1. PICK v : v = (optOut[To(d)] \/ lane[d].kind = "stop")
        OBVIOUS
      <4>2. v \in BOOLEAN /\ (optOut[To(d)] => v) /\ To(d) \in Contacts
            /\ optOut' = [optOut EXCEPT ![To(d)] = v]
        BY <1>0, <3>4, <4>1 DEF Sms, At
      <4> QED BY <1>0, <4>2, OptedOut
    <3> QED BY <2>3, <3>1, <3>2, <3>3, <3>4 DEF LaneStep
  <2> QED BY <1>1, <1>3, <2>1, <2>2, <2>3 DEF DeliveryNext
<1>4. CASE BookNext
  <2>1. ASSUME NEW a \in Callers, CreateContact(a) \/ Announce(a) \/ MatchNext(a) \/ MatchBefore(a)
        PROVE  UNCHANGED optOut
    <3>1. CASE CreateContact(a) \/ Announce(a)
      BY <3>1 DEF CreateContact, Announce
    <3>2. CASE MatchNext(a)
      BY <3>2 DEF MatchNext
    <3>3. CASE MatchBefore(a)
      BY <3>3 DEF MatchBefore
    <3> QED BY <2>1, <3>1, <3>2, <3>3
  <2>2. ASSUME NEW a \in Callers, UpdateContact(a) PROVE UNCHANGED optOut
    BY <1>0, <2>2 DEF UpdateContact, ConsentInv, NotAsked
  <2>3. ASSUME NEW a \in Callers, OptOut(a) PROVE \A b \in Contacts : optOut[b] => optOut'[b]
    BY <1>2, <2>3 DEF OptOut
  <2>4. ASSUME NEW a \in Callers, FormFails(a) PROVE UNCHANGED optOut
    BY <2>4 DEF FormFails
  <2>5. ASSUME NEW a \in Callers, NEW op, NEW c, NEW T, AskContact(a, op, c, T) PROVE UNCHANGED optOut
    BY <2>5 DEF AskContact
  <2>6. ASSUME NEW b \in Backends, CountStep(b) \/ CountThrows(b) \/ CountDies(b) PROVE UNCHANGED optOut
    BY <2>6 DEF CountStep, CountThrows, CountDies, TakeRecalculation, CountMatching, WriteCount
  <2>7. CASE JobArrives \/ JobIsLost
    BY <1>1, <2>7 DEF JobArrives, JobIsLost
  <2> QED BY <1>1, <1>4, <2>1, <2>2, <2>3, <2>4, <2>5, <2>6, <2>7 DEF BookNext, FormStep
<1>5. CASE AutomationsNext
  BY <1>1, <1>5, AutomationsFrame
<1>6. CASE ImportNext
  BY <1>1, <1>6, ImportFrame DEF Apart
<1>7. CASE ApiNext
  BY <1>1, <1>7, ApiFrame DEF Aside
<1>8. CASE VisaNext
  BY <1>1, <1>8, VisaFrame DEF Away
<1>9. CASE Tick \/ UNCHANGED vars
  BY <1>1, <1>9 DEF Tick, vars, store
<1> QED BY <1>3, <1>4, <1>5, <1>6, <1>7, <1>8, <1>9 DEF Next

(* Every step of the account keeps the invariant of automations with a date. *)
LEMMA FiresInductive == FiresInv /\ [Next]_vars => FiresInv'
<1> SUFFICES ASSUME FiresInv, [Next]_vars PROVE FiresInv'
  OBVIOUS
<1>1. WelcomeInv' /\ UNCHANGED world
  BY WelcomeInductive, WorldStays DEF FiresInv
<1>2. "optIn" \notin world.operations => ConsentInv'
  BY ConsentInductive DEF FiresInv
<1>3. ConsentGrows
  BY ConsentStays DEF FiresInv
<1>4. ASSUME UNCHANGED <<exec, mem, day, status, config, cron, ran, laps>>, Spends PROVE FiresInv'
  <2>1. \A c : Got(c)' \subseteq Got(c) /\ Got(c) \subseteq Got(c)'
    BY <1>4, WelcomeSame
  <2> QED BY <1>1, <1>2, <1>3, <1>4, <2>1, FiresElsewhere
<1>5. CASE AutomationsNext
  BY <1>1, <1>2, <1>5, FiresAutomations
<1>6. CASE ImportNext
  BY <1>4, <1>6, ImportFrame, ImportSpends DEF Apart, automationVars, automation, executions, firing
<1>7. CASE DeliveryNext
  BY <1>4, <1>7, DeliveryFrame, DeliverySpends DEF Beside, automationVars, automation, executions, firing
<1>8. CASE BookNext
  BY <1>4, <1>8, BookFrame, BookSpends DEF Around, automationVars, automation, executions, firing
<1>9. CASE ApiNext
  BY <1>4, <1>9, ApiFrame, ApiSpends DEF Aside, automationVars, automation, executions, firing
<1>10. CASE VisaNext
  BY <1>4, <1>10, VisaFrame, VisaSpends DEF Away, automationVars, automation, executions, firing
<1>11. CASE Tick
  BY <1>1, <1>2, <1>11, FiresTick
<1>12. CASE UNCHANGED vars
  BY <1>4, <1>12 DEF vars, store, automationVars, automation, executions, firing, Spends
<1> QED BY <1>5, <1>6, <1>7, <1>8, <1>9, <1>10, <1>11, <1>12 DEF Next

(* It holds before any run: each process may begin one. *)
LEMMA FiresInit == Init => FiresInv
<1> SUFFICES ASSUME Init PROVE FiresInv
  OBVIOUS
<1>1. /\ world \in Worlds /\ day = 0 /\ laps = 0 /\ left.requests = world.requests
      /\ left.faults = world.faults /\ left.crashes = world.crashes
      /\ config = [date |-> 0, fired |-> Never] /\ ran = [b \in Backends |-> Never]
      /\ exec = [e \in Executions |-> Row("none", Min(Contacts))]
      /\ mem = [e \in Executions |-> [pc |-> "idle", at |-> 0, tags |-> {}]]
      /\ cron = [k \in Runs |-> NoCron]
  BY DEF Init, StoreInit, AutomationsInit
<1>2. WelcomeInv /\ ("optIn" \notin world.operations => ConsentInv)
  BY WelcomeInit, ConsentInit
<1>3. \A k \in Runs : cron[k].pc = "idle" /\ IsDate(cron[k].seen)
  BY <1>1 DEF NoCron, IsDate
<1>4. FiresTypes
  BY <1>1, <1>3 DEF FiresTypes, IsDate, Never
<1>5. Passes = 1 /\ Failures = 0
  <2>1. {world.requests, world.faults, world.crashes} \subseteq Nat
    BY <1>1, StoreAssumption
  <2> QED BY <1>1, <2>1 DEF Passes, Failures
<1>6. ASSUME NEW c PROVE Fired(c) <= Limit
  <2>1. Got(c) = {} /\ Owing(c) = {}
    BY <1>1, <1>3 DEF Got, Given, Row, Owing
  <2>2. Cardinality({}) = 0
    BY FS_EmptySet
  <2>3. Ready \subseteq Backends /\ IsFiniteSet(Backends)
    BY StoreAssumption DEF Ready
  <2>4. /\ Cardinality(Ready) <= Cardinality(Backends)
        /\ Cardinality(Ready) \in Nat /\ Cardinality(Backends) \in Nat
    BY <2>3, FS_Subset, FS_CardinalityType
  <2>5. Fired(c) = 0 + 0 + Cardinality(Ready)
    BY <2>1, <2>2 DEF Fired
  <2>6. Limit = Cardinality(Backends) * 1 + 0 + 0
    BY <1>1, <1>5 DEF Limit, Overtaken
  <2> QED BY <2>4, <2>5, <2>6
<1>7. NotTooOften
  BY <1>6 DEF NotTooOften
<1>8. Remembered
  BY <1>1, <1>3 DEF Remembered
<1> QED BY <1>2, <1>4, <1>7, <1>8 DEF FiresInv

(* Whatever runs of the crons overlap, of one process or of several, fail half way and are repeated,
   and whatever date is set meanwhile, an automation with a date gives a contact no
   more executions than there are processes and dates, and failures; and it leaves
   its mark only when everyone it is for was given one. *)
THEOREM FiresStaysOnce == Spec => []FiresOnce
<1>1. ASSUME FiresInv PROVE FiresOnce
  <2> SUFFICES ASSUME world.trigger \in Dated
               PROVE  /\ "trigger" \notin world.operations =>
                           \A c \in Contacts : Fires(c) <= Cardinality(Backends) * Passes + Failures + Overtaken
                      /\ world.trigger = "date_based" \/ "optIn" \notin world.operations =>
                           \A c \in world.present : config.fired # Never =>
                             Fires(c) > 0 \/ (world.trigger # "date_based" /\ optOut[c])
    BY DEF FiresOnce, Dated
  <2>1. \A c : Fires(c) = Cardinality(Got(c))
    BY DEF Fires, Got, Given
  <2>2. ASSUME "trigger" \notin world.operations, NEW c \in Contacts
        PROVE  Fires(c) <= Cardinality(Backends) * Passes + Failures + Overtaken
    <3>1. Fired(c) <= Limit
      BY <1>1, <2>2 DEF FiresInv, NotTooOften
    <3>2. /\ Cardinality(Got(c)) \in Nat /\ Cardinality(Owing(c)) \in Nat /\ Cardinality(Ready) \in Nat
      BY FiredParts
    <3>3. Limit \in Int
      <4>1. Bounds /\ Cardinality(Backends) \in Nat
        BY <1>1, FiredParts DEF FiresInv, WelcomeInv, ImportInv, ImportTypes, Bounds
      <4>2. Failures \in Int
        BY <4>1, FailuresAreInt
      <4>3. left.requests \in Nat /\ world.requests \in Nat /\ day \in Nat
        BY <1>1, <4>1, StoreAssumption DEF Bounds, FiresInv, FiresTypes
      <4>4. Passes \in Int
        BY <4>3 DEF Passes
      <4>5. Overtaken \in Int
        BY <1>1 DEF Overtaken, FiresInv, FiresTypes
      <4> QED BY <4>1, <4>2, <4>4, <4>5 DEF Limit
    <3>4. Fired(c) = Cardinality(Got(c)) + Cardinality(Owing(c)) + Cardinality(Ready)
      BY DEF Fired
    <3>5. Cardinality(Got(c)) <= Limit
      BY <3>1, <3>2, <3>3, <3>4
    <3> QED BY <2>1, <3>5 DEF Limit
  <2>3. ASSUME world.trigger = "date_based" \/ "optIn" \notin world.operations,
               NEW c \in world.present, config.fired # Never
        PROVE  Fires(c) > 0 \/ (world.trigger # "date_based" /\ optOut[c])
    <3>1. Reached(c)
      BY <1>1, <2>3 DEF FiresInv, Remembered
    <3>2. IsFiniteSet(Got(c)) /\ Cardinality(Got(c)) \in Nat
      BY FiredParts
    <3>3. Got(c) # {} => Cardinality(Got(c)) # 0
      BY <3>2, FS_EmptySet
    <3> QED BY <2>1, <3>1, <3>2, <3>3 DEF Reached
  <2> QED BY <2>2, <2>3
<1> QED BY <1>1, FiresInit, FiresInductive, PTL DEF Spec

=============================================================================
