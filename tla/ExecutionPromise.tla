---------------------------- MODULE ExecutionPromise ----------------------------
(***************************************************************************)
(* What an automation promises of its executions, without jobs, workers,   *)
(* nodes and retries: messages go out while an execution is running, what  *)
(* ended stays ended and sends nothing more, and deleting the automation   *)
(* takes them all, but for the one message that each may have in hand.     *)
(***************************************************************************)
EXTENDS Naturals

CONSTANT Executions
VARIABLES
  outcome,  \* execution -> where it stands
  sent,     \* execution -> messages that went out
  deleted,  \* whether the automation was deleted
  parted    \* executions that sent a message after that

vars == <<outcome, sent, deleted, parted>>

Init ==
  /\ outcome = [e \in Executions |-> "none"]
  /\ sent = [e \in Executions |-> 0]
  /\ deleted = FALSE /\ parted = {}

Start(e) ==
  /\ ~deleted /\ outcome[e] = "none"
  /\ outcome' = [outcome EXCEPT ![e] = "Running"]
  /\ UNCHANGED <<sent, deleted, parted>>

(* What was to start it failed, or found no automation. *)
Drop(e) ==
  /\ outcome[e] = "none"
  /\ outcome' = [outcome EXCEPT ![e] = "gone"]
  /\ UNCHANGED <<sent, deleted, parted>>

Write(e) ==
  /\ outcome[e] = "Running"
  /\ sent' = [sent EXCEPT ![e] = @ + 1]
  /\ UNCHANGED <<outcome, deleted, parted>>

(* The message it had in hand when the automation was deleted. *)
Part(e) ==
  /\ deleted /\ outcome[e] = "gone" /\ e \notin parted
  /\ sent' = [sent EXCEPT ![e] = @ + 1]
  /\ parted' = parted \cup {e}
  /\ UNCHANGED <<outcome, deleted>>

End(e) ==
  /\ outcome[e] = "Running"
  /\ \E o \in {"Completed", "Failed"} : outcome' = [outcome EXCEPT ![e] = o]
  /\ UNCHANGED <<sent, deleted, parted>>

Delete ==
  /\ ~deleted /\ deleted' = TRUE
  /\ outcome' = [e \in Executions |-> IF outcome[e] = "none" THEN "none" ELSE "gone"]
  /\ UNCHANGED <<sent, parted>>

Next ==
  \/ \E e \in Executions : Start(e) \/ Drop(e) \/ Write(e) \/ Part(e) \/ End(e)
  \/ Delete

Spec == Init /\ [][Next]_vars

=============================================================================
