------------------------------ MODULE Engagement ------------------------------
(***************************************************************************)
(* Imports, automations, delivery events, card payments, the contact book  *)
(* and the public API of an account, over the rows they share: an import   *)
(* or a request adds contacts and starts automations, a webhook starts     *)
(* others and withdraws consent, messages use up the credit and payments   *)
(* fill it.                                                                *)
(***************************************************************************)
EXTENDS CardPayments

vars == <<store, automationVars, others>>

Init ==
  StoreInit /\ AutomationsInit /\ ImportInit /\ DeliveryInit /\ BookInit /\ ApiInit /\ VisaInit

(* A day passes, in worlds that are about dates. *)
Tick ==
  /\ day < world.lastDay
  /\ day' = day + 1
  /\ UNCHANGED <<world, present, tags, optOut, balance, analytic, events, left,
                 automationVars, others>>

Next ==
  \/ AutomationsNext
  \/ ImportNext
  \/ DeliveryNext
  \/ BookNext
  \/ ApiNext
  \/ VisaNext
  \/ Tick

Spec == Init /\ [][Next]_vars

(* Whatever works on an execution takes its next step: the listener that
   creates it, BullMQ that hands out its job, the worker.  These follow one
   another, so one fairness condition covers them; the same goes for the
   crons.  Nothing is assumed of clients, providers, payers, faults and
   crashes, nor of imports and webhooks: what is promised of executions does
   not depend on them. *)
ExecutionStep(e) ==
  \/ \E i \in DOMAIN events : Listen(e, i)
  \/ CreateRow(e) \/ AddJob(e) \/ TakeJob(e) \/ WorkerStep(e)

Fairness ==
  /\ \A e \in Executions : WF_vars(ExecutionStep(e))
  /\ \A k \in Runs : WF_vars(CronFires(k) \/ CronStep(k))

FairSpec == Spec /\ Fairness

=============================================================================
