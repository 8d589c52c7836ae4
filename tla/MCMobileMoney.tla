----------------------------- MODULE MCMobileMoney -----------------------------
(***************************************************************************)
(* Values for model checking MobileMoney, and the invariant its proofs     *)
(* rest on.                                                                *)
(***************************************************************************)
EXTENDS MobileMoneyProofs

=============================================================================
