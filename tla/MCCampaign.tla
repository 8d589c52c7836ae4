------------------------------ MODULE MCCampaign ------------------------------
(***************************************************************************)
(* Values for model checking the campaign subsystem, and the inductive     *)
(* invariants of its proofs.                                               *)
(***************************************************************************)
EXTENDS CampaignSendProofs, TLC

MCAll == {Contacts}
WorkerSymmetry == Permutations(Workers)

=============================================================================
