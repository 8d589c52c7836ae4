---------------------------- MODULE PaymentLedger ----------------------------
(***************************************************************************)
(* What recharging an account promises: a payment that was paid is claimed *)
(* by one handler at a time, and not any more once it was credited; a      *)
(* handler credits what it claimed, once, or loses the claim.              *)
(***************************************************************************)
EXTENDS Naturals

CONSTANTS Payments, Handlers
VARIABLES
  paid,      \* the payments that were paid
  claimed,   \* payment -> who is about to credit it
  credited   \* payment -> how often it was

Init ==
  /\ paid = {}
  /\ claimed = [p \in Payments |-> {}]
  /\ credited = [p \in Payments |-> 0]

Pay(p) == p \notin paid /\ paid' = paid \cup {p} /\ UNCHANGED <<claimed, credited>>

Claim(h, p) ==
  /\ p \in paid /\ claimed[p] = {} /\ credited[p] = 0
  /\ claimed' = [claimed EXCEPT ![p] = {h}]
  /\ UNCHANGED <<paid, credited>>

Credit(h, p) ==
  /\ claimed[p] = {h}
  /\ claimed' = [claimed EXCEPT ![p] = {}]
  /\ credited' = [credited EXCEPT ![p] = @ + 1]
  /\ UNCHANGED paid

Lose(h, p) ==
  /\ claimed[p] = {h}
  /\ claimed' = [claimed EXCEPT ![p] = {}]
  /\ UNCHANGED <<paid, credited>>

Next ==
  \E p \in Payments :
    \/ Pay(p)
    \/ \E h \in Handlers : Claim(h, p) \/ Credit(h, p) \/ Lose(h, p)

Spec == Init /\ [][Next]_<<paid, claimed, credited>>

=============================================================================
