---------------------------- MODULE CampaignPromise ----------------------------
(***************************************************************************)
(* What sending a campaign promises, without queues, workers or chunks:    *)
(* every contact the campaign takes on gets one outcome, which is then     *)
(* final, and the campaign is finished when none is waiting.               *)
(***************************************************************************)
CONSTANT Contacts
VARIABLES outcome, finished

Init == outcome = [c \in Contacts |-> "none"] /\ finished = FALSE

(* The contacts of the segment are taken on together. *)
TakeOn(who) ==
  /\ who # {}
  /\ \A c \in who : outcome[c] = "none"
  /\ outcome' = [c \in Contacts |-> IF c \in who THEN "waiting" ELSE outcome[c]]
  /\ UNCHANGED finished

Resolve(c) ==
  /\ outcome[c] = "waiting"
  /\ \E o \in {"sent", "bounced", "unsubscribed"} :
       outcome' = [outcome EXCEPT ![c] = o]
  /\ UNCHANGED finished

Finish ==
  /\ \A c \in Contacts : outcome[c] # "waiting"
  /\ finished' = TRUE
  /\ UNCHANGED outcome

Next == (\E who \in SUBSET Contacts : TakeOn(who)) \/ (\E c \in Contacts : Resolve(c)) \/ Finish

Spec == Init /\ [][Next]_<<outcome, finished>>

=============================================================================
