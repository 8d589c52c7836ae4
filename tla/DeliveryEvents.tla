---------------------------- MODULE DeliveryEvents ----------------------------
(***************************************************************************)
(* What becomes of the messages of a campaign once they left: webhooks of  *)
(* the mail and SMS providers (webhooks/webhook.service.ts), tracking      *)
(* links (track/track.service.ts), and the webhook of card payments.       *)
(*                                                                         *)
(* Each of them may arrive more than once, in any order, several at a      *)
(* time.  A Send row is named by its contact.                              *)
(***************************************************************************)
EXTENDS ContactImport

SendStatus == {"PENDING", "SENT", "OPENED", "CLICKED", "BOUNCED", "UNSUBSCRIBED"}
NoLane == [at |-> "idle", src |-> "none", kind |-> "none", contact |-> Min(Contacts), seen |-> "SENT"]

(* What a webhook or a link leaves alone. *)
Beside == <<world, present, tags, day, automationVars, importVars, bookVars, apiVars,
            visaVars>>

Step(d, at) == lane' = [lane EXCEPT ![d].at = at]
Served(d) == lane' = [lane EXCEPT ![d] = NoLane]
At(d, at, src, kinds) == lane[d].at = at /\ lane[d].src = src /\ lane[d].kind \in kinds
To(d) == lane[d].contact

-----------------------------------------------------------------------------

(* The row is read; a link that was followed before ends there. *)
FollowedBefore(src, kind, c) ==
  \/ src = "link" /\ kind = "open" /\ c \in opened
  \/ src = "link" /\ kind = "click" /\ c \in clicked
  \/ src = "link" /\ kind = "unsubscribe" /\ optOut[c]

Receive(d, m, c) ==
  /\ lane[d].at = "idle" /\ Delivery
  /\ m.src # "card" /\ c \in present
  /\ lane' = [lane EXCEPT ![d] =
       IF FollowedBefore(m.src, m.kind, c) THEN NoLane
       ELSE [at |-> "write", src |-> m.src, kind |-> m.kind, contact |-> c, seen |-> send[c]]]
  /\ UNCHANGED <<Beside, optOut, balance, analytic, events, send, opened, clicked, counts, cards>>

(* Mutant: the credit is added before the event is looked at. *)
ReceiveAnyCard(m) ==
  /\ m.src = "card" /\ Delivery
  /\ balance' = balance + CardAmount
  /\ cards' = IF m.kind = "succeeded" THEN cards + 1 ELSE cards
  /\ UNCHANGED <<Beside, optOut, analytic, events, send, opened, clicked, counts, lane>>

(* receiveStripeWebhook: one transaction, each time it is delivered. *)
ReceiveCard(m) ==
  /\ m.src = "card" /\ Delivery
  /\ IF m.kind = "succeeded"
       THEN balance' = balance + CardAmount /\ cards' = cards + 1
       ELSE UNCHANGED <<balance, cards>>
  /\ UNCHANGED <<Beside, optOut, analytic, events, send, opened, clicked, counts, lane>>

-----------------------------------------------------------------------------
(* receiveWebhook: handleEmailSent, handleEmailOpened, handleEmailClicked and
   handleEmailBounced write whatever the row says. *)

EmailStatus ==
  [sent |-> "SENT", open |-> "OPENED", click |-> "CLICKED", hard |-> "BOUNCED", soft |-> "BOUNCED"]

EmailWrite(d) ==
  /\ At(d, "write", "email", DOMAIN EmailStatus)
  /\ send' = [send EXCEPT ![To(d)] = EmailStatus[lane[d].kind]]
  /\ opened' = IF lane[d].kind = "open" THEN opened \cup {To(d)} ELSE opened
  /\ clicked' = IF lane[d].kind = "click" THEN clicked \cup {To(d)} ELSE clicked
  /\ Step(d, "count")
  /\ UNCHANGED <<Beside, optOut, balance, analytic, events, left, counts, cards>>

(* Only a hard bounce or a complaint withdraws consent. *)
BouncedOptOut(d) ==
  /\ At(d, "log", "email", {"hard"})
  /\ optOut' = [optOut EXCEPT ![To(d)] = TRUE]
  /\ Served(d)
  /\ UNCHANGED <<Beside, balance, analytic, events, left, send, opened, clicked, counts, cards>>

-----------------------------------------------------------------------------
(* receiveResendWebhook *)

(* Mutant: the row is updated without a condition. *)
ResendOpenAgain(d) ==
  /\ At(d, "write", "resend", {"open"})
  /\ opened' = opened \cup {To(d)}
  /\ send' = [send EXCEPT ![To(d)] = IF lane[d].seen = "CLICKED" THEN "CLICKED" ELSE "OPENED"]
  /\ Step(d, "count")
  /\ UNCHANGED <<Beside, optOut, balance, analytic, events, left, clicked, counts, cards>>

(* updateMany where openedAt is null; the status depends on the one read. *)
ResendOpen(d) ==
  /\ At(d, "write", "resend", {"open"})
  /\ IF To(d) \notin opened
       THEN /\ opened' = opened \cup {To(d)}
            /\ send' = [send EXCEPT ![To(d)] = IF lane[d].seen = "CLICKED" THEN "CLICKED" ELSE "OPENED"]
            /\ Step(d, "count")
       ELSE Served(d) /\ UNCHANGED <<send, opened>>
  /\ UNCHANGED <<Beside, optOut, balance, analytic, events, left, clicked, counts, cards>>

ResendClick(d) ==
  /\ At(d, "write", "resend", {"click"})
  /\ IF To(d) \notin clicked
       THEN /\ clicked' = clicked \cup {To(d)}
            /\ send' = [send EXCEPT ![To(d)] = "CLICKED"]
            /\ Step(d, "count")
       ELSE Served(d) /\ UNCHANGED <<send, clicked>>
  /\ UNCHANGED <<Beside, optOut, balance, analytic, events, left, opened, counts, cards>>

ResendBounce(d) ==
  /\ At(d, "write", "resend", {"bounce"})
  /\ IF send[To(d)] # "BOUNCED"
       THEN send' = [send EXCEPT ![To(d)] = "BOUNCED"] /\ Step(d, "count")
       ELSE Served(d) /\ UNCHANGED send
  /\ UNCHANGED <<Beside, optOut, balance, analytic, events, left, opened, clicked, counts, cards>>

(* Mutant: the row first. *)
ResendUnsubscribeRow(d) ==
  /\ At(d, "write", "resend", {"unsubscribe"})
  /\ send' = [send EXCEPT ![To(d)] = "UNSUBSCRIBED"]
  /\ Step(d, "mark")
  /\ UNCHANGED <<Beside, optOut, balance, analytic, events, left, opened, clicked, counts, cards>>

(* Consent first, then the row. *)
ResendUnsubscribe(d) ==
  /\ At(d, "write", "resend", {"unsubscribe"})
  /\ optOut' = [optOut EXCEPT ![To(d)] = TRUE]
  /\ Step(d, "mark")
  /\ UNCHANGED <<Beside, balance, analytic, events, left, send, opened, clicked, counts, cards>>

ResendMark(d) ==
  /\ At(d, "mark", "resend", {"unsubscribe"})
  /\ send' = [send EXCEPT ![To(d)] = "UNSUBSCRIBED"]
  /\ Served(d)
  /\ UNCHANGED <<Beside, optOut, balance, analytic, events, left, opened, clicked, counts, cards>>

-----------------------------------------------------------------------------
(* The second and third statement of both: the campaign's counter, then the
   Analytic row.  Only receiveWebhook emits an event. *)

Counter ==
  [sent |-> "sent", open |-> "opened", click |-> "clicked",
   hard |-> "failed", soft |-> "failed", bounce |-> "failed"]

Count(d) ==
  /\ lane[d].at = "count"
  /\ counts' = [counts EXCEPT ![Counter[lane[d].kind]] = @ + 1]
  /\ IF lane[d].kind \in {"open", "click", "hard"} THEN Step(d, "log") ELSE Served(d)
  /\ UNCHANGED <<Beside, optOut, balance, analytic, events, left, send, opened, clicked, cards>>

Log(d) ==
  /\ lane[d].at = "log" /\ lane[d].kind \in {"open", "click"}
  /\ analytic' = IF lane[d].kind = "open" THEN analytic \cup {To(d)} ELSE analytic
  /\ IF lane[d].src = "email"
       THEN Emit(IF lane[d].kind = "open" THEN "campaign_opened" ELSE "link_clicked", To(d))
       ELSE UNCHANGED events
  /\ Served(d)
  /\ UNCHANGED <<Beside, optOut, balance, left, send, opened, clicked, counts, cards>>

-----------------------------------------------------------------------------
(* receiveSmsWebhook: one transaction *)

Sms(d) ==
  LET c == To(d)  stop == lane[d].kind = "stop" IN
  /\ At(d, "write", "sms", {"stop", "failed"})
  /\ optOut' = [optOut EXCEPT ![c] = @ \/ stop]
  /\ send' = [send EXCEPT ![c] =
       IF stop /\ @ \in {"SENT", "OPENED", "CLICKED"} THEN "UNSUBSCRIBED"
       ELSE IF ~stop /\ @ \in {"PENDING", "SENT"} THEN "BOUNCED" ELSE @]
  /\ Served(d)
  /\ UNCHANGED <<Beside, balance, analytic, events, left, opened, clicked, counts, cards>>

-----------------------------------------------------------------------------
(* trackOpen and trackClick write in one transaction what trackOpen or
   trackClick read before; trackUnsubscribe writes consent. *)

(* Mutant: a send that was clicked is taken for one that was counted. *)
TrackOpenUnlessClicked(d) ==
  /\ At(d, "write", "link", {"open"})
  /\ opened' = opened \cup {To(d)}
  /\ send' = [send EXCEPT ![To(d)] = IF lane[d].seen = "CLICKED" THEN "CLICKED" ELSE "OPENED"]
  /\ counts' = IF lane[d].seen = "CLICKED" THEN counts ELSE [counts EXCEPT !.opened = @ + 1]
  /\ analytic' = analytic \cup {To(d)}
  /\ Served(d)
  /\ UNCHANGED <<Beside, optOut, balance, events, left, clicked, cards>>

TrackOpen(d) ==
  /\ At(d, "write", "link", {"open"})
  /\ opened' = opened \cup {To(d)}
  /\ send' = [send EXCEPT ![To(d)] = IF lane[d].seen = "CLICKED" THEN "CLICKED" ELSE "OPENED"]
  /\ counts' = [counts EXCEPT !.opened = @ + 1]
  /\ analytic' = analytic \cup {To(d)}
  /\ Served(d)
  /\ UNCHANGED <<Beside, optOut, balance, events, left, clicked, cards>>

TrackClick(d) ==
  /\ At(d, "write", "link", {"click"})
  /\ clicked' = clicked \cup {To(d)}
  /\ send' = [send EXCEPT ![To(d)] = "CLICKED"]
  /\ counts' = [counts EXCEPT !.clicked = @ + 1]
  /\ Served(d)
  /\ UNCHANGED <<Beside, optOut, balance, analytic, events, left, opened, cards>>

TrackUnsubscribe(d) ==
  /\ At(d, "write", "link", {"unsubscribe"})
  /\ optOut' = [optOut EXCEPT ![To(d)] = TRUE]
  /\ Served(d)
  /\ UNCHANGED <<Beside, balance, analytic, events, left, send, opened, clicked, counts, cards>>

-----------------------------------------------------------------------------

(* A statement throws or the process dies; whoever called may call again. *)
LaneFails(d) ==
  /\ lane[d].at # "idle" /\ (Fault \/ Crash)
  /\ Served(d)
  /\ UNCHANGED <<Beside, optOut, balance, analytic, events, send, opened, clicked, counts, cards>>

LaneStep(d) ==
  \/ EmailWrite(d) \/ BouncedOptOut(d) \/ ResendOpen(d) \/ ResendClick(d)
  \/ ResendBounce(d) \/ ResendUnsubscribe(d) \/ ResendMark(d) \/ Count(d) \/ Log(d)
  \/ Sms(d) \/ TrackOpen(d) \/ TrackClick(d) \/ TrackUnsubscribe(d)

DeliveryInit ==
  /\ send = [c \in Contacts |-> "SENT"]
  /\ opened = {} /\ clicked = {}
  /\ counts = [sent |-> 0, opened |-> 0, clicked |-> 0, failed |-> 0]
  /\ cards = 0
  /\ lane = [d \in Lanes |-> NoLane]

DeliveryNext ==
  \/ \E m \in world.messages :
       ReceiveCard(m) \/ \E d \in Lanes, c \in Contacts : Receive(d, m, c)
  \/ \E d \in Lanes : LaneStep(d) \/ LaneFails(d)

=============================================================================
