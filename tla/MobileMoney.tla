------------------------------ MODULE MobileMoney ------------------------------
(***************************************************************************)
(* Recharging an account by mobile money (mobile-money/).  A payment is    *)
(* known to us by a row, and to the operator (NovaSend) by a payin of its  *)
(* own; four things may settle the row and credit the account: the client  *)
(* that confirms, the client that polls, the operator's webhook, and the   *)
(* reconciliation cron of each backend process.                            *)
(*                                                                         *)
(* `increment` on the balance is atomic, so the balance is the sum of the  *)
(* amounts credited, and what is kept here is how often each payment was.  *)
(*                                                                         *)
(* Provider calls go through a circuit breaker, which counts exceptions;   *)
(* the provider turns every failure into an answer, so it stays closed.    *)
(***************************************************************************)
EXTENDS Integers

CONSTANTS
  Payments,     \* the payments asked for
  NoPayment,    \* what an idle handler is on
  Clients,      \* HTTP requests being served
  Webhooks,     \* deliveries of the operator's webhook being served
  Reconcilers,  \* backend processes, each with the cron
  MaxErrors,    \* calls to the operator answered by an HTTP or network error
  MaxDeaths     \* handlers cut short: the process dies, or the database throws

ASSUME HandlersAreDistinct ==
  Clients \cap Webhooks = {} /\ Clients \cap Reconcilers = {} /\ Webhooks \cap Reconcilers = {}
ASSUME NoPaymentIsNone == NoPayment \notin Payments
ASSUME BoundsAreNaturals == MaxErrors \in Nat /\ MaxDeaths \in Nat

VARIABLES
  row,        \* MobileMoneyTransaction.status, "none" before the row exists
  ext,        \* externalTransactionId: "none", "payin" (the operator's id), or
              \* "own" (our id, which means nothing to the operator)
  aged,       \* the row is more than 15 minutes old
  payin,      \* the operator's side: "none", "pending", "processed", "failed"
  pc, on, by, ref,   \* per handler: where it is, the payment, why, the id it read
  settled,    \* payment -> credits that followed a successful updateMany
  confirmed,  \* payment -> credits that followed confirmTransaction
  errors, deaths

Handlers == Clients \cup Webhooks \cup Reconcilers

rows == <<row, ext, aged>>
handlerVars == <<pc, on, by, ref>>
credits == <<settled, confirmed>>
vars == <<rows, payin, handlerVars, credits, errors, deaths>>

RowStatus == {"none", "pending", "completed", "failed"}
Ids == {"none", "own", "payin"}
PayinStatus == {"none", "pending", "processed", "failed"}
PC == {"idle", "start", "started", "refused", "complete", "ask", "settle", "fail", "credit"}
Reasons == {"none", "initiate", "session", "confirm", "poll", "webhook", "cron"}

-----------------------------------------------------------------------------

(* A handler takes up payment p. *)
Begin(h, p, at, reason) ==
  /\ pc[h] = "idle"
  /\ pc' = [pc EXCEPT ![h] = at]
  /\ on' = [on EXCEPT ![h] = p]
  /\ by' = [by EXCEPT ![h] = reason]
  /\ ref' = [ref EXCEPT ![h] = ext[p]]

Goto(h, at) == pc' = [pc EXCEPT ![h] = at] /\ UNCHANGED <<on, by, ref>>

End(h) ==
  /\ pc' = [pc EXCEPT ![h] = "idle"]
  /\ on' = [on EXCEPT ![h] = NoPayment]
  /\ by' = [by EXCEPT ![h] = "none"]
  /\ ref' = [ref EXCEPT ![h] = "none"]

SetRow(p, status, id) ==
  /\ row' = [row EXCEPT ![p] = status]
  /\ ext' = [ext EXCEPT ![p] = id]
  /\ UNCHANGED aged

-----------------------------------------------------------------------------
(* initiateTransaction, createPaymentSession *)

Create(h, p) ==
  /\ row[p] = "none"
  /\ \E reason \in {"initiate", "session"} : Begin(h, p, "start", reason)
  /\ SetRow(p, "pending", "none")
  /\ UNCHANGED <<payin, credits, errors, deaths>>

(* The operator takes the payment or refuses it; when the answer is lost, the
   provider reports a failure although it was taken. *)
AskOperator(h) ==
  /\ pc[h] = "start"
  /\ \/ /\ payin' = [payin EXCEPT ![on[h]] = "pending"]
        /\ \/ Goto(h, "started") /\ UNCHANGED errors
           \/ Goto(h, "refused") /\ errors < MaxErrors /\ errors' = errors + 1
     \/ Goto(h, "refused") /\ UNCHANGED <<payin, errors>>
  /\ UNCHANGED <<rows, credits, deaths>>

(* The row is written whatever became of it meanwhile. *)
RecordStarted(h) ==
  /\ pc[h] = "started"
  /\ SetRow(on[h], "pending", "payin")
  /\ End(h)
  /\ UNCHANGED <<payin, credits, errors, deaths>>

RecordRefused(h) ==
  /\ pc[h] = "refused"
  /\ SetRow(on[h], "failed", IF by[h] = "session" THEN "none" ELSE ext[on[h]])
  /\ End(h)
  /\ UNCHANGED <<payin, credits, errors, deaths>>

-----------------------------------------------------------------------------
(* confirmTransaction.  The operator's answer does not depend on the payment:
   the provider answers by itself. *)

Confirm(h, p) ==
  /\ row[p] = "pending"
  /\ \E answer \in {"complete", "fail"} : Begin(h, p, answer, "confirm")
  /\ UNCHANGED <<rows, payin, credits, errors, deaths>>

(* Mutant: the balance is forgotten. *)
CompleteWithoutCredit(h) ==
  /\ pc[h] = "complete"
  /\ SetRow(on[h], "completed", IF ref[h] = "none" THEN "own" ELSE ref[h])
  /\ End(h)
  /\ UNCHANGED <<payin, credits, errors, deaths>>

(* The row is updated without a condition, with the id that was asked about. *)
Complete(h) ==
  /\ pc[h] = "complete"
  /\ SetRow(on[h], "completed", IF ref[h] = "none" THEN "own" ELSE ref[h])
  /\ Goto(h, "credit")
  /\ UNCHANGED <<payin, credits, errors, deaths>>

-----------------------------------------------------------------------------
(* pollTransactionStatus, reconcilePendingTransactions, handleWebhook *)

(* A row that is settled is answered without asking the operator. *)
Poll(h, p) ==
  /\ row[p] = "pending"
  /\ Begin(h, p, "ask", "poll")
  /\ UNCHANGED <<rows, payin, credits, errors, deaths>>

(* Mutant: the cutoff is compared the wrong way round. *)
ReconcileFresh(h, p) ==
  /\ row[p] = "pending" /\ ~aged[p] /\ ext[p] # "none"
  /\ Begin(h, p, "ask", "cron")
  /\ UNCHANGED <<rows, payin, credits, errors, deaths>>

(* The cron handles the rows it read one after the other; what it does to one
   does not depend on the others. *)
Reconcile(h, p) ==
  /\ row[p] = "pending" /\ aged[p] /\ ext[p] # "none"
  /\ Begin(h, p, "ask", "cron")
  /\ UNCHANGED <<rows, payin, credits, errors, deaths>>

(* getStatus.  The operator is asked with the id that was read; an id it does
   not know, and any error of the call, comes out as "failed". *)
Answer(h) ==
  IF ref[h] # "payin" \/ payin[on[h]] = "failed" THEN "fail"
  ELSE IF payin[on[h]] = "processed" THEN "settle" ELSE "idle"

Ask(h) ==
  /\ pc[h] = "ask"
  /\ \/ /\ IF Answer(h) = "idle" THEN End(h) ELSE Goto(h, Answer(h))
        /\ UNCHANGED errors
     \/ Goto(h, "fail") /\ errors < MaxErrors /\ errors' = errors + 1
  /\ UNCHANGED <<rows, payin, credits, deaths>>

(* Mutant: the status in the webhook is not looked at. *)
NotifyAnything(h, p) ==
  /\ row[p] = "pending" /\ ext[p] = "payin"
  /\ Begin(h, p, "settle", "webhook")
  /\ UNCHANGED <<rows, payin, credits, errors, deaths>>

(* The webhook finds its row by the operator's id; it says "processed", any
   other is ignored.  It is believed as it stands; a secret is asked for only if
   one is configured, and what is assumed here is that it tells the truth. *)
Notify(h, p) ==
  /\ payin[p] = "processed"
  /\ row[p] = "pending" /\ ext[p] = "payin"
  /\ Begin(h, p, "settle", "webhook")
  /\ UNCHANGED <<rows, payin, credits, errors, deaths>>

(* Mutant: the row is updated without a condition. *)
SettleAnyway(h) ==
  /\ pc[h] = "settle"
  /\ SetRow(on[h], "completed", ext[on[h]])
  /\ Goto(h, "credit")
  /\ UNCHANGED <<payin, credits, errors, deaths>>

(* Mutant: only a completed row is left alone. *)
SettleUnlessCompleted(h) ==
  /\ pc[h] = "settle"
  /\ IF row[on[h]] # "completed"
       THEN SetRow(on[h], "completed", ext[on[h]]) /\ Goto(h, "credit")
       ELSE End(h) /\ UNCHANGED rows
  /\ UNCHANGED <<payin, credits, errors, deaths>>

(* updateMany where status = 'pending': only who changed the row credits. *)
Settle(h) ==
  /\ pc[h] = "settle"
  /\ IF row[on[h]] = "pending"
       THEN SetRow(on[h], "completed", ext[on[h]]) /\ Goto(h, "credit")
       ELSE End(h) /\ UNCHANGED rows
  /\ UNCHANGED <<payin, credits, errors, deaths>>

(* Mutant: the operator's word is stored as it is. *)
FailAsExpired(h) ==
  /\ pc[h] = "fail"
  /\ SetRow(on[h], "expired", ext[on[h]])
  /\ End(h)
  /\ UNCHANGED <<payin, credits, errors, deaths>>

(* Without a condition, here and in confirmTransaction. *)
Fail(h) ==
  /\ pc[h] = "fail"
  /\ SetRow(on[h], "failed", ext[on[h]])
  /\ End(h)
  /\ UNCHANGED <<payin, credits, errors, deaths>>

-----------------------------------------------------------------------------
(* updateAccountBalance, and the same update in the other two places *)

Credit(h) ==
  /\ pc[h] = "credit"
  /\ IF by[h] = "confirm"
       THEN confirmed' = [confirmed EXCEPT ![on[h]] = @ + 1] /\ UNCHANGED settled
       ELSE settled' = [settled EXCEPT ![on[h]] = @ + 1] /\ UNCHANGED confirmed
  /\ End(h)
  /\ UNCHANGED <<rows, payin, errors, deaths>>

Dies(h) ==
  /\ pc[h] # "idle"
  /\ deaths < MaxDeaths /\ deaths' = deaths + 1
  /\ End(h)
  /\ UNCHANGED <<rows, payin, credits, errors>>

-----------------------------------------------------------------------------
(* The world *)

(* The payer pays at the operator's, or does not in time. *)
OperatorDecides(p) ==
  /\ payin[p] = "pending"
  /\ \E outcome \in {"processed", "failed"} : payin' = [payin EXCEPT ![p] = outcome]
  /\ UNCHANGED <<rows, handlerVars, credits, errors, deaths>>

Age(p) ==
  /\ row[p] # "none" /\ ~aged[p]
  /\ aged' = [aged EXCEPT ![p] = TRUE]
  /\ UNCHANGED <<row, ext, payin, handlerVars, credits, errors, deaths>>

Init ==
  /\ row = [p \in Payments |-> "none"]
  /\ ext = [p \in Payments |-> "none"]
  /\ aged = [p \in Payments |-> FALSE]
  /\ payin = [p \in Payments |-> "none"]
  /\ pc = [h \in Handlers |-> "idle"]
  /\ on = [h \in Handlers |-> NoPayment]
  /\ by = [h \in Handlers |-> "none"]
  /\ ref = [h \in Handlers |-> "none"]
  /\ settled = [p \in Payments |-> 0]
  /\ confirmed = [p \in Payments |-> 0]
  /\ errors = 0 /\ deaths = 0

Step(h) ==
  \/ AskOperator(h) \/ RecordStarted(h) \/ RecordRefused(h)
  \/ Complete(h) \/ Ask(h) \/ Settle(h) \/ Fail(h) \/ Credit(h)

Next ==
  \/ \E h \in Clients, p \in Payments : Create(h, p) \/ Confirm(h, p) \/ Poll(h, p)
  \/ \E h \in Webhooks, p \in Payments : Notify(h, p)
  \/ \E h \in Reconcilers, p \in Payments : Reconcile(h, p)
  \/ \E h \in Handlers : Step(h) \/ Dies(h)
  \/ \E p \in Payments : OperatorDecides(p) \/ Age(p)

Spec == Init /\ [][Next]_vars

(* A handler that is alive goes on, time passes, and each run of the cron gets
   to every pending row.  Nothing is assumed of clients, of the operator, or
   of the delivery of its webhook. *)
Fairness ==
  /\ \A h \in Handlers : WF_vars(Step(h))
  /\ \A p \in Payments : WF_vars(Age(p))
  /\ \A h \in Reconcilers, p \in Payments : SF_vars(Reconcile(h, p))

FairSpec == Spec /\ Fairness

-----------------------------------------------------------------------------
(* Every variable holds a value of its kind. *)
TypeOK ==
  /\ row \in [Payments -> RowStatus] /\ ext \in [Payments -> Ids]
  /\ aged \in [Payments -> BOOLEAN]
  /\ payin \in [Payments -> PayinStatus]
  /\ pc \in [Handlers -> PC]
  /\ on \in [Handlers -> Payments \cup {NoPayment}]
  /\ \A h \in Handlers : pc[h] # "idle" => on[h] \in Payments
  /\ by \in [Handlers -> Reasons] /\ ref \in [Handlers -> Ids]
  /\ settled \in [Payments -> Nat] /\ confirmed \in [Payments -> Nat]
  /\ errors \in Nat /\ deaths \in Nat

(* Polling, webhooks and crons credit a payment at most once between them,
   however they interleave, whoever dies, and whatever the request that starts
   the payment, or confirms it, writes meanwhile. *)
SettledOnce == \A p \in Payments : settled[p] <= 1

(* They credit only what was paid. *)
SettledOnlyIfPaid == \A p \in Payments : settled[p] > 0 => payin[p] = "processed"

(* Polling, webhooks and crons together do what PaymentLedger says: no two of
   them are about to credit a payment at once, none begins to after it was
   credited, and each credits what it changed the row of, once or not at all. *)
Claimants(p) == {h \in Handlers : pc[h] = "credit" /\ by[h] # "confirm" /\ on[h] = p}
Ledger == INSTANCE PaymentLedger WITH
  paid <- {p \in Payments : payin[p] = "processed"},
  claimed <- [p \in Payments |-> Claimants(p)],
  credited <- settled
KeepsLedger == Ledger!Spec

(* A payment shown as completed was credited, or is about to be, unless a
   handler died in between. *)
CompletedIsCredited ==
  \A p \in Payments :
    row[p] = "completed" =>
      \/ settled[p] + confirmed[p] > 0
      \/ \E h \in Handlers : pc[h] = "credit" /\ on[h] = p
      \/ deaths > 0

(* The balance is credited once per payment (mobile-money.service.spec.ts,
   "rejette une transaction deja completee"). *)
CreditedOnce == \A p \in Payments : settled[p] + confirmed[p] <= 1

(* A payment the operator knows, and has decided about, does not stay pending,
   even if its webhook is lost and the client never asks. *)
Decided(p) == row[p] = "pending" /\ ext[p] = "payin" /\ payin[p] \in {"processed", "failed"}
Settles == \A p \in Payments : Decided(p) ~> ~Decided(p)

=============================================================================
