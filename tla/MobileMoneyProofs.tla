--------------------------- MODULE MobileMoneyProofs ---------------------------
(***************************************************************************)
(* For any payments, handlers, errors and deaths: polling, webhooks and    *)
(* crons credit a payment at most once, and only if it was paid.           *)
(*                                                                         *)
(* A payment is credited by who finds its row pending and takes it out of  *)
(* that state, so it could be credited again only if the row became        *)
(* pending again.  One step does that, RecordStarted.  The invariant says  *)
(* why it is never late: until it is done nobody holds the operator's id,  *)
(* and without that id nobody gets to settle.                              *)
(***************************************************************************)
EXTENDS MobileMoney, TLAPS

(* h is the request that starts p, and has not written its result. *)
Starting(h, p) == pc[h] \in {"start", "started", "refused"} /\ on[h] = p

(* h took p out of pending and is about to credit it. *)
Crediting(h, p) == pc[h] = "credit" /\ by[h] # "confirm" /\ on[h] = p

Untouched(p) == settled[p] = 0 /\ \A h \in Handlers : ~Crediting(h, p)

HandlersMakeSense ==
  \A h \in Handlers :
    /\ pc[h] # "idle" => row[on[h]] # "none"
    /\ pc[h] \in {"ask", "settle"} => by[h] # "confirm"
    /\ pc[h] = "complete" => by[h] = "confirm"
    /\ pc[h] = "settle" => ref[h] = "payin" /\ payin[on[h]] = "processed"
    /\ pc[h] = "start" => payin[on[h]] = "none"

StartIsAlone ==
  \A h \in Handlers, p \in Payments :
    Starting(h, p) =>
      /\ Untouched(p)
      /\ ext[p] # "payin"
      /\ \A g \in Handlers :
           pc[g] # "idle" /\ on[g] = p =>
             ref[g] # "payin" /\ (Starting(g, p) => g = h)

RowsMakeSense ==
  \A p \in Payments :
    /\ row[p] \in {"none", "pending"} => Untouched(p)
    /\ row[p] = "none" => payin[p] = "none" /\ ext[p] = "none"

CreditsMakeSense ==
  \A p \in Payments :
    /\ settled[p] \in {0, 1}
    /\ settled[p] = 1 => payin[p] = "processed"
    /\ \A h \in Handlers :
         Crediting(h, p) =>
           /\ settled[p] = 0
           /\ payin[p] = "processed"
           /\ \A g \in Handlers : Crediting(g, p) => g = h

IInv ==
  /\ TypeOK
  /\ HandlersMakeSense
  /\ StartIsAlone
  /\ RowsMakeSense
  /\ CreditsMakeSense

-----------------------------------------------------------------------------
(* Types *)

(* Initially every variable holds a value of its kind. *)
LEMMA InitTypeOK == Init => TypeOK
  BY BoundsAreNaturals DEF Init, TypeOK, Handlers, RowStatus, Ids, PayinStatus, PC, Reasons

(* No step of any handler, of the operator or of time writes anything else. *)
LEMMA NextTypeOK == TypeOK /\ [Next]_vars => TypeOK'
<1> SUFFICES ASSUME TypeOK, [Next]_vars PROVE TypeOK'
  OBVIOUS
<1> USE DEF TypeOK, rows, handlerVars, credits
<1>1. ASSUME NEW h \in Clients, NEW p \in Payments, Create(h, p) PROVE TypeOK'
  BY <1>1, NoPaymentIsNone DEF Create, Begin, SetRow, Handlers, RowStatus, Ids, PC, Reasons
<1>2. ASSUME NEW h \in Clients, NEW p \in Payments, Confirm(h, p) PROVE TypeOK'
  BY <1>2 DEF Confirm, Begin, Handlers, Ids, PC, Reasons
<1>3. ASSUME NEW h \in Clients, NEW p \in Payments, Poll(h, p) PROVE TypeOK'
  BY <1>3 DEF Poll, Begin, Handlers, Ids, PC, Reasons
<1>4. ASSUME NEW h \in Webhooks, NEW p \in Payments, Notify(h, p) PROVE TypeOK'
  BY <1>4 DEF Notify, Begin, Handlers, Ids, PC, Reasons
<1>5. ASSUME NEW h \in Reconcilers, NEW p \in Payments, Reconcile(h, p) PROVE TypeOK'
  BY <1>5 DEF Reconcile, Begin, Handlers, Ids, PC, Reasons
<1>6. ASSUME NEW h \in Handlers, AskOperator(h) PROVE TypeOK'
  BY <1>6 DEF AskOperator, Goto, PC, PayinStatus
<1>7. ASSUME NEW h \in Handlers, RecordStarted(h) PROVE TypeOK'
  BY <1>7 DEF RecordStarted, SetRow, End, PC, Ids, Reasons, RowStatus
<1>8. ASSUME NEW h \in Handlers, RecordRefused(h) PROVE TypeOK'
  BY <1>8 DEF RecordRefused, SetRow, End, PC, Ids, Reasons, RowStatus
<1>9. ASSUME NEW h \in Handlers, Complete(h) PROVE TypeOK'
  BY <1>9 DEF Complete, SetRow, Goto, PC, Ids, RowStatus
<1>10. ASSUME NEW h \in Handlers, Ask(h) PROVE TypeOK'
  BY <1>10 DEF Ask, Answer, Goto, End, PC, Ids, Reasons
<1>11. ASSUME NEW h \in Handlers, Settle(h) PROVE TypeOK'
  BY <1>11 DEF Settle, SetRow, Goto, End, PC, Ids, Reasons, RowStatus
<1>12. ASSUME NEW h \in Handlers, Fail(h) PROVE TypeOK'
  BY <1>12 DEF Fail, SetRow, End, PC, Ids, Reasons, RowStatus
<1>13. ASSUME NEW h \in Handlers, Credit(h) PROVE TypeOK'
  BY <1>13 DEF Credit, End, PC, Ids, Reasons
<1>14. ASSUME NEW h \in Handlers, Dies(h) PROVE TypeOK'
  BY <1>14 DEF Dies, End, PC, Ids, Reasons
<1>15. ASSUME NEW p \in Payments, OperatorDecides(p) PROVE TypeOK'
  BY <1>15 DEF OperatorDecides, PayinStatus
<1>16. ASSUME NEW p \in Payments, Age(p) PROVE TypeOK'
  BY <1>16 DEF Age
<1>17. CASE UNCHANGED vars
  BY <1>17 DEF vars
<1> QED
  BY <1>1, <1>2, <1>3, <1>4, <1>5, <1>6, <1>7, <1>8, <1>9, <1>10, <1>11, <1>12,
     <1>13, <1>14, <1>15, <1>16, <1>17 DEF Next, Step

(* Whatever the number of payments and handlers, and whatever fails, the rows,
   the handlers and the credits keep values of their kind. *)
THEOREM TypeCorrect == Spec => []TypeOK
<1> QED
  BY InitTypeOK, NextTypeOK, PTL DEF Spec


-----------------------------------------------------------------------------
(* The invariant *)

(* A handler that settles has the operator's word that the payment was paid;
   one that starts a payment is ahead of the operator. *)
LEMMA HandlersStaySensible == IInv /\ TypeOK' /\ [Next]_vars => HandlersMakeSense'
<1> SUFFICES ASSUME IInv, TypeOK', [Next]_vars PROVE HandlersMakeSense'
  OBVIOUS
<1> USE DEF IInv, TypeOK, rows, handlerVars, credits, Handlers, HandlersMakeSense, StartIsAlone, RowsMakeSense, Starting
<1>1. ASSUME NEW h \in Clients, NEW p \in Payments, Create(h, p) PROVE HandlersMakeSense'
  BY <1>1, NoPaymentIsNone DEF Create, Begin, SetRow
<1>2. ASSUME NEW h \in Clients, NEW p \in Payments, Confirm(h, p) PROVE HandlersMakeSense'
  BY <1>2, NoPaymentIsNone DEF Confirm, Begin
<1>3. ASSUME NEW h \in Clients, NEW p \in Payments, Poll(h, p) PROVE HandlersMakeSense'
  BY <1>3, NoPaymentIsNone DEF Poll, Begin
<1>4. ASSUME NEW h \in Webhooks, NEW p \in Payments, Notify(h, p) PROVE HandlersMakeSense'
  BY <1>4, NoPaymentIsNone DEF Notify, Begin
<1>5. ASSUME NEW h \in Reconcilers, NEW p \in Payments, Reconcile(h, p) PROVE HandlersMakeSense'
  BY <1>5, NoPaymentIsNone DEF Reconcile, Begin
<1>6. ASSUME NEW h \in Handlers, AskOperator(h) PROVE HandlersMakeSense'
  BY <1>6, NoPaymentIsNone DEF AskOperator, Goto
<1>7. ASSUME NEW h \in Handlers, RecordStarted(h) PROVE HandlersMakeSense'
  BY <1>7, NoPaymentIsNone DEF RecordStarted, SetRow, End
<1>8. ASSUME NEW h \in Handlers, RecordRefused(h) PROVE HandlersMakeSense'
  BY <1>8, NoPaymentIsNone DEF RecordRefused, SetRow, End
<1>9. ASSUME NEW h \in Handlers, Complete(h) PROVE HandlersMakeSense'
  BY <1>9, NoPaymentIsNone DEF Complete, SetRow, Goto
<1>10. ASSUME NEW h \in Handlers, Ask(h) PROVE HandlersMakeSense'
  BY <1>10, NoPaymentIsNone DEF Ask, Answer, Goto, End
<1>11. ASSUME NEW h \in Handlers, Settle(h) PROVE HandlersMakeSense'
  BY <1>11, NoPaymentIsNone DEF Settle, SetRow, Goto, End
<1>12. ASSUME NEW h \in Handlers, Fail(h) PROVE HandlersMakeSense'
  BY <1>12, NoPaymentIsNone DEF Fail, SetRow, End
<1>13. ASSUME NEW h \in Handlers, Credit(h) PROVE HandlersMakeSense'
  BY <1>13, NoPaymentIsNone DEF Credit, End
<1>14. ASSUME NEW h \in Handlers, Dies(h) PROVE HandlersMakeSense'
  BY <1>14, NoPaymentIsNone DEF Dies, End
<1>15. ASSUME NEW p \in Payments, OperatorDecides(p) PROVE HandlersMakeSense'
  BY <1>15, NoPaymentIsNone DEF OperatorDecides
<1>16. ASSUME NEW p \in Payments, Age(p) PROVE HandlersMakeSense'
  BY <1>16, NoPaymentIsNone DEF Age
<1>17. CASE UNCHANGED vars
  BY <1>17 DEF vars
<1> QED
  BY <1>1, <1>2, <1>3, <1>4, <1>5, <1>6, <1>7, <1>8, <1>9, <1>10, <1>11, <1>12, <1>13, <1>14, <1>15, <1>16, <1>17 DEF Next, Step

(* While a payment is being started nobody else holds the operator's id for
   it, and nothing was credited: RecordStarted makes no settled row pending. *)
LEMMA StartStaysAlone == IInv /\ TypeOK' /\ [Next]_vars => StartIsAlone'
<1> SUFFICES ASSUME IInv, TypeOK', [Next]_vars PROVE StartIsAlone'
  OBVIOUS
<1> USE DEF IInv, TypeOK, rows, handlerVars, credits, Handlers, HandlersMakeSense, StartIsAlone, RowsMakeSense, CreditsMakeSense, Starting, Untouched, Crediting
<1>1. ASSUME NEW h \in Clients, NEW p \in Payments, Create(h, p) PROVE StartIsAlone'
  BY <1>1, NoPaymentIsNone DEF Create, Begin, SetRow
<1>2. ASSUME NEW h \in Clients, NEW p \in Payments, Confirm(h, p) PROVE StartIsAlone'
  BY <1>2, NoPaymentIsNone DEF Confirm, Begin
<1>3. ASSUME NEW h \in Clients, NEW p \in Payments, Poll(h, p) PROVE StartIsAlone'
  BY <1>3, NoPaymentIsNone DEF Poll, Begin
<1>4. ASSUME NEW h \in Webhooks, NEW p \in Payments, Notify(h, p) PROVE StartIsAlone'
  BY <1>4, NoPaymentIsNone DEF Notify, Begin
<1>5. ASSUME NEW h \in Reconcilers, NEW p \in Payments, Reconcile(h, p) PROVE StartIsAlone'
  BY <1>5, NoPaymentIsNone DEF Reconcile, Begin
<1>6. ASSUME NEW h \in Handlers, AskOperator(h) PROVE StartIsAlone'
  BY <1>6, NoPaymentIsNone, SMTT(30) DEF AskOperator, Goto
<1>7. ASSUME NEW h \in Handlers, RecordStarted(h) PROVE StartIsAlone'
  BY <1>7, NoPaymentIsNone DEF RecordStarted, SetRow, End
<1>8. ASSUME NEW h \in Handlers, RecordRefused(h) PROVE StartIsAlone'
  BY <1>8, NoPaymentIsNone DEF RecordRefused, SetRow, End
<1>9. ASSUME NEW h \in Handlers, Complete(h) PROVE StartIsAlone'
  BY <1>9, NoPaymentIsNone DEF Complete, SetRow, Goto
<1>10. ASSUME NEW h \in Handlers, Ask(h) PROVE StartIsAlone'
  BY <1>10, NoPaymentIsNone DEF Ask, Answer, Goto, End
<1>11. ASSUME NEW h \in Handlers, Settle(h) PROVE StartIsAlone'
  BY <1>11, NoPaymentIsNone DEF Settle, SetRow, Goto, End
<1>12. ASSUME NEW h \in Handlers, Fail(h) PROVE StartIsAlone'
  BY <1>12, NoPaymentIsNone DEF Fail, SetRow, End
<1>13. ASSUME NEW h \in Handlers, Credit(h) PROVE StartIsAlone'
  BY <1>13, NoPaymentIsNone DEF Credit, End
<1>14. ASSUME NEW h \in Handlers, Dies(h) PROVE StartIsAlone'
  BY <1>14, NoPaymentIsNone DEF Dies, End
<1>15. ASSUME NEW p \in Payments, OperatorDecides(p) PROVE StartIsAlone'
  BY <1>15, NoPaymentIsNone DEF OperatorDecides
<1>16. ASSUME NEW p \in Payments, Age(p) PROVE StartIsAlone'
  BY <1>16, NoPaymentIsNone DEF Age
<1>17. CASE UNCHANGED vars
  BY <1>17 DEF vars
<1> QED
  BY <1>1, <1>2, <1>3, <1>4, <1>5, <1>6, <1>7, <1>8, <1>9, <1>10, <1>11, <1>12, <1>13, <1>14, <1>15, <1>16, <1>17 DEF Next, Step

(* A row is pending only as long as nothing was credited for it. *)
LEMMA RowsStaySensible == IInv /\ TypeOK' /\ [Next]_vars => RowsMakeSense'
<1> SUFFICES ASSUME IInv, TypeOK', [Next]_vars PROVE RowsMakeSense'
  OBVIOUS
<1> USE DEF IInv, TypeOK, rows, handlerVars, credits, Handlers, HandlersMakeSense, StartIsAlone, RowsMakeSense, CreditsMakeSense, Starting, Untouched, Crediting
<1>1. ASSUME NEW h \in Clients, NEW p \in Payments, Create(h, p) PROVE RowsMakeSense'
  BY <1>1, NoPaymentIsNone DEF Create, Begin, SetRow
<1>2. ASSUME NEW h \in Clients, NEW p \in Payments, Confirm(h, p) PROVE RowsMakeSense'
  BY <1>2, NoPaymentIsNone DEF Confirm, Begin
<1>3. ASSUME NEW h \in Clients, NEW p \in Payments, Poll(h, p) PROVE RowsMakeSense'
  BY <1>3, NoPaymentIsNone DEF Poll, Begin
<1>4. ASSUME NEW h \in Webhooks, NEW p \in Payments, Notify(h, p) PROVE RowsMakeSense'
  BY <1>4, NoPaymentIsNone DEF Notify, Begin
<1>5. ASSUME NEW h \in Reconcilers, NEW p \in Payments, Reconcile(h, p) PROVE RowsMakeSense'
  BY <1>5, NoPaymentIsNone DEF Reconcile, Begin
<1>6. ASSUME NEW h \in Handlers, AskOperator(h) PROVE RowsMakeSense'
  BY <1>6, NoPaymentIsNone DEF AskOperator, Goto
<1>7. ASSUME NEW h \in Handlers, RecordStarted(h) PROVE RowsMakeSense'
  BY <1>7, NoPaymentIsNone DEF RecordStarted, SetRow, End
<1>8. ASSUME NEW h \in Handlers, RecordRefused(h) PROVE RowsMakeSense'
  BY <1>8, NoPaymentIsNone DEF RecordRefused, SetRow, End
<1>9. ASSUME NEW h \in Handlers, Complete(h) PROVE RowsMakeSense'
  BY <1>9, NoPaymentIsNone DEF Complete, SetRow, Goto
<1>10. ASSUME NEW h \in Handlers, Ask(h) PROVE RowsMakeSense'
  BY <1>10, NoPaymentIsNone DEF Ask, Answer, Goto, End
<1>11. ASSUME NEW h \in Handlers, Settle(h) PROVE RowsMakeSense'
  BY <1>11, NoPaymentIsNone DEF Settle, SetRow, Goto, End
<1>12. ASSUME NEW h \in Handlers, Fail(h) PROVE RowsMakeSense'
  BY <1>12, NoPaymentIsNone DEF Fail, SetRow, End
<1>13. ASSUME NEW h \in Handlers, Credit(h) PROVE RowsMakeSense'
  BY <1>13, NoPaymentIsNone DEF Credit, End
<1>14. ASSUME NEW h \in Handlers, Dies(h) PROVE RowsMakeSense'
  BY <1>14, NoPaymentIsNone DEF Dies, End
<1>15. ASSUME NEW p \in Payments, OperatorDecides(p) PROVE RowsMakeSense'
  BY <1>15, NoPaymentIsNone DEF OperatorDecides
<1>16. ASSUME NEW p \in Payments, Age(p) PROVE RowsMakeSense'
  BY <1>16, NoPaymentIsNone DEF Age
<1>17. CASE UNCHANGED vars
  BY <1>17 DEF vars
<1> QED
  BY <1>1, <1>2, <1>3, <1>4, <1>5, <1>6, <1>7, <1>8, <1>9, <1>10, <1>11, <1>12, <1>13, <1>14, <1>15, <1>16, <1>17 DEF Next, Step

(* One handler credits a payment, once, and it was paid. *)
LEMMA CreditsStaySensible == IInv /\ TypeOK' /\ [Next]_vars => CreditsMakeSense'
<1> SUFFICES ASSUME IInv, TypeOK', [Next]_vars PROVE CreditsMakeSense'
  OBVIOUS
<1> USE DEF IInv, TypeOK, rows, handlerVars, credits, Handlers, HandlersMakeSense, StartIsAlone, RowsMakeSense, CreditsMakeSense, Starting, Untouched, Crediting
<1>1. ASSUME NEW h \in Clients, NEW p \in Payments, Create(h, p) PROVE CreditsMakeSense'
  BY <1>1, NoPaymentIsNone DEF Create, Begin, SetRow
<1>2. ASSUME NEW h \in Clients, NEW p \in Payments, Confirm(h, p) PROVE CreditsMakeSense'
  BY <1>2, NoPaymentIsNone DEF Confirm, Begin
<1>3. ASSUME NEW h \in Clients, NEW p \in Payments, Poll(h, p) PROVE CreditsMakeSense'
  BY <1>3, NoPaymentIsNone DEF Poll, Begin
<1>4. ASSUME NEW h \in Webhooks, NEW p \in Payments, Notify(h, p) PROVE CreditsMakeSense'
  BY <1>4, NoPaymentIsNone DEF Notify, Begin
<1>5. ASSUME NEW h \in Reconcilers, NEW p \in Payments, Reconcile(h, p) PROVE CreditsMakeSense'
  BY <1>5, NoPaymentIsNone DEF Reconcile, Begin
<1>6. ASSUME NEW h \in Handlers, AskOperator(h) PROVE CreditsMakeSense'
  BY <1>6, NoPaymentIsNone DEF AskOperator, Goto
<1>7. ASSUME NEW h \in Handlers, RecordStarted(h) PROVE CreditsMakeSense'
  BY <1>7, NoPaymentIsNone DEF RecordStarted, SetRow, End
<1>8. ASSUME NEW h \in Handlers, RecordRefused(h) PROVE CreditsMakeSense'
  BY <1>8, NoPaymentIsNone DEF RecordRefused, SetRow, End
<1>9. ASSUME NEW h \in Handlers, Complete(h) PROVE CreditsMakeSense'
  BY <1>9, NoPaymentIsNone DEF Complete, SetRow, Goto
<1>10. ASSUME NEW h \in Handlers, Ask(h) PROVE CreditsMakeSense'
  BY <1>10, NoPaymentIsNone DEF Ask, Answer, Goto, End
<1>11. ASSUME NEW h \in Handlers, Settle(h) PROVE CreditsMakeSense'
  BY <1>11, NoPaymentIsNone DEF Settle, SetRow, Goto, End
<1>12. ASSUME NEW h \in Handlers, Fail(h) PROVE CreditsMakeSense'
  BY <1>12, NoPaymentIsNone DEF Fail, SetRow, End
<1>13. ASSUME NEW h \in Handlers, Credit(h) PROVE CreditsMakeSense'
  BY <1>13, NoPaymentIsNone DEF Credit, End
<1>14. ASSUME NEW h \in Handlers, Dies(h) PROVE CreditsMakeSense'
  BY <1>14, NoPaymentIsNone DEF Dies, End
<1>15. ASSUME NEW p \in Payments, OperatorDecides(p) PROVE CreditsMakeSense'
  BY <1>15, NoPaymentIsNone DEF OperatorDecides
<1>16. ASSUME NEW p \in Payments, Age(p) PROVE CreditsMakeSense'
  BY <1>16, NoPaymentIsNone DEF Age
<1>17. CASE UNCHANGED vars
  BY <1>17 DEF vars
<1> QED
  BY <1>1, <1>2, <1>3, <1>4, <1>5, <1>6, <1>7, <1>8, <1>9, <1>10, <1>11, <1>12, <1>13, <1>14, <1>15, <1>16, <1>17 DEF Next, Step

(* The invariant holds at first. *)
LEMMA InitIInv == Init => IInv
<1> SUFFICES ASSUME Init PROVE IInv
  OBVIOUS
<1>1. TypeOK
  BY InitTypeOK
<1>2. HandlersMakeSense /\ StartIsAlone /\ RowsMakeSense
  BY NoPaymentIsNone DEF Init, HandlersMakeSense, StartIsAlone, RowsMakeSense, Starting,
     Untouched, Crediting
<1>3. CreditsMakeSense
  <2>1. \A p \in Payments : settled[p] = 0
    BY DEF Init
  <2>2. \A h \in Handlers, p \in Payments : ~Crediting(h, p)
    BY DEF Init, Crediting
  <2>3. 0 \in {0, 1} /\ 0 # 1
    OBVIOUS
  <2> QED
    BY <2>1, <2>2, <2>3, Zenon DEF CreditsMakeSense
<1> QED
  BY <1>1, <1>2, <1>3 DEF IInv

(* Why no two of polling, webhooks and crons credit one payment: IInv is an
   invariant. *)
THEOREM InvariantHolds == Spec => []IInv
<1>1. IInv /\ [Next]_vars => IInv'
  <2> SUFFICES ASSUME IInv, [Next]_vars PROVE IInv'
    OBVIOUS
  <2>1. TypeOK'
    BY NextTypeOK DEF IInv
  <2> QED
    BY <2>1, HandlersStaySensible, StartStaysAlone, RowsStaySensible, CreditsStaySensible
    DEF IInv
<1> QED
  BY <1>1, InitIInv, PTL DEF Spec

(* Polling, webhooks and crons credit a payment at most once between them,
   however many there are. *)
THEOREM SettledAtMostOnce == Spec => []SettledOnce
<1>1. IInv => SettledOnce
  <2> SUFFICES ASSUME IInv, NEW p \in Payments PROVE settled[p] <= 1
    BY DEF SettledOnce
  <2>1. settled[p] = 0 \/ settled[p] = 1
    BY DEF IInv, CreditsMakeSense
  <2> QED
    BY <2>1
<1> QED
  BY <1>1, InvariantHolds, PTL

(* What they credit was paid. *)
THEOREM OnlyPaidIsSettled == Spec => []SettledOnlyIfPaid
<1>1. IInv => SettledOnlyIfPaid
  BY DEF IInv, CreditsMakeSense, SettledOnlyIfPaid
<1> QED
  BY <1>1, InvariantHolds, PTL

-----------------------------------------------------------------------------
(* The ledger *)

Paid == {p \in Payments : payin[p] = "processed"}
Claimed == [p \in Payments |-> Claimants(p)]
Books == <<Paid, Claimed, settled>>

Claims(h) == pc[h] = "credit" /\ by[h] # "confirm"

(* What a handler does that is about to credit neither before nor after changes
   no claim. *)
LEMMA ClaimsStay ==
  ASSUME NEW h \in Handlers, ~Claims(h), ~Claims(h)',
         \A g \in Handlers \ {h} : pc'[g] = pc[g] /\ on'[g] = on[g] /\ by'[g] = by[g]
  PROVE  Claimed' = Claimed
<1>1. ASSUME NEW p \in Payments PROVE Claimants(p)' = Claimants(p)
  BY DEF Claimants, Claims
<1> QED
  BY <1>1 DEF Claimed

(* Claimed is the function that ClaimGoes and Settle change at one payment. *)
LEMMA ClaimedIs ==
  /\ Claimed = [p \in Payments |-> Claimed[p]] /\ Claimed' = [p \in Payments |-> Claimed'[p]]
  /\ \A p \in Payments : Claimed[p] = Claimants(p) /\ Claimed'[p] = Claimants(p)'
<1>1. ASSUME NEW p \in Payments PROVE Claimed[p] = Claimants(p) /\ Claimed'[p] = Claimants(p)'
  BY DEF Claimed
<1>2. /\ Claimed = [p \in Payments |-> Claimed[p]]
      /\ Claimed' = [p \in Payments |-> Claimed'[p]]
  BY DEF Claimed, Claimants
<1> QED
  BY <1>1, <1>2

(* A handler that stops being about to credit p was the only one: its claim is
   the one that goes. *)
LEMMA ClaimGoes ==
  ASSUME IInv, NEW h \in Handlers, Claims(h), ~Claims(h)', NEW p \in Payments, p = on[h],
         \A g \in Handlers \ {h} : pc'[g] = pc[g] /\ on'[g] = on[g] /\ by'[g] = by[g]
  PROVE  Claimed[p] = {h} /\ Claimed' = [Claimed EXCEPT ![p] = {}]
<1>1. \A g \in Handlers : Crediting(g, p) => g = h
  BY DEF IInv, CreditsMakeSense, Crediting, Claims
<1>2. Claimants(p) = {h} /\ Claimants(p)' = {}
  BY <1>1 DEF Claimants, Crediting, Claims
<1>3. ASSUME NEW q \in Payments \ {p} PROVE Claimants(q)' = Claimants(q)
  BY DEF Claimants, Claims
<1> QED
  BY <1>2, <1>3, ClaimedIs

(* Each step of the detailed specification is a step of the ledger, or leaves
   its books alone. *)
LEMMA StepKeepsLedger == IInv /\ [Next]_vars => [Ledger!Next]_Books
<1> SUFFICES ASSUME IInv, [Next]_vars PROVE Ledger!Next \/ UNCHANGED Books
  OBVIOUS
<1>a. TypeOK
  BY DEF IInv
<1> USE DEF TypeOK
<1>1. ASSUME NEW p \in Payments, OperatorDecides(p) PROVE Ledger!Next \/ UNCHANGED Books
  <2>1. Claimed' = Claimed /\ settled' = settled
    BY <1>1 DEF OperatorDecides, handlerVars, credits, Claimed, Claimants
  <2>2. CASE payin' = [payin EXCEPT ![p] = "processed"]
    <3>1. p \notin Paid /\ Paid' = Paid \cup {p}
      BY <1>1, <1>a, <2>2 DEF OperatorDecides, Paid
    <3> QED
      BY <2>1, <3>1 DEF Ledger!Next, Ledger!Pay, Paid, Claimed
  <2>3. CASE payin' = [payin EXCEPT ![p] = "failed"]
    BY <1>1, <1>a, <2>1, <2>3 DEF OperatorDecides, Paid, Books
  <2> QED
    BY <1>1, <2>2, <2>3 DEF OperatorDecides
<1>2. ASSUME NEW h \in Handlers, Settle(h) PROVE Ledger!Next \/ UNCHANGED Books
  <2>0. PICK p \in Payments : p = on[h]
    BY <1>2, <1>a DEF Settle
  <2>1. by[h] # "confirm" /\ payin[p] = "processed" /\ ~Claims(h)
    BY <1>2, <1>a, <2>0 DEF Settle, IInv, HandlersMakeSense, Claims
  <2>2. Paid' = Paid /\ settled' = settled
    BY <1>2 DEF Settle, credits, Paid
  <2>3. CASE row[p] = "pending"
    <3>1. settled[p] = 0 /\ \A g \in Handlers : ~Crediting(g, p)
      BY <2>3 DEF IInv, RowsMakeSense, Untouched
    <3>2. pc' = [pc EXCEPT ![h] = "credit"] /\ on' = on /\ by' = by
      BY <1>2, <2>0, <2>3 DEF Settle, Goto
    <3>3. Claimants(p) = {} /\ Claimants(p)' = {h}
      BY <1>a, <2>0, <2>1, <3>1, <3>2 DEF Claimants, Crediting
    <3>4. ASSUME NEW q \in Payments \ {p} PROVE Claimants(q)' = Claimants(q)
      BY <1>a, <2>0, <2>1, <3>2 DEF Claimants, Claims
    <3>5. Claimed[p] = {} /\ Claimed' = [Claimed EXCEPT ![p] = {h}]
      BY <3>3, <3>4, ClaimedIs
    <3>6. Ledger!Claim(h, p)
      BY <2>1, <2>2, <3>1, <3>5 DEF Ledger!Claim, Paid, Claimed
    <3> QED
      BY <3>6 DEF Ledger!Next
  <2>4. CASE row[p] # "pending"
    <3>1. ~Claims(h)' /\ \A g \in Handlers \ {h} : pc'[g] = pc[g] /\ on'[g] = on[g] /\ by'[g] = by[g]
      BY <1>2, <1>a, <2>0, <2>4 DEF Settle, End, Claims
    <3> QED
      BY <2>1, <2>2, <3>1, ClaimsStay DEF Books
  <2> QED
    BY <2>3, <2>4
<1>3. ASSUME NEW h \in Handlers, Credit(h) \/ Dies(h) PROVE Ledger!Next \/ UNCHANGED Books
  <2>1. Paid' = Paid
    BY <1>3 DEF Credit, Dies, Paid
  <2>2. ~Claims(h)' /\ \A g \in Handlers \ {h} : pc'[g] = pc[g] /\ on'[g] = on[g] /\ by'[g] = by[g]
    BY <1>3, <1>a DEF Credit, Dies, End, Claims
  <2>3. CASE ~Claims(h)
    <3>1. settled' = settled
      BY <1>3, <2>3 DEF Credit, Dies, credits, Claims
    <3> QED
      BY <2>1, <2>2, <2>3, <3>1, ClaimsStay DEF Books
  <2>4. CASE Claims(h)
    <3>0. PICK p \in Payments : p = on[h]
      BY <1>a, <2>4 DEF Claims
    <3>1. Claimed[p] = {h} /\ Claimed' = [Claimed EXCEPT ![p] = {}]
      BY <2>2, <2>4, <3>0, ClaimGoes
    <3>2. CASE Credit(h)
      <4>1. settled' = [settled EXCEPT ![p] = @ + 1]
        BY <2>4, <3>0, <3>2 DEF Credit, Claims
      <4>2. Ledger!Credit(h, p)
        BY <2>1, <3>1, <4>1 DEF Ledger!Credit, Paid, Claimed
      <4> QED
        BY <4>2 DEF Ledger!Next
    <3>3. CASE Dies(h)
      <4>1. Ledger!Lose(h, p)
        BY <2>1, <3>1, <3>3 DEF Dies, credits, Ledger!Lose, Paid, Claimed
      <4> QED
        BY <4>1 DEF Ledger!Next
    <3> QED
      BY <1>3, <3>2, <3>3
  <2> QED
    BY <2>3, <2>4
<1>4. ASSUME NEW h \in Handlers, AskOperator(h) PROVE UNCHANGED Books
  <2>1. pc[h] = "start" /\ payin[on[h]] = "none" /\ settled' = settled
    BY <1>4 DEF AskOperator, IInv, HandlersMakeSense, credits
  <2>2. payin' = payin \/ payin' = [payin EXCEPT ![on[h]] = "pending"]
    BY <1>4 DEF AskOperator
  <2>3. Paid' = Paid
    BY <1>a, <2>1, <2>2 DEF Paid
  <2>4. /\ ~Claims(h) /\ ~Claims(h)'
        /\ \A g \in Handlers \ {h} : pc'[g] = pc[g] /\ on'[g] = on[g] /\ by'[g] = by[g]
    BY <1>4, <1>a DEF AskOperator, Goto, Claims
  <2> QED
    BY <2>1, <2>3, <2>4, ClaimsStay DEF Books
<1>5. ASSUME NEW h \in Handlers, NEW p \in Payments,
             Create(h, p) \/ Confirm(h, p) \/ Poll(h, p) \/ Notify(h, p) \/ Reconcile(h, p)
      PROVE  UNCHANGED Books
  <2>1. payin' = payin /\ settled' = settled
    BY <1>5 DEF Create, Confirm, Poll, Notify, Reconcile, credits
  <2>2. /\ ~Claims(h) /\ ~Claims(h)'
        /\ \A g \in Handlers \ {h} : pc'[g] = pc[g] /\ on'[g] = on[g] /\ by'[g] = by[g]
    BY <1>5, <1>a DEF Create, Confirm, Poll, Notify, Reconcile, Begin, Claims
  <2> QED
    BY <2>1, <2>2, ClaimsStay DEF Books, Paid
<1>6. ASSUME NEW h \in Handlers,
             RecordStarted(h) \/ RecordRefused(h) \/ Complete(h) \/ Ask(h) \/ Fail(h)
      PROVE  UNCHANGED Books
  <2>1. payin' = payin /\ settled' = settled
    BY <1>6 DEF RecordStarted, RecordRefused, Complete, Ask, Fail, credits
  <2>2. ~Claims(h) /\ ~Claims(h)'
    <3>1. CASE Complete(h)
      BY <1>a, <3>1 DEF Complete, Goto, Claims, IInv, HandlersMakeSense
    <3>2. CASE RecordStarted(h) \/ RecordRefused(h) \/ Ask(h) \/ Fail(h)
      BY <1>a, <3>2 DEF RecordStarted, RecordRefused, Ask, Fail, Answer, Goto, End, Claims
    <3> QED
      BY <1>6, <3>1, <3>2
  <2>3. \A g \in Handlers \ {h} : pc'[g] = pc[g] /\ on'[g] = on[g] /\ by'[g] = by[g]
    BY <1>6, <1>a DEF RecordStarted, RecordRefused, Complete, Ask, Fail, Goto, End
  <2> QED
    BY <2>1, <2>2, <2>3, ClaimsStay DEF Books, Paid
<1>7. CASE (\E p \in Payments : Age(p)) \/ UNCHANGED vars
  BY <1>7 DEF Age, vars, handlerVars, credits, Books, Paid, Claimed, Claimants
<1>8. \/ \E h \in Handlers, p \in Payments :
           Create(h, p) \/ Confirm(h, p) \/ Poll(h, p) \/ Notify(h, p) \/ Reconcile(h, p)
      \/ \E h \in Handlers : Step(h) \/ Dies(h)
      \/ \E p \in Payments : OperatorDecides(p) \/ Age(p)
      \/ UNCHANGED vars
  BY DEF Next, Handlers
<1> QED
  BY <1>1, <1>2, <1>3, <1>4, <1>5, <1>6, <1>7, <1>8 DEF Step

(* Recharging implements the ledger, whatever the number of handlers, errors
   and deaths: a payment is claimed by one handler at a time, after it was paid,
   never again after its credit, and credited by who claimed it. *)
THEOREM ImplementsLedger == Spec => KeepsLedger
<1>1. Init => Ledger!Init
  <2> SUFFICES ASSUME Init PROVE Ledger!Init
    OBVIOUS
  <2>1. ASSUME NEW p \in Payments PROVE Claimants(p) = {}
    BY DEF Init, Claimants
  <2> QED
    BY <2>1 DEF Init, Ledger!Init
<1> QED
  BY <1>1, StepKeepsLedger, InvariantHolds, PTL
  DEF Spec, KeepsLedger, Ledger!Spec, Books, Paid, Claimed

-----------------------------------------------------------------------------

(* No step leaves a completed payment without its credit, unless a handler
   dies between the two. *)
LEMMA NextCompletedIsCredited ==
  TypeOK /\ TypeOK' /\ CompletedIsCredited /\ [Next]_vars => CompletedIsCredited'
<1> SUFFICES ASSUME TypeOK, TypeOK', CompletedIsCredited, [Next]_vars PROVE CompletedIsCredited'
  OBVIOUS
<1> USE DEF CompletedIsCredited, TypeOK, rows, handlerVars, credits, Handlers
<1>1. ASSUME NEW h \in Clients, NEW p \in Payments, Create(h, p) PROVE CompletedIsCredited'
  BY <1>1 DEF Create, Begin, SetRow
<1>2. ASSUME NEW h \in Clients, NEW p \in Payments, Confirm(h, p) PROVE CompletedIsCredited'
  BY <1>2 DEF Confirm, Begin
<1>3. ASSUME NEW h \in Clients, NEW p \in Payments, Poll(h, p) PROVE CompletedIsCredited'
  BY <1>3 DEF Poll, Begin
<1>4. ASSUME NEW h \in Webhooks, NEW p \in Payments, Notify(h, p) PROVE CompletedIsCredited'
  BY <1>4 DEF Notify, Begin
<1>5. ASSUME NEW h \in Reconcilers, NEW p \in Payments, Reconcile(h, p) PROVE CompletedIsCredited'
  BY <1>5 DEF Reconcile, Begin
<1>6. ASSUME NEW h \in Handlers, AskOperator(h) PROVE CompletedIsCredited'
  BY <1>6 DEF AskOperator, Goto
<1>7. ASSUME NEW h \in Handlers, RecordStarted(h) PROVE CompletedIsCredited'
  BY <1>7 DEF RecordStarted, SetRow, End
<1>8. ASSUME NEW h \in Handlers, RecordRefused(h) PROVE CompletedIsCredited'
  BY <1>8 DEF RecordRefused, SetRow, End
<1>9. ASSUME NEW h \in Handlers, Complete(h) PROVE CompletedIsCredited'
  BY <1>9 DEF Complete, SetRow, Goto
<1>10. ASSUME NEW h \in Handlers, Ask(h) PROVE CompletedIsCredited'
  BY <1>10 DEF Ask, Answer, Goto, End
<1>11. ASSUME NEW h \in Handlers, Settle(h) PROVE CompletedIsCredited'
  BY <1>11 DEF Settle, SetRow, Goto, End
<1>12. ASSUME NEW h \in Handlers, Fail(h) PROVE CompletedIsCredited'
  BY <1>12 DEF Fail, SetRow, End
<1>13. ASSUME NEW h \in Handlers, Credit(h) PROVE CompletedIsCredited'
  BY <1>13 DEF Credit, End
<1>14. ASSUME NEW h \in Handlers, Dies(h) PROVE CompletedIsCredited'
  BY <1>14 DEF Dies, End
<1>15. ASSUME NEW p \in Payments, OperatorDecides(p) PROVE CompletedIsCredited'
  BY <1>15 DEF OperatorDecides
<1>16. ASSUME NEW p \in Payments, Age(p) PROVE CompletedIsCredited'
  BY <1>16 DEF Age
<1>17. CASE UNCHANGED vars
  BY <1>17 DEF vars
<1> QED
  BY <1>1, <1>2, <1>3, <1>4, <1>5, <1>6, <1>7, <1>8, <1>9, <1>10, <1>11, <1>12, <1>13, <1>14,
     <1>15, <1>16, <1>17 DEF Next, Step

(* A completed payment was credited or is about to be, as long as no handler
   died: no interleaving forgets a credit. *)
THEOREM CompletedGetsCredited == Spec => []CompletedIsCredited
<1>1. Init => CompletedIsCredited
  BY DEF Init, CompletedIsCredited
<1> QED
  BY <1>1, NextCompletedIsCredited, TypeCorrect, PTL DEF Spec

=============================================================================
