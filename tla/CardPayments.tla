------------------------------ MODULE CardPayments ------------------------------
(***************************************************************************)
(* Buying credit by card (transactions/transactions.service.ts,            *)
(* processVisa): the provider is asked for the money, and when it has it   *)
(* three statements follow, each on its own: the Transaction row, the      *)
(* credit, the invoice.  Modelled with a provider; without one (in         *)
(* development) the three statements are executed at once.                 *)
(*                                                                         *)
(* The webhook of the provider is in DeliveryEvents: it credits payments   *)
(* that name an account, which those made here do not, so that it has      *)
(* nothing to do with them.                                                *)
(***************************************************************************)
EXTENDS PublicApi

VisaSteps == {"idle", "charge", "record", "credit", "invoice"}

(* What card payments leave alone. *)
Away == <<world, present, tags, optOut, analytic, events, day, automationVars, importVars,
          deliveryVars, bookVars, apiVars>>

VisaGoes(a, at) == visa' = [visa EXCEPT ![a] = at]
MoneyTaken == purchases' = [purchases EXCEPT !.taken = @ + 1]

-----------------------------------------------------------------------------

AskVisa(a) ==
  /\ "visa" \in world.operations /\ visa[a] = "idle" /\ Request
  /\ VisaGoes(a, "charge")
  /\ UNCHANGED <<Away, balance, purchases>>

(* Mutant: a payment that waits for the payer's bank is taken for one that was
   made. *)
ChargeUnconfirmed(a) ==
  /\ visa[a] = "charge"
  /\ \/ MoneyTaken /\ VisaGoes(a, "record") /\ UNCHANGED left
     \/ MoneyTaken /\ VisaGoes(a, "idle") /\ Fault
     \/ purchases' = [purchases EXCEPT !.waiting = @ + 1] /\ VisaGoes(a, "record") /\ UNCHANGED left
     \/ VisaGoes(a, "idle") /\ UNCHANGED <<left, purchases>>
  /\ UNCHANGED <<Away, balance>>

(* The provider takes the money; takes it and its answer is lost; waits for the
   payer's bank (3-D Secure), which ends the request; or refuses. *)
ChargeCard(a) ==
  /\ visa[a] = "charge"
  /\ \/ MoneyTaken /\ VisaGoes(a, "record") /\ UNCHANGED left
     \/ MoneyTaken /\ VisaGoes(a, "idle") /\ Fault
     \/ purchases' = [purchases EXCEPT !.waiting = @ + 1] /\ VisaGoes(a, "idle") /\ UNCHANGED left
     \/ VisaGoes(a, "idle") /\ UNCHANGED <<left, purchases>>
  /\ UNCHANGED <<Away, balance>>

RecordPayment(a) ==
  /\ visa[a] = "record"
  /\ purchases' = [purchases EXCEPT !.bought = @ + 1]
  /\ VisaGoes(a, "credit")
  /\ UNCHANGED <<Away, left, balance>>

CreditPayment(a) ==
  /\ visa[a] = "credit"
  /\ balance' = balance + CardAmount
  /\ VisaGoes(a, "invoice")
  /\ UNCHANGED <<Away, left, purchases>>

Invoice(a) ==
  /\ visa[a] = "invoice"
  /\ VisaGoes(a, "idle")
  /\ UNCHANGED <<Away, left, balance, purchases>>

(* A statement throws, or the process dies. *)
VisaFails(a) ==
  /\ visa[a] # "idle"
  /\ (visa[a] # "charge" /\ Fault) \/ Crash
  /\ VisaGoes(a, "idle")
  /\ UNCHANGED <<Away, balance, purchases>>

(* The payer's bank says yes: the provider has the money, and tells a webhook
   that does not know whose it is.  Nobody asks for the payment again. *)
BankConfirms ==
  /\ purchases.waiting > 0 /\ Delivery
  /\ purchases' = [purchases EXCEPT !.waiting = @ - 1, !.taken = @ + 1, !.confirmed = @ + 1]
  /\ UNCHANGED <<Away, balance, visa>>

VisaStep(a) == ChargeCard(a) \/ RecordPayment(a) \/ CreditPayment(a) \/ Invoice(a)

VisaInit ==
  /\ visa = [a \in Callers |-> "idle"]
  /\ purchases = [taken |-> 0, bought |-> 0, waiting |-> 0, confirmed |-> 0]

VisaNext ==
  \/ BankConfirms
  \/ \E a \in Callers : AskVisa(a) \/ VisaStep(a) \/ VisaFails(a)

=============================================================================
