------------------------------- MODULE PublicApi -------------------------------
(***************************************************************************)
(* API keys (api-keys/api-keys.service.ts, api-key.guard.ts) and the call  *)
(* of the public API that spends credit (public-api.controller.ts,         *)
(* sendSms): numbers are written to one after the other, and paid for      *)
(* together at the end.                                                    *)
(***************************************************************************)
EXTENDS ContactBook

KeyStatus == {"none", "active", "revoked"}
NoCall == [at |-> "idle", key |-> None, todo |-> 0, took |-> 0]
InUse == {k \in Keys : apiKeys[k] = "active"}

(* What keys and calls leave alone. *)
Aside == <<world, present, tags, optOut, analytic, events, day, automationVars, importVars,
           deliveryVars, bookVars, visaVars>>

CallGoes(a, at) == call' = [call EXCEPT ![a].at = at]
CallEnds(a) == call' = [call EXCEPT ![a] = NoCall]

-----------------------------------------------------------------------------
(* createKey counts the keys in use and then makes one. *)

(* Mutant: one too many passes. *)
AskKeyOrOneMore(a) ==
  /\ "createKey" \in world.operations /\ call[a].at = "idle" /\ Request
  /\ Cardinality(InUse) <= MaxKeys
  /\ CallGoes(a, "create")
  /\ UNCHANGED <<Aside, balance, apiKeys, apiTried, apiPaid>>

AskKey(a) ==
  /\ "createKey" \in world.operations /\ call[a].at = "idle" /\ Request
  /\ Cardinality(InUse) < MaxKeys
  /\ CallGoes(a, "create")
  /\ UNCHANGED <<Aside, balance, apiKeys, apiTried, apiPaid>>

CreateKey(a, k) ==
  /\ call[a].at = "create" /\ apiKeys[k] = "none"
  /\ apiKeys' = [apiKeys EXCEPT ![k] = "active"]
  /\ CallEnds(a)
  /\ UNCHANGED <<Aside, balance, left, apiTried, apiPaid>>

AskRevoke(a, k) ==
  /\ "revokeKey" \in world.operations /\ call[a].at = "idle" /\ Request
  /\ apiKeys[k] = "active"
  /\ call' = [call EXCEPT ![a].at = "revoke", ![a].key = k]
  /\ UNCHANGED <<Aside, balance, apiKeys, apiTried, apiPaid>>

RevokeKey(a) ==
  /\ call[a].at = "revoke"
  /\ apiKeys' = [apiKeys EXCEPT ![call[a].key] = "revoked"]
  /\ CallEnds(a)
  /\ UNCHANGED <<Aside, balance, left, apiTried, apiPaid>>

-----------------------------------------------------------------------------
(* sendSms *)

(* validateKey, of the guard: the key is looked at once. *)
CallSms(a, k, n) ==
  /\ "sms" \in world.operations /\ call[a].at = "idle" /\ Request
  /\ apiKeys[k] = "active"
  /\ call' = [call EXCEPT ![a] = [at |-> "balance", key |-> k, todo |-> n, took |-> 0]]
  /\ UNCHANGED <<Aside, balance, apiKeys, apiTried, apiPaid>>

(* Mutant: the credit is not compared. *)
CheckNothing(a) ==
  /\ call[a].at = "balance"
  /\ CallGoes(a, "send")
  /\ UNCHANGED <<Aside, left, balance, apiKeys, apiTried, apiPaid>>

(* Nothing is set aside of the credit that is read. *)
CheckBalance(a) ==
  /\ call[a].at = "balance"
  /\ IF balance >= ApiCost * call[a].todo THEN CallGoes(a, "send") ELSE CallEnds(a)
  /\ UNCHANGED <<Aside, left, balance, apiKeys, apiTried, apiPaid>>

(* The next number.  Nobody looks at what the provider answers: a message that
   it refused, or that no answer came back for, is counted like one that it
   took.  Only a call that throws is not, and the providers turn every error
   into an answer. *)
SendNext(a) ==
  /\ call[a].at = "send" /\ call[a].todo > 0
  /\ apiTried' = apiTried + 1
  /\ \E counted \in {0, 1} :
       /\ call' = [call EXCEPT ![a].todo = @ - 1, ![a].took = @ + counted]
       /\ IF counted = 0 THEN Fault ELSE UNCHANGED left
  /\ UNCHANGED <<Aside, balance, apiKeys, apiPaid>>

(* Mutant: nothing is paid for. *)
ChargeNothing(a) ==
  /\ call[a].at = "send" /\ call[a].todo = 0
  /\ CallEnds(a)
  /\ UNCHANGED <<Aside, left, balance, apiKeys, apiTried, apiPaid>>

(* What was counted is taken from the credit, whatever that is by now. *)
Charge(a) ==
  /\ call[a].at = "send" /\ call[a].todo = 0
  /\ balance' = balance - ApiCost * call[a].took
  /\ apiPaid' = apiPaid + call[a].took
  /\ CallEnds(a)
  /\ UNCHANGED <<Aside, left, apiKeys, apiTried>>

-----------------------------------------------------------------------------

(* A statement throws, or the process dies; errors of sending are caught. *)
CallFails(a) ==
  /\ call[a].at # "idle"
  /\ ((call[a].at # "send" \/ call[a].todo = 0) /\ Fault) \/ Crash
  /\ CallEnds(a)
  /\ UNCHANGED <<Aside, balance, apiKeys, apiTried, apiPaid>>

CallStep(a) ==
  \/ \E k \in Keys : CreateKey(a, k)
  \/ RevokeKey(a) \/ CheckBalance(a) \/ SendNext(a) \/ Charge(a)

ApiInit ==
  /\ apiKeys = [k \in Keys |-> IF k \in world.keys THEN "active" ELSE "none"]
  /\ call = [a \in Callers |-> NoCall]
  /\ apiTried = 0 /\ apiPaid = 0

ApiNext ==
  \E a \in Callers :
    \/ AskKey(a) \/ CallStep(a) \/ CallFails(a)
    \/ \E k \in Keys : AskRevoke(a, k)
    \/ \E k \in Keys, n \in 1..MaxTo : CallSms(a, k, n)

=============================================================================
