------------------------------ MODULE ContactBook ------------------------------
(***************************************************************************)
(* Contacts that requests create, change and opt out                       *)
(* (contacts/contacts.service.ts), and the cached count of a dynamic       *)
(* segment, which the worker of the queue segment-recalculation in each    *)
(* process brings up to date (queues/segment.recalculation.queue.ts).      *)
(***************************************************************************)
EXTENDS DeliveryEvents

NoForm == [op |-> "none", at |-> "idle", contact |-> Min(Contacts), tags |-> {}, added |-> {},
           hit |-> FALSE]
Resting == [pc |-> "idle", n |-> 0, again |-> FALSE]

(* What the contact book leaves alone. *)
Around == <<world, balance, analytic, day, automationVars, importVars, deliveryVars, apiVars,
            visaVars>>

(* buildWhereForSegment, for one rule: a tag, or that the contact is active. *)
Matches(c) ==
  c \in present /\ IF world.segment \in Tags THEN world.segment \in tags[c] ELSE ~optOut[c]
Matching == {c \in Contacts : Matches(c)}

-----------------------------------------------------------------------------
(* create, update, addTags, optOut *)

FormGoes(a, at) == form' = [form EXCEPT ![a].at = at]
FormEnds(a) == form' = [form EXCEPT ![a] = NoForm]

(* The row is read.  addTags makes the list it will write of the tags it finds;
   optIn is an update that says optOut = false. *)
AskContact(a, op, c, T) ==
  /\ op \in world.operations \cap {"create", "update", "addTags", "optIn", "optOut"}
  /\ form[a].at = "idle" /\ Request
  /\ op = "create" \/ c \in present
  /\ form' = [form EXCEPT ![a] =
       [op |-> op, at |-> "write", contact |-> c, hit |-> FALSE,
        tags |-> CASE op = "addTags" -> tags[c] \cup T [] op = "optIn" -> {} [] OTHER -> T,
        added |-> IF op = "addTags" THEN T \ tags[c] ELSE {}]]
  /\ UNCHANGED <<Around, present, tags, optOut, events, recalc, counting, segment>>

(* A recalculation is added after each write; nobody waits for the answer. *)
Recalculate == recalc' = [recalc EXCEPT !.adds = @ + 1]

(* A contact that has one of the keys is answered instead of a new one. *)
CreateContact(a) ==
  LET c == form[a].contact IN
  /\ form[a].at = "write" /\ form[a].op = "create"
  /\ \/ /\ ~Taken(c)
        /\ present' = present \cup {c}
        /\ tags' = [tags EXCEPT ![c] = form[a].tags]
        /\ Recalculate /\ FormGoes(a, "announce")
     \/ Taken(c) /\ FormEnds(a) /\ UNCHANGED <<present, tags, recalc>>
  /\ UNCHANGED <<Around, optOut, events, left, counting, segment>>

UpdateContact(a) ==
  /\ form[a].at = "write" /\ form[a].op \in {"update", "addTags", "optIn"}
  /\ IF form[a].op = "optIn"
       THEN optOut' = [optOut EXCEPT ![form[a].contact] = FALSE] /\ UNCHANGED tags
       ELSE tags' = [tags EXCEPT ![form[a].contact] = form[a].tags] /\ UNCHANGED optOut
  /\ Recalculate /\ FormGoes(a, "match")
  /\ UNCHANGED <<Around, present, events, left, counting, segment>>

(* Mutant: the recalculation is forgotten. *)
OptOutOnly(a) ==
  /\ form[a].at = "write" /\ form[a].op = "optOut"
  /\ optOut' = [optOut EXCEPT ![form[a].contact] = TRUE]
  /\ FormEnds(a)
  /\ UNCHANGED <<Around, present, tags, events, left, recalc, counting, segment>>

OptOut(a) ==
  /\ form[a].at = "write" /\ form[a].op = "optOut"
  /\ optOut' = [optOut EXCEPT ![form[a].contact] = TRUE]
  /\ Recalculate /\ FormEnds(a)
  /\ UNCHANGED <<Around, present, tags, events, left, counting, segment>>

(* The cached number of contacts was dropped meanwhile. *)
Announce(a) ==
  /\ form[a].at = "announce"
  /\ Emit("contact_added", form[a].contact)
  /\ FormGoes(a, "match")
  /\ UNCHANGED <<Around, present, tags, optOut, left, recalc, counting, segment>>

(* getMatchingSegmentIds; an error counts as no match. *)
Found(c, found) ==
  \/ found = Matches(c) /\ UNCHANGED left
  \/ Matches(c) /\ found = FALSE /\ Fault

(* emitSegmentJoinedEvents: both for the contact as it is and as it was the
   table is asked whether it matches now.  addTags then emits what it added. *)
JoinedEvents(c, joined) == IF joined THEN <<Event("segment_joined", c)>> ELSE <<>>

MatchNext(a) ==
  LET c == form[a].contact IN
  /\ form[a].at = "match"
  /\ \E found \in BOOLEAN :
       /\ Found(c, found)
       /\ IF form[a].op = "create"
            THEN events' = events \o JoinedEvents(c, found) /\ FormEnds(a)
            ELSE /\ form' = [form EXCEPT ![a].at = "before", ![a].hit = found]
                 /\ UNCHANGED events
  /\ UNCHANGED <<Around, present, tags, optOut, recalc, counting, segment>>

MatchBefore(a) ==
  LET c == form[a].contact IN
  /\ form[a].at = "before"
  /\ \E found \in BOOLEAN :
       /\ Found(c, found)
       /\ events' = events \o JoinedEvents(c, form[a].hit /\ ~found)
                           \o (IF form[a].added # {} THEN <<Event("tag_added", c)>> ELSE <<>>)
  /\ FormEnds(a)
  /\ UNCHANGED <<Around, present, tags, optOut, recalc, counting, segment>>

(* A statement throws, or the process dies; errors of the cache are dropped. *)
FormFails(a) ==
  /\ form[a].at # "idle"
  /\ (form[a].at # "announce" /\ Fault) \/ Crash
  /\ FormEnds(a)
  /\ UNCHANGED <<Around, present, tags, optOut, events, recalc, counting, segment>>

FormStep(a) ==
  \/ CreateContact(a) \/ UpdateContact(a) \/ OptOut(a) \/ Announce(a)
  \/ MatchNext(a) \/ MatchBefore(a)

-----------------------------------------------------------------------------
(* addRecalculateAccountSegmentsJob and handleRecalculateAccountSegments *)

(* The job arrives, or its add fails and the error is dropped. *)
JobArrives ==
  /\ recalc.adds > 0
  /\ recalc' = [recalc EXCEPT !.adds = @ - 1, !.waiting = @ + 1]
  /\ UNCHANGED <<Around, present, tags, optOut, events, left, form, counting, segment>>

JobIsLost ==
  /\ recalc.adds > 0 /\ (Fault \/ Crash)
  /\ recalc' = [recalc EXCEPT !.adds = @ - 1]
  /\ UNCHANGED <<Around, present, tags, optOut, events, form, counting, segment>>

TakeRecalculation(b) ==
  /\ counting[b].pc = "idle"
  /\ \/ /\ recalc.waiting > 0
        /\ recalc' = [recalc EXCEPT !.waiting = @ - 1]
        /\ counting' = [counting EXCEPT ![b] = [Resting EXCEPT !.pc = "count"]]
     \/ /\ recalc.again > 0
        /\ recalc' = [recalc EXCEPT !.again = @ - 1]
        /\ counting' = [counting EXCEPT ![b] = [Resting EXCEPT !.pc = "count", !.again = TRUE]]
  /\ UNCHANGED <<Around, present, tags, optOut, events, left, form, segment>>

CountMatching(b) ==
  /\ counting[b].pc = "count"
  /\ counting' = [counting EXCEPT ![b].pc = "write", ![b].n = Cardinality(Matching)]
  /\ UNCHANGED <<Around, present, tags, optOut, events, left, form, recalc, segment>>

WriteCount(b) ==
  /\ counting[b].pc = "write"
  /\ segment' = counting[b].n
  /\ counting' = [counting EXCEPT ![b] = Resting]
  /\ UNCHANGED <<Around, present, tags, optOut, events, left, form, recalc>>

(* An error is written into the job's result, or fails it: it has one attempt. *)
CountThrows(b) ==
  /\ counting[b].pc # "idle" /\ Fault
  /\ counting' = [counting EXCEPT ![b] = Resting]
  /\ UNCHANGED <<Around, present, tags, optOut, events, form, recalc, segment>>

(* BullMQ runs the job of a worker that died again, once. *)
CountDies(b) ==
  /\ counting[b].pc # "idle" /\ Crash
  /\ recalc' = IF counting[b].again THEN recalc ELSE [recalc EXCEPT !.again = @ + 1]
  /\ counting' = [counting EXCEPT ![b] = Resting]
  /\ UNCHANGED <<Around, present, tags, optOut, events, form, segment>>

CountStep(b) == TakeRecalculation(b) \/ CountMatching(b) \/ WriteCount(b)

-----------------------------------------------------------------------------

BookInit ==
  /\ form = [a \in Callers |-> NoForm]
  /\ recalc = [adds |-> 0, waiting |-> 0, again |-> 0]
  /\ counting = [b \in Backends |-> Resting]
  /\ segment = Cardinality(Matching)

BookNext ==
  \/ \E a \in Callers :
       \/ \E op \in world.operations, c \in Contacts, T \in world.lists : AskContact(a, op, c, T)
       \/ FormStep(a) \/ FormFails(a)
  \/ JobArrives \/ JobIsLost
  \/ \E b \in Backends : CountStep(b) \/ CountThrows(b) \/ CountDies(b)

=============================================================================
