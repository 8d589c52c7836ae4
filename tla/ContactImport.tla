----------------------------- MODULE ContactImport -----------------------------
(***************************************************************************)
(* Files of contacts being imported (contacts/import.service.ts) by the    *)
(* worker of the queue import-contacts (queues/import.queue.ts), two at a  *)
(* time.  A file is a sequence of rows; a row says a contact and its tags, *)
(* or neither an address nor a number.                                     *)
(***************************************************************************)
EXTENDS Automations

ImportJob == {"none", "waiting", "active", "done", "failed"}
ImportPC == {"idle", "read", "row", "report", "return", "throw"}

Rows(f) == IF f \in DOMAIN world.files THEN world.files[f] ELSE <<>>
Total(f) == Len(Rows(f))
NoTally == [success |-> 0, duplicates |-> 0, errors |-> 0]

(* What an import leaves alone. *)
Apart == <<world, optOut, balance, analytic, day, automationVars, deliveryVars,
           bookVars, apiVars, visaVars>>

TakeFile(f) ==
  /\ imp[f].st = "waiting"
  /\ Cardinality({g \in Files : imp[g].st = "active"}) < 2
  /\ imp' = [imp EXCEPT ![f].st = "active", ![f].pc = "read", ![f].pos = 0,
                        ![f].tally = NoTally]
  /\ UNCHANGED <<Apart, present, tags, events, left, reports>>

(* processBatch first reads the contacts that share a key with its rows; the
   progress of the batch before is written just before that. *)
Batch(f) == {i \in DOMAIN Rows(f) : imp[f].pos < i /\ i <= imp[f].pos + BatchSize}
BatchKeys(f) == UNION {KeysOf(Rows(f)[i].contact) : i \in {j \in Batch(f) : Rows(f)[j].contact # None}}
Existing(f) ==
  UNION {KeysOf(d) : d \in {d \in present : KeysOf(d) \cap BatchKeys(f) # {}}}

ReadBatch(f) ==
  /\ imp[f].pc = "read"
  /\ \/ /\ imp' = [imp EXCEPT ![f].pc = IF imp[f].pos < Total(f) THEN "row" ELSE "report",
                              ![f].known = Existing(f)]
        /\ UNCHANGED left
     \/ Fault /\ imp' = [imp EXCEPT ![f].pc = "throw"]
  /\ UNCHANGED <<Apart, present, tags, events, reports>>

RowOf(f) == Rows(f)[imp[f].pos + 1]

(* The row is counted as `kind`, and it is the next one's turn. *)
Counted(f, kind, keys) ==
  imp' = [imp EXCEPT ![f].tally[kind] = @ + 1,
                     ![f].known = @ \cup keys,
                     ![f].pos = @ + 1,
                     ![f].pc = IF (imp[f].pos + 1) % BatchSize = 0 \/ imp[f].pos + 1 = Total(f)
                               THEN "read" ELSE "row"]

InvalidRow(f) ==
  /\ imp[f].pc = "row" /\ RowOf(f).contact = None
  /\ Counted(f, "errors", {})
  /\ UNCHANGED <<Apart, present, tags, events, left, reports>>

Duplicate(f) == KeysOf(RowOf(f).contact) \cap imp[f].known # {}

(* The contact a duplicate row updates: the one with its e-mail address, or
   its number if it has no address.  There may be none. *)
Updated(f) ==
  LET c == RowOf(f).contact IN
  {d \in present : IF EmailOf[c] # None THEN EmailOf[d] = EmailOf[c] ELSE PhoneOf[d] = PhoneOf[c]}

(* Mutant: a contact that was there is announced too. *)
DuplicateRowAnnounced(f) ==
  /\ imp[f].pc = "row" /\ RowOf(f).contact # None /\ Duplicate(f)
  /\ Emit("contact_added", RowOf(f).contact)
  /\ Counted(f, "duplicates", {})
  /\ UNCHANGED <<Apart, present, tags, left, reports>>

DuplicateRow(f) ==
  /\ imp[f].pc = "row" /\ RowOf(f).contact # None /\ Duplicate(f)
  /\ \/ /\ tags' = [c \in Contacts |->
                    IF c \in Updated(f) /\ RowOf(f).tags # {} THEN RowOf(f).tags ELSE tags[c]]
        /\ UNCHANGED left
     \/ RowOf(f).tags # {} /\ Fault /\ UNCHANGED tags
  /\ Counted(f, "duplicates", {})
  /\ UNCHANGED <<Apart, present, events, reports>>

(* Mutant: a contact that another import created is counted as new. *)
NewRowEither(f) ==
  LET c == RowOf(f).contact IN
  /\ imp[f].pc = "row" /\ c # None /\ ~Duplicate(f)
  /\ present' = IF Taken(c) THEN present ELSE present \cup {c}
  /\ Counted(f, "success", KeysOf(c))
  /\ UNCHANGED <<Apart, tags, events, left, reports>>

(* A new contact, unless the table has one of its keys by now. *)
NewRow(f) ==
  LET c == RowOf(f).contact IN
  /\ imp[f].pc = "row" /\ c # None /\ ~Duplicate(f)
  /\ \/ /\ ~Taken(c)
        /\ present' = present \cup {c}
        /\ tags' = [tags EXCEPT ![c] = RowOf(f).tags]
        /\ Emit("contact_added", c)
        /\ Counted(f, "success", KeysOf(c))
        /\ UNCHANGED left
     \/ /\ IF Taken(c) THEN UNCHANGED left ELSE Fault
        /\ Counted(f, "errors", {})
        /\ UNCHANGED <<present, tags, events>>
  /\ UNCHANGED <<Apart, reports>>

GenerateReport(f) ==
  /\ imp[f].pc = "report"
  /\ \/ /\ reports' = [reports EXCEPT ![f] = Append(@, imp[f].tally)]
        /\ imp' = [imp EXCEPT ![f].pc = "return"]
        /\ UNCHANGED left
     \/ Fault /\ imp' = [imp EXCEPT ![f].pc = "throw"] /\ UNCHANGED reports
  /\ UNCHANGED <<Apart, present, tags, events>>

ImportEnds(f) ==
  /\ imp[f].pc = "return"
  /\ imp' = [imp EXCEPT ![f].st = "done", ![f].pc = "idle"]
  /\ UNCHANGED <<Apart, present, tags, events, left, reports>>

(* BullMQ runs the whole file again. *)
ImportThrows(f) ==
  /\ imp[f].pc = "throw"
  /\ imp' = [imp EXCEPT ![f].st = IF imp[f].made + 1 < Attempts THEN "waiting" ELSE "failed",
                        ![f].made = @ + 1, ![f].pc = "idle"]
  /\ UNCHANGED <<Apart, present, tags, events, left, reports>>

ImportDies(f) ==
  /\ imp[f].st = "active" /\ Crash
  /\ imp' = [imp EXCEPT ![f].st = IF imp[f].stalled THEN "failed" ELSE "waiting",
                        ![f].stalled = TRUE, ![f].pc = "idle"]
  /\ UNCHANGED <<Apart, present, tags, events, reports>>

ImportStep(f) ==
  \/ ReadBatch(f) \/ InvalidRow(f) \/ DuplicateRow(f) \/ NewRow(f)
  \/ GenerateReport(f) \/ ImportEnds(f) \/ ImportThrows(f)

ImportInit ==
  /\ imp = [f \in Files |->
            [st |-> IF f \in DOMAIN world.files THEN "waiting" ELSE "none", made |-> 0,
             stalled |-> FALSE, pc |-> "idle", pos |-> 0, known |-> {}, tally |-> NoTally]]
  /\ reports = [f \in Files |-> <<>>]

ImportNext == \E f \in Files : TakeFile(f) \/ ImportStep(f) \/ ImportDies(f)

=============================================================================
