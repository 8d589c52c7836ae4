----------------------------- MODULE MCEngagement -----------------------------
(***************************************************************************)
(* Values for model checking Engagement: the accounts, workflows, files    *)
(* and events that are considered.                                         *)
(***************************************************************************)
EXTENDS EngagementProperties

(* Contacts 1 and 2 have the same number. *)
MCEmailOf == [c \in Contacts |-> <<"mail", c>>]
MCPhoneOf == [c \in Contacts |-> IF c = 3 THEN None ELSE <<"phone", 1>>]

-----------------------------------------------------------------------------
(* Workflows *)

ANode == [type |-> "action", next |-> 0, yes |-> 0, no |-> 0, retries |-> 1,
          tag |-> None, remove |-> FALSE]
Action(retries) == [ANode EXCEPT !.retries = retries]
Start == [ANode EXCEPT !.type = "trigger"]
WaitNode == [ANode EXCEPT !.type = "wait"]
EndNode == [ANode EXCEPT !.type = "end"]
TagNode(t, remove) == [ANode EXCEPT !.type = "tag", !.tag = t, !.remove = remove]
Test(t) == [ANode EXCEPT !.type = "condition", !.tag = t]
Edge(a, b) == [from |-> a, to |-> b, port |-> "bottom"]
Port(a, b, p) == [from |-> a, to |-> b, port |-> p]

Message == [isFlow |-> FALSE, start |-> 0, nodes |-> <<>>, edges |-> <<>>]
TwoMessages ==
  [isFlow |-> TRUE, start |-> 0,
   nodes |-> <<Start, Action(1), Action(1), EndNode>>,
   edges |-> <<Edge(1, 2), Edge(2, 3), Edge(3, 4)>>]
RetriedMessage ==
  [isFlow |-> TRUE, start |-> 2, nodes |-> <<EndNode, Action(3)>>, edges |-> <<Edge(2, 1)>>]
MessageWaitMessage ==
  [isFlow |-> TRUE, start |-> 0,
   nodes |-> <<Action(1), WaitNode, Action(1)>>, edges |-> <<Edge(1, 2), Edge(2, 3)>>]
MessagesThenWait ==
  [isFlow |-> TRUE, start |-> 0,
   nodes |-> <<Action(1), Action(1), WaitNode>>, edges |-> <<Edge(1, 2), Edge(2, 3)>>]
TagAndTest ==
  [isFlow |-> TRUE, start |-> 0,
   nodes |-> <<Start, TagNode("new", FALSE), Test("new"), Action(1), TagNode("vip", TRUE), EndNode>>,
   edges |-> <<Edge(1, 2), Edge(2, 3), Port(3, 5, "left"), Port(3, 4, "right"), Edge(5, 6)>>]
OpenedOrNot ==
  [isFlow |-> TRUE, start |-> 0,
   nodes |-> <<[Test(None) EXCEPT !.no = 2], Action(1)>>, edges |-> <<>>]
LeadsNowhere ==
  [isFlow |-> TRUE, start |-> 0,
   nodes |-> <<TagNode(None, FALSE), Action(2), WaitNode>>,
   edges |-> <<Edge(1, 2), Edge(2, 3), Edge(3, 5)>>]

-----------------------------------------------------------------------------
(* Worlds *)

NoFiles == <<>>
World ==
  [trigger |-> "none", workflow |-> Message, status |-> {"Active"}, present |-> {},
   reachable |-> Contacts, credit |-> 2, files |-> NoFiles, messages |-> {}, operations |-> {},
   lists |-> {{}}, segment |-> "active", keys |-> {},
   lastDay |-> 0, faults |-> 0, crashes |-> 0, requests |-> 0, deliveries |-> 0]

R(c, t) == [contact |-> c, tags |-> t]

(* Two files, one of which repeats a contact of the other under another
   address, are imported and what is new is welcomed. *)
Importing(failures) ==
  [World EXCEPT !.trigger = "contact_added", !.present = {},
     !.files = [f \in Files |->
        IF f = Min(Files) THEN <<R(1, {}), R(None, {}), R(3, {"vip"})>>
        ELSE <<R(2, {"vip"}), R(3, {})>>],
     !.faults = failures[1], !.crashes = failures[2]]

TwoWelcomes ==
  [f \in Files |-> IF f = Min(Files) THEN <<R(1, {}), R(3, {})>> ELSE <<R(3, {})>>]
OneKey ==
  [f \in Files |-> IF f = Min(Files) THEN <<R(1, {}), R(3, {}), R(2, {})>> ELSE <<R(2, {})>>]

(* One contact is taken through a workflow by hand, whatever happens to the
   automation meanwhile. *)
Following(flow, failures) ==
  [World EXCEPT !.workflow = flow, !.present = {3}, !.requests = 2,
     !.operations = {"trigger", "toggle", "delete"}, !.status = {"Active", "Inactive"},
     !.faults = failures[1], !.crashes = failures[2]]

(* An automation with a date, or for every day. *)
Scheduled(trigger, contacts, failures, operations) ==
  [World EXCEPT !.trigger = trigger, !.present = contacts, !.credit = 1,
     !.operations = operations, !.requests = Cardinality(operations),
     !.lastDay = MaxDay, !.faults = failures[1], !.crashes = failures[2]]

M(src, kinds) == {[src |-> src, kind |-> k] : k \in kinds}
Delivering(messages, n, failures) ==
  [World EXCEPT !.present = {3}, !.messages = messages, !.deliveries = n,
     !.faults = failures[1], !.crashes = failures[2]]

(* Contacts are written by requests, and a segment is counted. *)
Booking(operations, rule, trigger, n, failures) ==
  [World EXCEPT !.operations = operations, !.segment = rule, !.trigger = trigger,
     !.present = {3}, !.requests = n, !.faults = failures[1], !.crashes = failures[2]]

(* Keys are made and revoked, and the API is called. *)
Calling(operations, n, failures) ==
  [World EXCEPT !.operations = operations, !.present = {3}, !.keys = {1}, !.requests = n,
     !.faults = failures[1], !.crashes = failures[2]]

(* Credit is bought by card and used up. *)
Paying(operations, n, failures) ==
  [World EXCEPT !.operations = operations, !.present = {3}, !.credit = 1, !.keys = {1},
     !.requests = n, !.deliveries = 1, !.faults = failures[1], !.crashes = failures[2]]

MCWorlds ==
  {[Importing(<<0, 0>>) EXCEPT !.files = TwoWelcomes],
   [Importing(<<0, 0>>) EXCEPT !.present = {1}],
   [Importing(<<0, 0>>) EXCEPT !.present = {3}],
   [Importing(<<1, 0>>) EXCEPT !.status = {"Inactive"}],
   [Importing(<<0, 1>>) EXCEPT !.status = {"Inactive"}, !.files = OneKey],
   [Importing(<<1, 1>>) EXCEPT !.files = [f \in {1} |-> <<R(2, {}), R(1, {"vip"})>>]],
   Following(Message, <<1, 1>>),
   [Following(Message, <<0, 1>>) EXCEPT !.requests = 3, !.status = {"Active"}],
   [Following(TwoMessages, <<1, 1>>) EXCEPT !.requests = 1],
   Following(TwoMessages, <<1, 0>>),
   Following(TwoMessages, <<0, 1>>),
   [Following(TwoMessages, <<0, 0>>) EXCEPT !.requests = 3, !.status = {"Active"}],
   [Following(MessageWaitMessage, <<1, 1>>) EXCEPT !.requests = 1],
   Following(MessageWaitMessage, <<1, 0>>),
   Following(MessageWaitMessage, <<0, 1>>),
   [Following(MessagesThenWait, <<0, 1>>) EXCEPT !.status = {"Active"}],
   Following(RetriedMessage, <<2, 0>>),
   Following(TagAndTest, <<1, 0>>),
   Following(TagAndTest, <<0, 1>>),
   Following(OpenedOrNot, <<1, 0>>),
   [Following(LeadsNowhere, <<1, 0>>) EXCEPT !.status = {"Active"}],
   [Scheduled("date_based", {2, 3}, <<0, 0>>, {}) EXCEPT !.lastDay = 0],
   [Scheduled("date_based", {2}, <<1, 0>>, {}) EXCEPT !.lastDay = 0],
   [Scheduled("date_based", {2}, <<0, 1>>, {}) EXCEPT !.lastDay = 0],
   [Scheduled("date_based", {2}, <<0, 0>>, {"date"}) EXCEPT !.lastDay = 0],
   Scheduled("recurring_schedule", {2}, <<0, 1>>, {}),
   [Scheduled("recurring_schedule", {2, 3}, <<1, 0>>, {}) EXCEPT !.lastDay = 0],
   Scheduled("recurring_schedule", {2}, <<0, 0>>, {"optOut"}),
   [Scheduled("recurring_schedule", {2, 3}, <<0, 0>>, {"optOut"}) EXCEPT !.lastDay = 0],
   [Scheduled("birthday", {2, 3}, <<0, 0>>, {}) EXCEPT !.reachable = {2}, !.lastDay = 0],
   Scheduled("inactivity_window", {2}, <<0, 0>>, {}),
   Delivering(M("resend", {"open", "click", "bounce", "unsubscribe"}), 3, <<0, 1>>),
   Delivering(M("resend", {"open", "click"}) \cup M("sms", {"stop", "failed"}), 3, <<1, 0>>),
   Delivering(M("link", {"open", "click", "unsubscribe"}) \cup M("resend", {"open"}), 3, <<0, 1>>),
   [Delivering(M("email", {"open", "click", "sent", "hard", "soft"}), 2, <<0, 0>>)
      EXCEPT !.trigger = "campaign_opened"],
   [Delivering(M("email", {"open"}) \cup M("card", {"succeeded", "failed"}), 3, <<0, 1>>)
      EXCEPT !.trigger = "campaign_opened", !.credit = 0],
   [Booking({"create", "update"}, "vip", "segment_joined", 2, <<0, 0>>) EXCEPT !.lists = {{"vip"}}],
   [Booking({"update"}, "vip", "segment_joined", 2, <<0, 0>>) EXCEPT !.lists = {{}, {"vip"}}],
   [Booking({"addTags"}, "vip", "tag_added", 2, <<0, 0>>) EXCEPT !.lists = {{"vip"}}],
   [Booking({"addTags"}, "vip", "tag_added", 2, <<0, 0>>) EXCEPT !.lists = {{"new"}}],
   [Booking({"optOut", "optIn"}, "active", "none", 3, <<0, 0>>) EXCEPT !.present = {1, 3}],
   Booking({"create", "optOut"}, "active", "none", 2, <<1, 1>>),
   Calling({"createKey", "revokeKey"}, 4, <<0, 1>>),
   [Calling({"sms", "trigger"}, 3, <<0, 0>>) EXCEPT !.credit = 1],
   [Calling({"sms"}, 2, <<1, 1>>) EXCEPT !.messages = M("card", {"succeeded"}), !.deliveries = 1],
   Paying({"visa"}, 3, <<1, 1>>),
   [Paying({"visa", "sms"}, 3, <<0, 0>>) EXCEPT !.messages = M("card", {"succeeded"})]}

(* Nothing fails here, but one contact has no address to send to. *)
MCWaitWorlds ==
  {[Following(MessageWaitMessage, <<0, 0>>) EXCEPT !.requests = 1, !.status = {"Active"}],
   [Following(RetriedMessage, <<0, 0>>) EXCEPT !.requests = 1, !.reachable = {}]}

=============================================================================
