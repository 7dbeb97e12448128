---------------------------- MODULE MCMainFrame ----------------------------
(* One view of messages of two processes, with filters of every type. *)
EXTENDS MainFrame

MCText == [a |-> "a", b |-> "b", c |-> "c"]
MCProcess == [a |-> "p", b |-> "q", c |-> "q"]

F(type, re) == [type |-> type, re |-> re, enable |-> TRUE, matched |-> FALSE]
Messages(f) == [process |-> <<>>, message |-> f]

OnceFilters ==
  [process |-> <<F("once", {"q"}), F("include", {"p"})>>,
   message |-> <<F("once", {"a"}), F("include", {"b"}), F("clear", {"b"}),
                 F("bookmark", {"b"})>>]
ScrollFilters == Messages(<<F("stop", {"a"}), F("track", {"b"})>>)

MCFilters == {Messages(<<>>), OnceFilters, ScrollFilters}
MCAdditions == {[list |-> "process", filter |-> F("exclude", {"p"})]}
=============================================================================
