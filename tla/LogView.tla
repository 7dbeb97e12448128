------------------------------ MODULE LogView ------------------------------
(***************************************************************************)
(* CLogView: the lines of the log that one view shows, its bookmarks, the  *)
(* focused line and the filters.  A view is a record, its operations are   *)
(* functions of the record and of the log; they all run on the GUI thread, *)
(* one at a time, called by MainFrame.                                     *)
(*                                                                         *)
(* Lines and items are counted from 1, and 0 stands for the -1 of "none".  *)
(* A view has                                                              *)
(*   firstLine, lines, filter   m_firstLine, m_logLines, m_filter          *)
(*   autoScrollDown, autoScrollStop                                        *)
(*   dirty                      m_dirty                                    *)
(*   focus                      the item that the list control focuses     *)
(*   stop, track                the item that m_stop, m_track scroll to    *)
(***************************************************************************)
EXTENDS Integers, Sequences, FiniteSets

CONSTANTS
  Kinds,          \* of messages
  Text, Process,  \* text and process name of a message of every kind
  Padding         \* GetCountPerPage() / 2

ASSUME PaddingAssumption == Padding \in Nat

FilterTypes == {"include", "exclude", "once", "clear", "track", "stop",
                "bookmark"}

InitView(filter) ==
  [firstLine |-> 1, lines |-> <<>>, filter |-> filter, focus |-> 0,
   autoScrollDown |-> TRUE, autoScrollStop |-> TRUE, dirty |-> FALSE,
   stop |-> 0, track |-> 0]

------------------------------------------------------------------------------
(* Filters; re is the set of the texts that the expression is found in. *)

Filter ==
  [type : FilterTypes, re : SUBSET ({Text[k] : k \in Kinds} \cup {Process[k] : k \in Kinds}),
   enable : BOOLEAN, matched : BOOLEAN]
LogFilter == [process : Seq(Filter), message : Seq(Filter)]

Hits(f, type, text) == f.enable /\ f.type = type /\ text \in f.re

MatchFilterType(filters, type, text) ==
  \E i \in DOMAIN filters : Hits(filters[i], type, text)

Excluded(filters, text) == MatchFilterType(filters, "exclude", text)

\* Without an include filter everything is included.
Included(filters, text) ==
  /\ ~Excluded(filters, text)
  /\ \/ \A i \in DOMAIN filters :
          ~(filters[i].enable /\ filters[i].type = "include")
     \/ MatchFilterType(filters, "include", text)
     \/ \E i \in DOMAIN filters :
          Hits(filters[i], "once", text) /\ ~filters[i].matched

\* The once filters that were matched stay so, unless IsIncluded returned early.
MarkOnce(filters, text) ==
  [i \in DOMAIN filters |->
    [filters[i] EXCEPT !.matched =
       @ \/ (Hits(filters[i], "once", text) /\ ~Excluded(filters, text))]]

\* IsIncluded and what it does to the filters.
IsIncluded(filter, kind) ==
  /\ Included(filter.process, Process[kind])
  /\ Included(filter.message, Text[kind])

MarkFilters(filter, kind) ==
  [process |-> MarkOnce(filter.process, Process[kind]),
   message |-> IF Included(filter.process, Process[kind])
               THEN MarkOnce(filter.message, Text[kind])
               ELSE filter.message]

Matches(filter, type, kind) ==
  \/ MatchFilterType(filter.message, type, Text[kind])
  \/ MatchFilterType(filter.process, type, Process[kind])

IsClearMessage(filter, kind) ==
  MatchFilterType(filter.message, "clear", Text[kind])

Rearmed(filters) ==
  [i \in DOMAIN filters |->
    [filters[i] EXCEPT !.matched = @ /\ filters[i].type # "once"]]
ResetFilters(filter) ==
  [process |-> Rearmed(filter.process), message |-> Rearmed(filter.message)]

Disarmed(filters) ==
  [i \in DOMAIN filters |->
    [filters[i] EXCEPT !.enable = @ /\ filters[i].type # "track"]]
DisableTrack(filter) ==
  [process |-> Disarmed(filter.process), message |-> Disarmed(filter.message)]

------------------------------------------------------------------------------
(* The list control *)

\* OnItemChanged, which the control calls for every change of the item that has
\* the focus.
Focus(v, i) ==
  [v EXCEPT !.focus = i,
            !.autoScrollDown = IF v.autoScrollStop THEN i = Len(v.lines) ELSE @]

ScrollToIndex(v, i) == IF i \in DOMAIN v.lines THEN Focus(v, i) ELSE v

\* What ScrollToIndex returns when it is asked to center the item.
IsCentered(v, i) ==
  i \notin DOMAIN v.lines \/ i - 1 <= Padding \/ i + Padding <= Len(v.lines)

ClearSelection(v) == ScrollToIndex(v, v.focus)

ScrollDown(v) == ScrollToIndex(v, Len(v.lines))

StopTracking(v) == [v EXCEPT !.track = 0]

StopScrolling(v) ==
  StopTracking([v EXCEPT !.autoScrollDown = FALSE,
                         !.filter = DisableTrack(v.filter)])

FocusLine(v) == IF v.focus = 0 THEN 0 ELSE v.lines[v.focus].line

------------------------------------------------------------------------------
(* Lines are added *)

\* Mutant: the once filters are not reset.
Clear_KeepsMatches(log, v) ==
  [v EXCEPT !.firstLine = Len(log) + 1, !.lines = <<>>, !.focus = 0,
            !.dirty = FALSE, !.autoScrollDown = @ \/ v.autoScrollStop]

Clear(log, v) ==
  [v EXCEPT !.firstLine = Len(log) + 1, !.lines = <<>>, !.focus = 0,
            !.dirty = FALSE, !.autoScrollDown = @ \/ v.autoScrollStop,
            !.filter = ResetFilters(v.filter)]

\* The first steps of Add, for the last line of the log: a clear filter may clear
\* the view, then the line is included or not.
ClearedFor(log, v) ==
  IF IsClearMessage(v.filter, log[Len(log)].kind) THEN Clear(log, v) ELSE v

Appended(v, line, kind) ==
  LET w == [v EXCEPT !.filter = MarkFilters(v.filter, kind)]
  IN IF IsIncluded(v.filter, kind)
     THEN [w EXCEPT !.dirty = TRUE,
                    !.lines = Append(@,
                      [line |-> line, bookmark |-> Matches(v.filter, "bookmark", kind)])]
     ELSE w

\* Mutant: a stop filter does not need auto scroll.
Mark_StopsAlways(v, kind) ==
  IF Matches(v.filter, "stop", kind)
    THEN [v EXCEPT !.stop = Len(v.lines)]
  ELSE IF Matches(v.filter, "track", kind)
    THEN [v EXCEPT !.autoScrollDown = FALSE, !.track = Len(v.lines)]
  ELSE v

\* The line that was appended is where m_stop, or else m_track, will scroll to.
Mark(v, kind) ==
  IF v.autoScrollDown /\ Matches(v.filter, "stop", kind)
    THEN [v EXCEPT !.stop = Len(v.lines)]
  ELSE IF Matches(v.filter, "track", kind)
    THEN [v EXCEPT !.autoScrollDown = FALSE, !.track = Len(v.lines)]
  ELSE v

RunStop(v) ==
  IF v.stop = 0 THEN v
  ELSE [ScrollToIndex(StopScrolling(v), v.stop) EXCEPT !.stop = 0]

RunTrack(v) ==
  IF v.track = 0 THEN v
  ELSE LET w == ScrollToIndex(v, v.track)
       IN IF IsCentered(v, v.track) THEN StopTracking(w) ELSE w

EndUpdate(v) ==
  LET w == IF v.dirty /\ v.autoScrollDown THEN ScrollDown(v) ELSE v
  IN RunTrack(RunStop([w EXCEPT !.dirty = FALSE]))

------------------------------------------------------------------------------
(* ApplyFilters: the lines from the first one on are filtered anew.  Its loop
   asks IsIncluded of one line after the other, the once filters being reset at
   its beginning; what it collects is written without the loop.  T[i] is the
   text of line i, or its process name. *)

\* The lines of reach that are included: of those that are not excluded, a once
\* filter includes the first that it matches.
Passed(filters, reach, T) ==
  {i \in reach :
    /\ ~Excluded(filters, T[i])
    /\ \/ \A k \in DOMAIN filters :
            ~(filters[k].enable /\ filters[k].type = "include")
       \/ MatchFilterType(filters, "include", T[i])
       \/ \E k \in DOMAIN filters :
            /\ Hits(filters[k], "once", T[i])
            /\ \A j \in reach : j < i /\ Hits(filters[k], "once", T[j])
                               => Excluded(filters, T[j])}

Marked(filters, reach, T) ==
  [k \in DOMAIN filters |->
    [Rearmed(filters)[k] EXCEPT !.matched =
       @ \/ \E i \in reach : /\ Hits(filters[k], "once", T[i])
                             /\ ~Excluded(filters, T[i])]]

\* The lines whose process is included, and of these the lines that are shown.
ProcessesOf(log, first) == [i \in first .. Len(log) |-> Process[log[i].kind]]
TextsOf(log, lines) == [i \in lines |-> Text[log[i].kind]]

Reached(log, filter, first) ==
  Passed(filter.process, first .. Len(log), ProcessesOf(log, first))
ShownOf(log, filter, reached) ==
  Passed(filter.message, reached, TextsOf(log, reached))
ShownLines(log, filter, first) ==
  ShownOf(log, filter, Reached(log, filter, first))

MarkedFilters(log, filter, first, reached) ==
  [process |-> Marked(filter.process, first .. Len(log), ProcessesOf(log, first)),
   message |-> Marked(filter.message, reached, TextsOf(log, reached))]

Lines(v) == {v.lines[i].line : i \in DOMAIN v.lines}
Bookmarked(v) == {v.lines[i].line : i \in {j \in DOMAIN v.lines : v.lines[j].bookmark}}

\* Mutant: the iterator does not advance.
BookmarksKept_One(v, shown) ==
  {b \in Bookmarked(v) \cap shown : \A c \in Bookmarked(v) : b <= c}

\* The iterator of the old bookmarks waits at the first that is not shown.
BookmarksKept(v, shown) ==
  {b \in Bookmarked(v) : \A c \in Bookmarked(v) : c <= b => c \in shown}

\* How many of these lines are not after line l, and the lines one by one.
Place(shown, l) == Cardinality({k \in shown : k <= l})
Listed(shown) ==
  [i \in 1 .. Cardinality(shown) |-> CHOOSE l \in shown : Place(shown, l) = i]

\* ApplyFilters up to its call of EndUpdate, for these lines.
Refiltered(log, v, reached, shown) ==
  LET lines == Listed(shown)
      w == [ClearSelection(v) EXCEPT
             !.filter = MarkedFilters(log, v.filter, v.firstLine, reached),
             !.lines = [i \in DOMAIN lines |->
                         [line |-> lines[i],
                          bookmark |-> lines[i] \in BookmarksKept(v, shown)]],
             !.focus = 0]
  IN ScrollToIndex(w, Place(shown, FocusLine(v)))

\* The view that SetFilters, ResetToLine and the menu's AddMessageFilter,
\* AddProcessFilter and OnViewExcludeLines call ApplyFilters for.
SetFilters(v, filter) == [StopTracking(v) EXCEPT !.filter = filter]
ResetToLine(v, line) == [StopTracking(v) EXCEPT !.firstLine = line]
AddFilter(v, list, f) == [v EXCEPT !.filter[list] = Append(@, f)]

------------------------------------------------------------------------------
(* The user looks for lines *)

ToggleBookmark(v, i) == [v EXCEPT !.lines[i].bookmark = ~@]

ClearBookmarks(v) ==
  [v EXCEPT !.lines = [i \in DOMAIN v.lines |->
                        [v.lines[i] EXCEPT !.bookmark = FALSE]]]

\* The first of the items looked for, from the focused one, which comes last.
FindLine(v, wanted, direction) ==
  LET size == Len(v.lines)
      begin == IF v.focus = 0 THEN 1 ELSE v.focus
      Item(k) == ((begin - 1 + k * direction) % size) + 1
      found == {k \in 1 .. size : Item(k) \in wanted}
  IN IF found = {} THEN 0
     ELSE Item(CHOOSE k \in found : \A j \in found : k <= j)

FindBookmark(v, direction) ==
  ScrollToIndex(v,
    FindLine(v, {i \in DOMAIN v.lines : v.lines[i].bookmark}, direction))

Find(log, v, text, direction) ==
  LET wanted == {j \in DOMAIN v.lines : Text[log[v.lines[j].line].kind] = text}
      i == FindLine(v, wanted, direction)
      w == StopTracking(v)
  IN IF i = v.focus THEN w ELSE ScrollToIndex(w, i)

FindProcess(log, v, direction) ==
  LET name == Process[log[FocusLine(v)].kind]
      wanted == {j \in DOMAIN v.lines : Process[log[v.lines[j].line].kind] = name}
      i == FindLine(v, wanted, direction)
  IN IF v.focus = 0 \/ i = v.focus THEN v ELSE ScrollToIndex(StopTracking(v), i)

\* The last item whose line is not after the given one.
SetFocusLine(v, line) ==
  LET before == {i \in DOMAIN v.lines : v.lines[i].line <= line}
  IN IF before = {} THEN v
     ELSE ScrollToIndex(v, CHOOSE i \in before : \A j \in before : j <= i)

SetAutoScroll(v, enable) ==
  LET w == [v EXCEPT !.autoScrollDown = enable]
  IN IF enable THEN ScrollDown(w) ELSE w

SetAutoScrollStop(v, enable) == [v EXCEPT !.autoScrollStop = enable]
=============================================================================
