----------------------------- MODULE MainFrame -----------------------------
(***************************************************************************)
(* CMainFrame: the lines of the log sources reach the log and the views in *)
(* buckets, one bucket in one turn of the GUI thread, so that the user     *)
(* keeps control while many lines come in.  The view is any of the views:  *)
(* they share nothing but the log and, when they are linked, the focused   *)
(* line.                                                                   *)
(***************************************************************************)
EXTENDS LogView, SequencesExt

CONSTANTS
  ClearBuffer,    \* kinds of messages that begin with DBGVIEWCLEAR
  Filters,        \* what the filter dialog may return
  Additions,      \* filters that the menu may add, with their list
  BucketSize,     \* 5000
  MaxLines,       \* bound on the lines received
  MaxFilters      \* bound on the length of a list of filters

ASSUME BucketAssumption == BucketSize \in Nat \ {0}

\* GetFilters makes new filters, which have not matched anything.
NewFilter == {f \in Filter : ~f.matched}

ASSUME FilterAssumption ==
  /\ Filters \subseteq [process : Seq(NewFilter), message : Seq(NewFilter)]
  /\ \A a \in Additions : a.list \in {"process", "message"} /\ a.filter \in Filter

VARIABLES
  m_linebuffer,        \* lines that GetLines has not taken yet
  m_incomingMessages,  \* buckets of lines that have not been processed
  timers,              \* calls of OnUpdate that the executor will make
  updating, batch,     \* ProcessLines is running, with these lines left
  m_logFile, view,
  received             \* history: the number of lines received

vars == <<m_linebuffer, m_incomingMessages, timers, updating, batch, m_logFile,
          view, received>>
incoming ==
  <<m_linebuffer, m_incomingMessages, timers, updating, batch, received>>

Init ==
  /\ m_linebuffer = <<>> /\ m_incomingMessages = <<>> /\ timers = 0
  /\ updating = FALSE /\ batch = <<>>
  /\ m_logFile = <<>> /\ received = 0
  /\ \E filter \in Filters : view = InitView(filter)

\* A log source adds a line, numbered to tell it from the others.
Receive(kind) ==
  /\ received < MaxLines
  /\ received' = received + 1
  /\ m_linebuffer' = Append(m_linebuffer, [n |-> received', kind |-> kind])
  /\ UNCHANGED <<m_incomingMessages, timers, updating, batch, m_logFile, view>>

------------------------------------------------------------------------------
(* OnUpdate; between its steps the GUI thread does nothing else. *)

\* Every width lines make one bucket, which the last of them ends without
\* being in it.
Cut(lines, width) ==
  LET End(k) == IF k * width - 1 < Len(lines) THEN k * width - 1 ELSE Len(lines)
  IN [k \in 1 .. (Len(lines) + width - 1) \div width |->
       SubSeq(lines, (k - 1) * width + 1, End(k))]

Buckets(lines) == Cut(lines, BucketSize + 1)

Pending == m_incomingMessages \o Buckets(m_linebuffer)

\* Mutant: the last bucket goes first.
OnUpdate_TakesLast ==
  /\ ~updating
  /\ m_linebuffer' = <<>>
  /\ IF Pending = <<>>
     THEN UNCHANGED <<m_incomingMessages, updating, batch>>
     ELSE /\ batch' = Last(Pending) /\ m_incomingMessages' = Front(Pending)
          /\ updating' = TRUE
  /\ UNCHANGED <<m_logFile, view, received>>

OnUpdate ==
  /\ ~updating
  /\ m_linebuffer' = <<>>
  /\ IF Pending = <<>>
     THEN UNCHANGED <<m_incomingMessages, updating, batch>>
     ELSE /\ batch' = Head(Pending) /\ m_incomingMessages' = Tail(Pending)
          /\ updating' = TRUE
  /\ UNCHANGED <<m_logFile, view, received>>

\* LogSources' update, throttled after new lines or at the end of a process.
Update == OnUpdate /\ UNCHANGED timers

Timer == timers > 0 /\ timers' = timers - 1 /\ OnUpdate

\* Mutant: the views keep their lines.
Cleared_KeepsViews == m_logFile' = <<>> /\ UNCHANGED view

\* ClearLog
Cleared == m_logFile' = <<>> /\ view' = Clear(<<>>, view)

\* CLogView::Add for the last line of the log; v and w are the view in between.
AddToView(log, message) ==
  \E v \in {ClearedFor(log, view)} :
    \E w \in {Appended(v, Len(log), message.kind)} :
      view' = IF w.lines = v.lines THEN w ELSE Mark(w, message.kind)

AddMessage ==
  /\ batch # <<>>
  /\ batch' = Tail(batch)
  /\ IF Head(batch).kind \in ClearBuffer THEN Cleared
     ELSE /\ m_logFile' = Append(m_logFile, Head(batch))
          /\ AddToView(m_logFile', Head(batch))
  /\ UNCHANGED <<m_linebuffer, m_incomingMessages, timers, updating, received>>

\* Mutant: the last bucket is left to the next update.
EndProcessLines_LeavesLast ==
  /\ updating /\ batch = <<>>
  /\ view' = EndUpdate(view)
  /\ updating' = FALSE
  /\ timers' = IF Len(m_incomingMessages) <= 1 THEN timers ELSE timers + 1
  /\ UNCHANGED <<m_linebuffer, m_incomingMessages, batch, m_logFile, received>>

EndProcessLines ==
  /\ updating /\ batch = <<>>
  /\ view' = EndUpdate(view)
  /\ updating' = FALSE
  /\ timers' = IF m_incomingMessages = <<>> THEN timers ELSE timers + 1
  /\ UNCHANGED <<m_linebuffer, m_incomingMessages, batch, m_logFile, received>>

------------------------------------------------------------------------------
(* The user *)

ClearLog == ~updating /\ Cleared /\ UNCHANGED incoming

\* What the user does to the view.
Becomes(v) == ~updating /\ view' = v /\ UNCHANGED <<incoming, m_logFile>>

\* ApplyFilters
BecomesFiltered(log, v) ==
  \E reached \in {Reached(log, v.filter, v.firstLine)} :
    \E shown \in {ShownOf(log, v.filter, reached)} :
      \E w \in {Refiltered(log, v, reached, shown)} : view' = EndUpdate(w)
Apply(v) ==
  ~updating /\ BecomesFiltered(m_logFile, v) /\ UNCHANGED <<incoming, m_logFile>>

\* The selection of the current view, from begin to end, becomes the log.
LogCrop(begin, end) ==
  /\ ~updating
  /\ begin < end
  /\ m_logFile' = SubSeq(m_logFile, begin, end)
  /\ BecomesFiltered(m_logFile', ResetToLine(Clear(m_logFile', view), 1))
  /\ UNCHANGED incoming

ViewClear == Becomes(Clear(m_logFile, view))
ViewReset == Apply(ResetToLine(view, 1))
ViewResetToLine == view.focus # 0 /\ Apply(ResetToLine(view, FocusLine(view)))
ViewFilter(filter) == Apply(SetFilters(view, filter))
ViewAddFilter(list, f) ==
  /\ Len(view.filter[list]) < MaxFilters
  /\ Apply(AddFilter(view, list, f))
ViewBookmark(i) == Becomes(ToggleBookmark(view, i))
ViewClearBookmarks == Becomes(ClearBookmarks(view))
ViewFindBookmark(direction) == Becomes(FindBookmark(view, direction))
ViewFind(text, direction) == Becomes(Find(m_logFile, view, text, direction))
ViewFindProcess(direction) ==
  view.focus # 0 /\ Becomes(FindProcess(m_logFile, view, direction))
ViewAutoScroll == Becomes(SetAutoScroll(view, ~view.autoScrollDown))
ViewAutoScrollStop == Becomes(SetAutoScrollStop(view, ~view.autoScrollStop))
EscapeKey == Becomes(StopScrolling(view))
Select(i) == Becomes(Focus(view, i))
\* The view is linked to the one the user comes from.
ChangeTab(line) == Becomes(SetFocusLine(view, line))

User ==
  \/ ClearLog \/ ViewClear \/ ViewReset \/ ViewResetToLine
  \/ \E begin, end \in DOMAIN m_logFile : LogCrop(begin, end)
  \/ \E filter \in Filters : ViewFilter(filter)
  \/ \E a \in Additions : ViewAddFilter(a.list, a.filter)
  \/ \E i \in DOMAIN view.lines : ViewBookmark(i) \/ Select(i)
  \/ \E direction \in {-1, 1} :
       \/ ViewFindBookmark(direction) \/ ViewFindProcess(direction)
       \/ \E kind \in Kinds : ViewFind(Text[kind], direction)
  \/ ViewClearBookmarks \/ ViewAutoScroll \/ ViewAutoScrollStop \/ EscapeKey
  \/ \E line \in DOMAIN m_logFile : ChangeTab(line)

ProcessLines == AddMessage \/ EndProcessLines

Next ==
  \/ \E kind \in Kinds : Receive(kind)
  \/ Update \/ Timer \/ ProcessLines \/ User

Spec == Init /\ [][Next]_vars

\* The throttle calls after new lines, the executor runs its timers.
FairSpec ==
  /\ Spec
  /\ WF_vars(m_linebuffer # <<>> /\ Update) /\ WF_vars(Timer)
  /\ WF_vars(ProcessLines)

------------------------------------------------------------------------------
(* However the log is cleared, cropped and filled, the view shows lines that
   are in it, in their order and once, and the focus is on one of them. *)
LinesAreInLog ==
  /\ Lines(view) \subseteq DOMAIN m_logFile
  /\ \A i, j \in DOMAIN view.lines : i < j => view.lines[i].line < view.lines[j].line
  /\ view.focus \in DOMAIN view.lines \cup {0}

(* What Add has collected line by line is what ApplyFilters would show;
   a line that cleared the view may be shown above the view's first line. *)
ShowsWhatItShould ==
  \/ Lines(view) = ShownLines(m_logFile, view.filter, view.firstLine)
  \/ /\ view.firstLine - 1 \in DOMAIN m_logFile
     /\ IsClearMessage(view.filter, m_logFile[view.firstLine - 1].kind)
     /\ Lines(view) = ShownLines(m_logFile, view.filter, view.firstLine - 1)

(* New filters or another first line leave the bookmarks where they are, if
   every line that has one is still shown; only a crop, here of all lines,
   removes them. *)
BookmarksStay ==
  [][/\ m_logFile' = m_logFile
     /\ view.filter' # view.filter \/ view.firstLine' # view.firstLine
     /\ Bookmarked(view) \subseteq Lines(view')
     => \/ Bookmarked(view') = Bookmarked(view)
        \/ LogCrop(1, Len(m_logFile))]_vars

(* New lines do not move the focus while auto scroll is off, unless there is a
   line that a track filter matches and that is not centered yet. *)
SelectionStays ==
  [][EndProcessLines /\ ~view.autoScrollDown /\ view.track = 0
     => FocusLine(view') = FocusLine(view)]_vars

(* Lines are logged in the order in which they were received: those in buckets
   are later than those in the log, and earlier than those not yet taken. *)
OrderIsKept ==
  LET all == m_logFile \o batch \o FlattenSeq(m_incomingMessages) \o m_linebuffer
  IN \A i, j \in DOMAIN all : i < j => all[i].n < all[j].n

(* New lines reach the log, or are dropped by it, without any further update
   of the log sources. *)
LinesAreProcessed ==
  m_linebuffer # <<>>
    ~> m_linebuffer = <<>> /\ m_incomingMessages = <<>> /\ batch = <<>>
=============================================================================
