--------------------------- MODULE ProcessesProofs ---------------------------
(***************************************************************************)
(* Proofs about Processes, for any processes, pids, windows and limits:    *)
(* the entries of m_pidMap and the way they take through ProcessMonitor    *)
(* and OnProcessEnded are one to one, text is not mixed, and the end of a  *)
(* process is the last that is shown of it.                                *)
(***************************************************************************)
EXTENDS Processes, SequenceTheorems, WellFoundedInduction, TLAPS

Piece == [of : Processes, what : {"text", "end"}]
LineSet == [handle : Processes \cup {NoProcess}, id : Pids, text : Seq(Piece),
            newline : BOOLEAN, loopback : BOOLEAN]
Entry == [id : Pids, process : Processes]

\* The lines that wait for GetLines' loop, in their order.
Pending == lines \o m_linebuffer

TypeOK ==
  /\ life \in [Processes -> {"unborn", "running", "ended"}]
  /\ pid \in [Processes -> Pids \cup {0}]
  /\ \A p \in Processes : life[p] # "unborn" => pid[p] \in Pids
  /\ slot = NoText
     \/ slot \in [writer : Processes, id : Pids, newline : BOOLEAN]
  /\ m_linebuffer \in Seq(LineSet) /\ lines \in Seq(LineSet)
  /\ m_pidMap \in [Pids -> Processes \cup {NoProcess}]
  /\ m_lineBuffers \in [Pids -> Seq(Piece)] /\ autoNewLine \in BOOLEAN
  /\ calls \in Seq(Entry)
  /\ epc \in {"idle", "flush", "terminate", "erase", "join", "gone"}
  /\ current \in Entry \cup {NoEntry}
  /\ connected \in BOOLEAN
  /\ m_q \in Seq(Entry \cup {NoEntry}) /\ m_processes \in Seq(Entry)
  /\ offset \in Nat /\ ended \in Nat
  /\ mpc \in {"wait", "drain", "remove", "exited"}
  /\ lastOut \in [Processes -> {"nothing", "text", "end"}] /\ mixed \in BOOLEAN
  /\ late \subseteq Processes /\ untracked \subseteq Processes

\* Where the threads are.  Abort ends the executor's work, and adds its entry
\* last.
Threads ==
  /\ epc \in {"flush", "terminate", "erase"} <=> current # NoEntry
  /\ epc \in {"join", "gone"} <=> ~connected
  /\ epc \notin {"idle", "flush"} => lines = <<>>
  /\ mpc # "remove" => ended = 0
  /\ mpc = "remove" => ended \in 1 .. Len(m_processes)
  /\ \A i \in 1 .. Len(m_q) : m_q[i] = NoEntry => ~connected /\ i = Len(m_q)

\* A pid belongs to one process at a time, and a handle was opened by the pid.
Handles ==
  /\ \A p, q \in Processes : Exists(p) /\ Exists(q) /\ pid[p] = pid[q] => p = q
  /\ \A i \in 1 .. Len(Pending) : LET h == Pending[i].handle IN
       h # NoProcess => life[h] # "unborn" /\ pid[h] = Pending[i].id
  /\ \A id \in Pids : LET h == m_pidMap[id] IN
       h # NoProcess => life[h] # "unborn" /\ pid[h] = id
  /\ slot # NoText => life[slot.writer] # "unborn" /\ pid[slot.writer] = slot.id

\* The entries of s at the indices D are of different pids, and those of map.
Tracks(s, D, map) ==
  /\ \A i \in D : map[s[i].id] = s[i].process
  /\ \A i, j \in D : s[i].id = s[j].id => i = j
IdsOf(s, D) == {s[i].id : i \in D}

Watching == (1 .. Len(m_processes)) \ {ended}
AddedIds == IdsOf(m_q, 1 .. Len(m_q))
WatchedIds == IdsOf(m_processes, Watching)
PostedIds == IdsOf(calls, 1 .. Len(calls))
HandledIds == IF current = NoEntry THEN {} ELSE {current.id}
TrackedIds == {id \in Pids : m_pidMap[id] # NoProcess}

\* TrackedOnce, by the lists that an entry passes.
Tracked ==
  connected =>
    /\ Tracks(m_q, 1 .. Len(m_q), m_pidMap)
    /\ Tracks(m_processes, Watching, m_pidMap)
    /\ Tracks(calls, 1 .. Len(calls), m_pidMap)
    /\ current # NoEntry => m_pidMap[current.id] = current.process
    /\ AddedIds \cap WatchedIds = {} /\ AddedIds \cap PostedIds = {}
    /\ AddedIds \cap HandledIds = {} /\ WatchedIds \cap PostedIds = {}
    /\ WatchedIds \cap HandledIds = {} /\ PostedIds \cap HandledIds = {}
    /\ TrackedIds = AddedIds \cup WatchedIds \cup PostedIds \cup HandledIds

\* What is written when the process of an entry has ended.
EndLine(p, id) == Line(NoProcess, id, <<End(p)>>, FALSE, TRUE)

Has(text, p) == \E i \in 1 .. Len(text) : text[i].of = p

\* p is tracked under id, or its end is after k in what is pending.
Ends(map, pend, p, id, k) ==
  map[id] = p \/ \E j \in k + 1 .. Len(pend) : pend[j] = EndLine(p, id)

\* A line is of the buffer, and then knows its writer or not, or of Loopback.
Lines ==
  /\ \A i \in 1 .. Len(Pending) :
       /\ Pending[i].text # <<>>
       /\ Pending[i].loopback => Pending[i].handle = NoProcess
       /\ ~Pending[i].loopback =>
            \E w \in Processes :
              Pending[i].text = <<Text(w)>> /\ w \in {Pending[i].handle} \cup untracked
  /\ epc = "flush" => \A i \in 1 .. Len(m_linebuffer) : ~m_linebuffer[i].loopback
  /\ epc = "erase" => \E j \in 1 .. Len(m_linebuffer) :
       /\ m_linebuffer[j] = EndLine(current.process, current.id)
       /\ \A i \in j + 1 .. Len(m_linebuffer) : ~m_linebuffer[i].loopback

\* The end is still to come for a process of which text is held, is pending or
\* was shown last.
LineEnds(map, pend, p, k) ==
  Has(pend[k].text, p) =>
    \/ pend[k] = EndLine(p, pend[k].id) \/ pend[k].handle = p
    \/ Ends(map, pend, p, pend[k].id, k)

Ending ==
  \A p \in Processes \ untracked :
    /\ \A id \in Pids :
         Has(m_lineBuffers[id], p) => Ends(m_pidMap, Pending, p, id, 0)
    /\ \A k \in 1 .. Len(Pending) : LineEnds(m_pidMap, Pending, p, k)
    /\ lastOut[p] = "text" => \E id \in Pids : Ends(m_pidMap, Pending, p, id, 0)

OneOwner(text) == \A i, j \in 1 .. Len(text) : text[i].of = text[j].of

\* Between the text of two processes under one pid there is a line of Loopback,
\* which empties the filter.
HeldApart(held, pend, l) ==
  LET id == pend[l].id IN held[id] # <<>> =>
    \/ held[id][1].of = pend[l].text[1].of
    \/ \E j \in 1 .. l - 1 : pend[j].id = id /\ pend[j].loopback
LinesApart(pend, k, l) ==
  pend[k].id = pend[l].id =>
    \/ pend[k].text[1].of = pend[l].text[1].of
    \/ \E j \in k .. l - 1 : pend[j].id = pend[l].id /\ pend[j].loopback

Apart ==
  late = {} =>
    /\ untracked = {} /\ ~mixed
    /\ \A id \in Pids : OneOwner(m_lineBuffers[id])
    /\ \A k \in 1 .. Len(Pending) : OneOwner(Pending[k].text)
    /\ \A l \in 1 .. Len(Pending) :
         /\ HeldApart(m_lineBuffers, Pending, l)
         /\ \A k \in 1 .. l - 1 : LinesApart(Pending, k, l)

PInv == TypeOK /\ Threads /\ Handles /\ Tracked /\ Lines /\ Ending /\ Apart

------------------------------------------------------------------------------
(* Sequences *)

LEMMA FunctionIsSeq ==
  ASSUME NEW S, NEW n \in Nat, NEW f \in [1 .. n -> S]
  PROVE  f \in Seq(S) /\ Len(f) = n
<1>1. f \in Seq(S)
  BY SeqDef
<1>2. DOMAIN f = 1 .. n /\ DOMAIN f = 1 .. Len(f) /\ Len(f) \in Nat
  BY <1>1, LenProperties
<1> QED BY <1>1, <1>2

LEMMA LeastNatural ==
  ASSUME NEW S, S \subseteq Nat, S # {}
  PROVE  \E n \in S : \A m \in S : n <= m
<1> DEFINE R == OpToRel(<, Nat)
<1>1. IsWellFoundedOn(R, Nat)
  BY NatLessThanWellFounded
<1> HIDE DEF R
<1>2. PICK n \in S : \A m \in S : ~ (<<m, n>> \in R)
  BY <1>1, WFMin
<1>3. ASSUME NEW m \in S PROVE n <= m
  <2>1. m < n => <<m, n>> \in R
    BY DEF R, OpToRel
  <2> QED BY <1>2, <2>1
<1> QED BY <1>3

LEMMA GreatestIndex ==
  ASSUME NEW n \in Nat, NEW S, S \subseteq 1 .. n, S # {}
  PROVE  \E i \in S : \A j \in S : j <= i
<1> DEFINE T == {n - i : i \in S}
<1>0. \A i \in S : n - i \in Nat
  OBVIOUS
<1>1. T \subseteq Nat /\ T # {}
  BY <1>0
<1>2. PICK m \in T : \A k \in T : m <= k
  BY <1>1, LeastNatural
<1>3. PICK i \in S : m = n - i
  BY <1>2
<1>4. \A j \in S : n - i <= n - j
  BY <1>2, <1>3
<1>5. \A j \in S : j <= i
  BY <1>4
<1> QED BY <1>5

LEMMA ConcatAppend ==
  ASSUME NEW S, NEW s \in Seq(S), NEW t \in Seq(S), NEW e \in S
  PROVE  s \o Append(t, e) = Append(s \o t, e)
<1>1. Append(t, e) = t \o <<e>> /\ <<e>> \in Seq(S)
  BY AppendIsConcat
<1>2. s \o t \in Seq(S)
  BY ConcatProperties
<1> QED BY <1>1, <1>2, AppendIsConcat, ConcatAssociative

LEMMA ConcatTail ==
  ASSUME NEW S, NEW s \in Seq(S), NEW t \in Seq(S), s # <<>>
  PROVE  /\ s \o t \in Seq(S) /\ s \o t # <<>>
         /\ (s \o t)[1] = Head(s) /\ Tail(s) \o t = Tail(s \o t)
<1>1. /\ Len(s) \in Nat \ {0} /\ Len(t) \in Nat
      /\ Tail(s) \in Seq(S) /\ Len(Tail(s)) = Len(s) - 1
      /\ \A i \in 1 .. Len(s) - 1 : Tail(s)[i] = s[i + 1]
  BY EmptySeq, LenProperties, HeadTailProperties
<1>2. /\ s \o t \in Seq(S) /\ Len(s \o t) = Len(s) + Len(t)
      /\ \A i \in 1 .. Len(s) + Len(t) :
           (s \o t)[i] = IF i <= Len(s) THEN s[i] ELSE t[i - Len(s)]
  BY ConcatProperties
<1>3. s \o t # <<>>
  BY <1>1, <1>2, EmptySeq
<1>4. /\ Tail(s \o t) \in Seq(S) /\ Len(Tail(s \o t)) = Len(s) + Len(t) - 1
      /\ \A i \in 1 .. Len(s) + Len(t) - 1 : Tail(s \o t)[i] = (s \o t)[i + 1]
  BY <1>1, <1>2, <1>3, HeadTailProperties
<1>5. /\ Tail(s) \o t \in Seq(S) /\ Len(Tail(s) \o t) = Len(s) + Len(t) - 1
      /\ \A i \in 1 .. Len(s) + Len(t) - 1 : (Tail(s) \o t)[i] =
           IF i <= Len(s) - 1 THEN Tail(s)[i] ELSE t[i - (Len(s) - 1)]
  BY <1>1, ConcatProperties
<1>6. \A i \in 1 .. Len(s) + Len(t) - 1 : (Tail(s) \o t)[i] = Tail(s \o t)[i]
  BY <1>1, <1>2, <1>4, <1>5
<1>7. (s \o t)[1] = Head(s)
  BY <1>1, <1>2
<1> QED BY <1>2, <1>3, <1>4, <1>5, <1>6, <1>7, SeqEqual

------------------------------------------------------------------------------
(* The lines that are pending *)

LEMMA PendingTyped ==
  ASSUME TypeOK
  PROVE  /\ Pending \in Seq(LineSet) /\ Len(Pending) \in Nat
         /\ Len(Pending) = Len(lines) + Len(m_linebuffer)
         /\ Len(lines) \in Nat /\ Len(m_linebuffer) \in Nat
         /\ \A i \in 1 .. Len(Pending) : Pending[i] \in LineSet
         /\ \A i \in 1 .. Len(lines) : Pending[i] = lines[i]
         /\ \A i \in 1 .. Len(m_linebuffer) :
              Pending[Len(lines) + i] = m_linebuffer[i]
<1>1. /\ lines \in Seq(LineSet) /\ m_linebuffer \in Seq(LineSet)
      /\ Len(lines) \in Nat /\ Len(m_linebuffer) \in Nat
  BY LenProperties DEF TypeOK
<1>2. /\ Pending \in Seq(LineSet) /\ Len(Pending) = Len(lines) + Len(m_linebuffer)
      /\ \A i \in 1 .. Len(lines) + Len(m_linebuffer) : Pending[i] =
           IF i <= Len(lines) THEN lines[i] ELSE m_linebuffer[i - Len(lines)]
  BY <1>1, ConcatProperties DEF Pending
<1>3. \A i \in 1 .. Len(Pending) : Pending[i] \in LineSet
  BY <1>2, ElementOfSeq
<1>4. ASSUME NEW i \in 1 .. Len(m_linebuffer)
      PROVE  Pending[Len(lines) + i] = m_linebuffer[i]
  <2>1. Len(lines) + i \in 1 .. Len(lines) + Len(m_linebuffer)
    BY <1>1
  <2>2. ~(Len(lines) + i <= Len(lines)) /\ (Len(lines) + i) - Len(lines) = i
    BY <1>1
  <2> QED BY <1>2, <2>1, <2>2
<1>5. \A i \in 1 .. Len(lines) : Pending[i] = lines[i]
  BY <1>1, <1>2
<1> QED BY <1>1, <1>2, <1>3, <1>4, <1>5

\* Notify and Loopback.
LEMMA PendingAdd ==
  ASSUME TypeOK, NEW line \in LineSet,
         m_linebuffer' = Append(m_linebuffer, line), lines' = lines
  PROVE  /\ m_linebuffer' \in Seq(LineSet)
         /\ Len(Pending') = Len(Pending) + 1
         /\ \A i \in 1 .. Len(Pending) : Pending'[i] = Pending[i]
         /\ Pending'[Len(Pending) + 1] = line
<1>1. Pending' = Append(Pending, line)
  BY ConcatAppend DEF Pending, TypeOK
<1> QED BY <1>1, PendingTyped, AppendProperties DEF TypeOK

\* GetLine.
LEMMA PendingTake ==
  ASSUME TypeOK, lines # <<>>, lines' = Tail(lines), UNCHANGED m_linebuffer
  PROVE  /\ lines' \in Seq(LineSet)
         /\ Len(Pending) > 0 /\ Len(Pending') = Len(Pending) - 1
         /\ Head(lines) \in LineSet /\ Pending[1] = Head(lines)
         /\ \A i \in 1 .. Len(Pending) - 1 : Pending'[i] = Pending[i + 1]
<1>1. /\ Pending' = Tail(Pending) /\ Pending # <<>> /\ Pending \in Seq(LineSet)
      /\ Pending[1] = Head(lines)
  BY ConcatTail DEF Pending, TypeOK
<1>2. Len(Pending) \in Nat \ {0}
  BY <1>1, EmptySeq
<1> QED BY <1>1, <1>2, HeadTailProperties DEF TypeOK

\* SwapLines.
LEMMA PendingSwap ==
  ASSUME TypeOK, lines = <<>>, SwapLines
  PROVE  Pending' = Pending
BY ConcatEmptySeq DEF TypeOK, Pending, SwapLines

LEMMA HandlesHeld ==
  ASSUME TypeOK, NEW p
  PROVE  HasHandle(p) <=> \/ \E i \in 1 .. Len(Pending) : Pending[i].handle = p
                          \/ \E id \in Pids : m_pidMap[id] = p
<1>1. DOMAIN lines = 1 .. Len(lines) /\ DOMAIN m_linebuffer = 1 .. Len(m_linebuffer)
  BY LenProperties DEF TypeOK
<1>2. ASSUME NEW i \in 1 .. Len(Pending), Pending[i].handle = p PROVE HasHandle(p)
  <2>1. CASE i <= Len(lines)
    BY <1>1, <1>2, <2>1, PendingTyped DEF HasHandle
  <2>2. CASE i > Len(lines)
    <3>1. i - Len(lines) \in 1 .. Len(m_linebuffer)
          /\ Pending[Len(lines) + (i - Len(lines))] = m_linebuffer[i - Len(lines)]
      BY <2>2, PendingTyped
    <3>2. m_linebuffer[i - Len(lines)].handle = p
      BY <1>2, <3>1, PendingTyped
    <3> QED BY <1>1, <3>1, <3>2 DEF HasHandle
  <2> QED BY <2>1, <2>2, PendingTyped
<1>3. ASSUME NEW i \in 1 .. Len(m_linebuffer), m_linebuffer[i].handle = p
      PROVE  \E j \in 1 .. Len(Pending) : Pending[j].handle = p
  <2>1. Len(lines) + i \in 1 .. Len(Pending)
    BY PendingTyped
  <2> QED BY <1>3, <2>1, PendingTyped
<1>4. ASSUME NEW i \in 1 .. Len(lines), lines[i].handle = p
      PROVE  \E j \in 1 .. Len(Pending) : Pending[j].handle = p
  <2>1. i \in 1 .. Len(Pending)
    BY PendingTyped
  <2> QED BY <1>4, <2>1, PendingTyped
<1> QED BY <1>1, <1>2, <1>3, <1>4 DEF HasHandle

------------------------------------------------------------------------------
(* What GetLine shows, and where ProcessMonitor is *)

LEMMA Typed ==
  ASSUME TypeOK
  PROVE  /\ Len(m_q) \in Nat /\ DOMAIN m_q = 1 .. Len(m_q)
         /\ \A i \in 1 .. Len(m_q) : m_q[i] \in Entry \cup {NoEntry}
         /\ Len(calls) \in Nat /\ DOMAIN calls = 1 .. Len(calls)
         /\ \A i \in 1 .. Len(calls) : calls[i] \in Entry
         /\ Len(m_processes) \in Nat /\ DOMAIN m_processes = 1 .. Len(m_processes)
         /\ \A i \in 1 .. Len(m_processes) : m_processes[i] \in Entry
         /\ NoEntry \notin Entry /\ NoProcess \notin Processes
<1>1. NoEntry \notin Entry
  BY ProcessAssumption DEF NoEntry, Entry
<1> QED BY <1>1, ProcessAssumption, LenProperties, ElementOfSeq DEF TypeOK

LEMMA ShownOf ==
  ASSUME TypeOK, NEW line \in LineSet
  PROVE  LET text == m_lineBuffers[line.id] \o line.text
         IN  /\ line.id \in Pids /\ text \in Seq(Piece)
             /\ Len(text) = Len(m_lineBuffers[line.id]) + Len(line.text)
             /\ m_lineBuffers[line.id] \in Seq(Piece) /\ line.text \in Seq(Piece)
             /\ Len(m_lineBuffers[line.id]) \in Nat /\ Len(line.text) \in Nat
             /\ \A i \in 1 .. Len(m_lineBuffers[line.id]) :
                  text[i] = m_lineBuffers[line.id][i]
             /\ \A i \in 1 .. Len(line.text) :
                  text[Len(m_lineBuffers[line.id]) + i] = line.text[i]
             /\ \/ Shown(line) = text /\ Kept(line) = <<>> /\ text # <<>>
                \/ Shown(line) = <<>> /\ Kept(line) = text
             /\ line.loopback => Shown(line) = text
<1> DEFINE held == m_lineBuffers[line.id]
           text == held \o line.text
<1>1. line.id \in Pids /\ held \in Seq(Piece) /\ line.text \in Seq(Piece)
  BY DEF TypeOK, LineSet
<1> HIDE DEF held
<1>2. /\ text \in Seq(Piece) /\ Len(text) = Len(held) + Len(line.text)
      /\ Len(held) \in Nat /\ Len(line.text) \in Nat
      /\ \A i \in 1 .. Len(held) + Len(line.text) :
           text[i] = IF i <= Len(held) THEN held[i] ELSE line.text[i - Len(held)]
  BY <1>1, LenProperties, ConcatProperties
<1>3. \A i \in 1 .. Len(held) : text[i] = held[i]
  BY <1>2
<1>4. ASSUME NEW i \in 1 .. Len(line.text) PROVE text[Len(held) + i] = line.text[i]
  <2>1. /\ Len(held) + i \in 1 .. Len(held) + Len(line.text)
        /\ ~(Len(held) + i <= Len(held)) /\ (Len(held) + i) - Len(held) = i
    BY <1>2
  <2> QED BY <1>2, <2>1
<1>5. Shown(line) = text \/ Shown(line) = <<>>
  BY DEF Shown, held
<1>6. Kept(line) = IF Shown(line) # <<>> THEN <<>> ELSE text
  BY DEF Kept, held
<1>7. line.loopback => Shown(line) = text
  BY DEF Shown, held
<1> HIDE DEF text
<1>8. /\ \/ Shown(line) = text /\ Kept(line) = <<>> /\ text # <<>>
         \/ Shown(line) = <<>> /\ Kept(line) = text
  BY <1>5, <1>6
<1> QED BY <1>1, <1>2, <1>3, <1>4, <1>7, <1>8 DEF text, held

LEMMA LastOfProperties ==
  ASSUME NEW text \in Seq(Piece), NEW p
  PROVE  \/ /\ \A i \in 1 .. Len(text) : text[i].of # p
            /\ LastOf(p, text) = lastOut[p]
         \/ \E m \in 1 .. Len(text) :
              /\ text[m].of = p /\ LastOf(p, text) = text[m].what
              /\ text[m].what \in {"text", "end"}
              /\ \A i \in 1 .. Len(text) : text[i].of = p => i <= m
<1> DEFINE of == {i \in DOMAIN text : text[i].of = p}
<1>1. DOMAIN text = 1 .. Len(text) /\ Len(text) \in Nat
      /\ \A i \in 1 .. Len(text) : text[i] \in Piece
  BY LenProperties, ElementOfSeq
<1>2. LastOf(p, text) = IF of = {} THEN lastOut[p]
                   ELSE text[CHOOSE i \in of : \A j \in of : j <= i].what
  BY DEF LastOf
<1>3. CASE of = {}
  BY <1>1, <1>2, <1>3
<1>4. CASE of # {}
  <2> DEFINE m == CHOOSE i \in of : \A j \in of : j <= i
  <2>1. \E i \in of : \A j \in of : j <= i
    BY <1>1, <1>4, GreatestIndex
  <2>2. m \in of /\ \A j \in of : j <= m
    BY <2>1
  <2>3. LastOf(p, text) = text[m].what
    BY <1>2, <1>4
  <2> HIDE DEF m
  <2>4. m \in 1 .. Len(text) /\ text[m] \in Piece
    BY <1>1, <2>2
  <2> QED BY <1>1, <2>2, <2>3, <2>4 DEF Piece
<1> QED BY <1>3, <1>4

LEMMA ShownTyped ==
  ASSUME TypeOK, NEW line \in LineSet
  PROVE  /\ Shown(line) \in Seq(Piece) /\ Kept(line) \in Seq(Piece)
         /\ \A p \in Processes : LastOf(p, Shown(line)) \in {"nothing", "text", "end"}
<1>1. Shown(line) \in Seq(Piece) /\ Kept(line) \in Seq(Piece)
  BY ShownOf, EmptySeq
<1>2. ASSUME NEW p \in Processes
      PROVE  LastOf(p, Shown(line)) \in {"nothing", "text", "end"}
  <2> DEFINE text == Shown(line)
  <2>1. text \in Seq(Piece) /\ lastOut[p] \in {"nothing", "text", "end"}
    BY <1>1 DEF TypeOK
  <2> HIDE DEF text
  <2>2. LastOf(p, text) \in {"nothing", "text", "end"}
    BY <2>1, LastOfProperties
  <2> QED BY <2>2 DEF text
<1> QED BY <1>1, <1>2

LEMMA WatchedIndex ==
  ASSUME TypeOK, EmitEnded
  PROVE  /\ ended' \in 1 .. Len(m_processes)
         /\ life[m_processes[ended'].process] = "ended"
<1>1. Len(m_processes) \in Nat /\ offset \in Nat /\ Count \in Nat
      /\ Count <= Len(m_processes)
  BY Typed, BoundsAssumption DEF TypeOK, Count
<1>2. DOMAIN Watched = 1 .. Count
  BY DEF Watched
<1>3. ASSUME NEW i \in 1 .. Count PROVE Watched[i] \in 1 .. Len(m_processes)
  <2>1. Len(m_processes) > 0 /\ offset + i - 1 \in Nat
    BY <1>1
  <2>2. (offset + i - 1) % Len(m_processes) \in 0 .. Len(m_processes) - 1
    BY <1>1, <2>1
  <2>3. Watched[i] = ((offset + i - 1) % Len(m_processes)) + 1
    BY DEF Watched
  <2> QED BY <1>1, <2>2, <2>3
<1>4. Signaled \subseteq Nat /\ Signaled # {} /\ Signaled \subseteq 1 .. Count
  BY <1>1, <1>2 DEF Signaled, EmitEnded
<1> DEFINE k == CHOOSE i \in Signaled : \A j \in Signaled : i <= j
<1>5. \E i \in Signaled : \A j \in Signaled : i <= j
  BY <1>4, LeastNatural
<1>6. k \in Signaled
  BY <1>5
<1>7. ended' = Watched[k]
  BY DEF EmitEnded
<1> HIDE DEF k
<1>8. life[m_processes[Watched[k]].process] = "ended"
  BY <1>6 DEF Signaled
<1> QED BY <1>3, <1>4, <1>6, <1>7, <1>8

LEMMA RemovedTyped ==
  ASSUME TypeOK, RemoveEnded, ended \in 1 .. Len(m_processes)
  PROVE  /\ m_processes' \in Seq(Entry) /\ Len(m_processes') = Len(m_processes) - 1
         /\ \A i \in 1 .. Len(m_processes) - 1 : m_processes'[i] =
              m_processes[IF i = ended THEN Len(m_processes) ELSE i]
<1>1. Len(m_processes) - 1 \in Nat
  BY Typed
<1>2. m_processes' \in [1 .. Len(m_processes) - 1 -> Entry]
  BY Typed DEF RemoveEnded
<1>3. \A i \in 1 .. Len(m_processes) - 1 : m_processes'[i] =
        m_processes[IF i = ended THEN Len(m_processes) ELSE i]
  BY DEF RemoveEnded
<1> QED BY <1>1, <1>2, <1>3, FunctionIsSeq

\* The calls that Drain takes over are those of Add.
LEMMA DrainedTyped ==
  ASSUME TypeOK, Threads, Drain
  PROVE  \E n \in Nat :
           /\ n <= Len(m_q) /\ (connected => n = Len(m_q))
           /\ \A i \in 1 .. n : m_q[i] \in Entry
           /\ m_processes' \in Seq(Entry)
           /\ Len(m_processes') = Len(m_processes) + n
           /\ \A i \in 1 .. Len(m_processes) : m_processes'[i] = m_processes[i]
           /\ \A i \in 1 .. n : m_processes'[Len(m_processes) + i] = m_q[i]
<1> DEFINE stops == \E i \in 1 .. Len(m_q) : m_q[i] = NoEntry
           n == IF stops THEN Len(m_q) - 1 ELSE Len(m_q)
           taken == IF stops THEN SubSeq(m_q, 1, Len(m_q) - 1) ELSE m_q
<1>a. Len(m_q) \in Nat /\ Len(m_processes) \in Nat
  BY Typed
<1>b. \A i \in 1 .. Len(m_q) : m_q[i] = NoEntry => ~connected /\ i = Len(m_q)
  BY DEF Threads
<1>c. \A i \in 1 .. Len(m_q) : m_q[i] \in Entry \cup {NoEntry}
  BY Typed
<1>0. /\ Len(m_q) \in Nat /\ DOMAIN m_q = 1 .. Len(m_q)
      /\ \A i \in 1 .. Len(m_q) : m_q[i] \in Entry \cup {NoEntry}
      /\ m_processes \in Seq(Entry) /\ Len(m_processes) \in Nat
      /\ m_q \in Seq(Entry \cup {NoEntry})
  BY Typed DEF TypeOK
<1>1. /\ n \in Nat /\ n <= Len(m_q) /\ (connected => n = Len(m_q))
      /\ \A i \in 1 .. n : m_q[i] \in Entry
  <2>1. CASE stops
    <3>1. m_q[Len(m_q)] = NoEntry /\ ~connected /\ Len(m_q) >= 1
      BY <1>a, <1>b, <2>1
    <3>2. \A i \in 1 .. Len(m_q) - 1 : m_q[i] # NoEntry
      BY <1>a, <1>b
    <3>3. n = Len(m_q) - 1
      BY <2>1
    <3> HIDE DEF n
    <3> QED BY <1>a, <1>c, <3>1, <3>2, <3>3
  <2>2. CASE ~stops
    BY <1>0, <2>2
  <2> QED BY <2>1, <2>2
<1>2. taken \in Seq(Entry) /\ Len(taken) = n /\ \A i \in 1 .. n : taken[i] = m_q[i]
  <2>1. CASE stops
    <3>1. n = Len(m_q) - 1 /\ taken = SubSeq(m_q, 1, n)
      BY <2>1
    <3> HIDE DEF n, taken
    <3>2. \A i \in 1 .. n : m_q[i] \in Entry
      BY <1>1
    <3>3. 1 \in Int /\ n \in Int
      BY <1>1
    <3>4. /\ SubSeq(m_q, 1, n) \in Seq(Entry)
          /\ Len(SubSeq(m_q, 1, n)) = IF 1 <= n THEN n - 1 + 1 ELSE 0
          /\ \A i \in 1 .. n - 1 + 1 : SubSeq(m_q, 1, n)[i] = m_q[1 + i - 1]
      BY <3>2, <3>3, SubSeqProperties
    <3> QED BY <1>1, <3>1, <3>4
  <2>2. CASE ~stops
    <3>1. m_q \in [1 .. Len(m_q) -> Entry]
      BY <1>0, <1>1, <2>2, LenProperties
    <3>2. m_q \in Seq(Entry)
      BY <1>0, <3>1, FunctionIsSeq
    <3> QED BY <2>2, <3>2
  <2> QED BY <2>1, <2>2
<1>3. m_processes' = m_processes \o taken
  BY <1>0 DEF Drain
<1> HIDE DEF taken, n
<1>4. /\ m_processes' \in Seq(Entry) /\ Len(m_processes') = Len(m_processes) + n
      /\ \A i \in 1 .. Len(m_processes) + n : m_processes'[i] =
           IF i <= Len(m_processes) THEN m_processes[i]
           ELSE taken[i - Len(m_processes)]
  BY <1>0, <1>2, <1>3, ConcatProperties
<1>5. \A i \in 1 .. Len(m_processes) : m_processes'[i] = m_processes[i]
  BY <1>a, <1>1, <1>4
<1>6. ASSUME NEW i \in 1 .. n PROVE m_processes'[Len(m_processes) + i] = m_q[i]
  <2>0. n \in Nat
    BY <1>1
  <2>1. /\ Len(m_processes) + i \in 1 .. Len(m_processes) + n
        /\ ~(Len(m_processes) + i <= Len(m_processes))
        /\ (Len(m_processes) + i) - Len(m_processes) = i
    BY <1>a, <2>0
  <2> QED BY <1>2, <1>4, <2>1
<1> QED BY <1>1, <1>4, <1>5, <1>6

\* The line that Notify adds, its handle and its writer.
LEMMA NotifyAdds ==
  ASSUME TypeOK, Notify
  PROVE  \E h \in Processes \cup {NoProcess} :
           LET line == Line(h, slot.id, <<Text(slot.writer)>>, slot.newline, FALSE)
           IN  /\ slot.writer \in Processes /\ line \in LineSet
               /\ m_linebuffer' = Append(m_linebuffer, line) /\ UNCHANGED lines
               /\ h # NoProcess => Exists(h) /\ pid[h] = slot.id
               /\ \A p \in Processes : Exists(p) /\ pid[p] = slot.id =>
                    h # NoProcess
               /\ late' = IF life[slot.writer] = "ended"
                          THEN late \cup {slot.writer} ELSE late
               /\ untracked' = IF h # slot.writer
                               THEN untracked \cup {slot.writer} ELSE untracked
<1> DEFINE found == {p \in Processes : Exists(p) /\ pid[p] = slot.id}
           h == IF found = {} THEN NoProcess ELSE CHOOSE p \in found : TRUE
           line == Line(h, slot.id, <<Text(slot.writer)>>, slot.newline, FALSE)
<1>1. slot.writer \in Processes /\ slot.id \in Pids /\ slot.newline \in BOOLEAN
  BY DEF TypeOK, Notify
<1>2. found # {} => h \in found
  OBVIOUS
<1>3. /\ m_linebuffer' = Append(m_linebuffer, line)
      /\ late' = IF life[slot.writer] = "ended"
                 THEN late \cup {slot.writer} ELSE late
      /\ untracked' = IF h # slot.writer
                      THEN untracked \cup {slot.writer} ELSE untracked
      /\ UNCHANGED lines
  BY DEF Notify
<1>4. h = NoProcess \/ h \in found
  BY <1>2
<1>5. \A p \in Processes : Exists(p) /\ pid[p] = slot.id => h # NoProcess
  BY <1>2, ProcessAssumption
<1> HIDE DEF h
<1>6. h \in Processes \cup {NoProcess}
  BY <1>4
<1>7. h # NoProcess => Exists(h) /\ pid[h] = slot.id
  BY <1>4
<1>8. <<Text(slot.writer)>> \in Seq(Piece)
  BY <1>1 DEF Piece, Text
<1>9. line \in LineSet
  BY <1>1, <1>6, <1>8 DEF LineSet, Line
<1> QED BY <1>1, <1>3, <1>5, <1>6, <1>7, <1>9

LEMMA LoopbackAdds ==
  ASSUME TypeOK, NEW id \in Pids, NEW text \in Seq(Piece), Loopback(id, text)
  PROVE  \E line \in LineSet : /\ line = Line(NoProcess, id, text, FALSE, TRUE)
                               /\ m_linebuffer' = Append(m_linebuffer, line)
BY DEF Loopback, Line, LineSet

LEMMA CurrentTyped ==
  ASSUME TypeOK, Threads, epc \in {"flush", "terminate", "erase"}
  PROVE  /\ current \in Entry /\ current.id \in Pids /\ current.process \in Processes
         /\ connected /\ m_lineBuffers[current.id] \in Seq(Piece)
         /\ <<End(current.process)>> \in Seq(Piece)
<1>1. current \in Entry /\ connected
  BY DEF TypeOK, Threads
<1>2. current.id \in Pids /\ current.process \in Processes
  BY <1>1 DEF Entry
<1>3. <<End(current.process)>> \in Seq(Piece)
  BY <1>2 DEF Piece, End
<1> QED BY <1>1, <1>2, <1>3 DEF TypeOK

LEMMA TypeStep == TypeOK /\ Threads /\ [Next]_vars => TypeOK'
<1> SUFFICES ASSUME TypeOK, Threads, [Next]_vars PROVE TypeOK'
  OBVIOUS
<1> USE DEF TypeOK, kernel, filter, executor, monitor, history
<1>1. ASSUME NEW p \in Processes, NEW id \in Pids, Start(p, id) PROVE TypeOK'
  BY <1>1 DEF Start
<1>2. ASSUME NEW p \in Processes, NEW newline \in BOOLEAN, Write(p, newline)
      PROVE  TypeOK'
  BY <1>2 DEF Write
<1>3. ASSUME NEW p \in Processes, Exit(p) PROVE TypeOK'
  BY <1>3 DEF Exit
<1>4. CASE Notify
  <2>1. /\ m_linebuffer' \in Seq(LineSet) /\ slot.writer \in Processes
        /\ late' \subseteq Processes /\ untracked' \subseteq Processes
    <3>1. PICK h \in Processes \cup {NoProcess} :
            LET line == Line(h, slot.id, <<Text(slot.writer)>>, slot.newline, FALSE)
            IN  /\ slot.writer \in Processes /\ line \in LineSet
                /\ m_linebuffer' = Append(m_linebuffer, line)
                /\ late' = IF life[slot.writer] = "ended"
                           THEN late \cup {slot.writer} ELSE late
                /\ untracked' = IF h # slot.writer
                                THEN untracked \cup {slot.writer} ELSE untracked
      BY <1>4, NotifyAdds
    <3>2. m_linebuffer' \in Seq(LineSet)
      BY <3>1, AppendProperties
    <3> QED BY <3>1, <3>2
  <2> QED BY <1>4, <2>1 DEF Notify
<1>5. CASE GetLine
  <2> DEFINE line == Head(lines)
  <2>1. line \in LineSet /\ lines' \in Seq(LineSet)
    BY <1>5, PendingTake DEF GetLine
  <2>2. line.id \in Pids /\ line.handle \in Processes \cup {NoProcess}
    BY <2>1 DEF LineSet
  <2>3. m_lineBuffers' \in [Pids -> Seq(Piece)]
    BY <1>5, <2>1, <2>2, ShownTyped DEF GetLine, Process
  <2>4. lastOut' \in [Processes -> {"nothing", "text", "end"}]
    BY <1>5, <2>1, ShownTyped DEF GetLine, Process
  <2>5. m_pidMap' \in [Pids -> Processes \cup {NoProcess}]
    <3>1. m_pidMap' = m_pidMap
          \/ m_pidMap' = [m_pidMap EXCEPT ![line.id] = line.handle]
      BY <1>5 DEF GetLine, Track
    <3> HIDE DEF line
    <3> QED BY <2>2, <3>1
  <2>6. m_q' \in Seq(Entry \cup {NoEntry})
    <3>1. CASE UNCHANGED m_q
      BY <3>1
    <3>2. CASE line.handle # NoProcess
               /\ m_q' = Append(m_q, [id |-> line.id, process |-> line.handle])
      <4>1. [id |-> line.id, process |-> line.handle] \in Entry \cup {NoEntry}
        BY <2>2, <3>2 DEF Entry
      <4> QED BY <3>2, <4>1, AppendProperties
    <3> QED BY <1>5, <3>1, <3>2 DEF GetLine, Track
  <2>7. mixed' \in BOOLEAN
    BY <1>5 DEF GetLine, Process
  <2> QED BY <1>5, <2>1, <2>3, <2>4, <2>5, <2>6, <2>7 DEF GetLine
<1>6. CASE Update
  BY <1>6, EmptySeq DEF Update, SwapLines
<1>7. CASE BeginEnded
  BY <1>7, EmptySeq, HeadTailProperties DEF BeginEnded, SwapLines
<1>8. CASE Flush
  <2>1. current.id \in Pids /\ m_lineBuffers[current.id] \in Seq(Piece)
    BY <1>8, CurrentTyped DEF Flush
  <2>2. m_linebuffer' \in Seq(LineSet)
    <3>1. CASE UNCHANGED m_linebuffer
      BY <3>1
    <3>2. CASE Loopback(current.id, m_lineBuffers[current.id])
      <4> DEFINE text == m_lineBuffers[current.id]
      <4>1. text \in Seq(Piece) /\ current.id \in Pids /\ Loopback(current.id, text)
        BY <2>1, <3>2
      <4> HIDE DEF text
      <4>2. PICK line \in LineSet : m_linebuffer' = Append(m_linebuffer, line)
        BY <4>1, LoopbackAdds
      <4> QED BY <4>2, AppendProperties
    <3> QED BY <1>8, <3>1, <3>2 DEF Flush
  <2> QED BY <1>8, <2>1, <2>2, EmptySeq DEF Flush
<1>9. CASE AddTerminateMessage
  <2>1. m_linebuffer' \in Seq(LineSet)
    <3> DEFINE text == <<End(current.process)>>
    <3>1. text \in Seq(Piece) /\ current.id \in Pids /\ Loopback(current.id, text)
      BY <1>9, CurrentTyped DEF AddTerminateMessage
    <3> HIDE DEF text
    <3>2. PICK l \in LineSet : m_linebuffer' = Append(m_linebuffer, l)
      BY <3>1, LoopbackAdds
    <3> QED BY <3>2, AppendProperties
  <2> QED BY <1>9, <2>1 DEF AddTerminateMessage
<1>10. CASE ErasePid
  BY <1>10 DEF ErasePid
<1>11. CASE Join \/ SetAutoNewLine
  BY <1>11 DEF Join, SetAutoNewLine
<1>12. CASE Abort
  <2>1. m_q' \in Seq(Entry \cup {NoEntry})
    BY <1>12, AppendProperties DEF Abort
  <2> QED BY <1>12, <2>1 DEF Abort
<1>13. CASE TakeEvent
  BY <1>13 DEF TakeEvent, RestUnchanged
<1>14. CASE Drain
  <2>1. m_processes' \in Seq(Entry)
    BY <1>14, DrainedTyped
  <2>2. m_q' \in Seq(Entry \cup {NoEntry}) /\ mpc' \in {"wait", "exited"}
    BY <1>14, EmptySeq DEF Drain
  <2> QED BY <1>14, <2>1, <2>2 DEF Drain, RestUnchanged
<1>15. CASE EmitEnded
  <2>1. ended' \in 1 .. Len(m_processes)
    BY <1>15, WatchedIndex
  <2>2. ended' \in Nat /\ m_processes[ended'] \in Entry
    BY <2>1, Typed
  <2>3. calls' \in Seq(Entry)
    BY <1>15, <2>2, AppendProperties DEF EmitEnded
  <2> QED BY <1>15, <2>2, <2>3 DEF EmitEnded, RestUnchanged
<1>16. CASE RemoveEnded
  <2>1. m_processes' \in Seq(Entry)
    BY <1>16, RemovedTyped DEF RemoveEnded, Threads
  <2> QED BY <1>16, <2>1 DEF RemoveEnded, RestUnchanged
<1>17. CASE Timeout
  <2>1. offset' \in Nat
    <3>1. Count \in Nat /\ Len(m_processes) \in Nat /\ Len(m_processes) > 0
      BY <1>17, Typed, BoundsAssumption DEF Timeout, Count
    <3>2. offset + Count \in Nat
      BY <3>1
    <3> QED BY <1>17, <3>1, <3>2 DEF Timeout
  <2> QED BY <1>17, <2>1 DEF Timeout, RestUnchanged
<1>18. CASE UNCHANGED vars
  BY <1>18 DEF vars
<1> HIDE DEF TypeOK
<1> QED BY <1>1, <1>2, <1>3, <1>4, <1>5, <1>6, <1>7, <1>8, <1>9, <1>10, <1>11,
           <1>12, <1>13, <1>14, <1>15, <1>16, <1>17, <1>18
        DEF Next, Executor, Monitor

LEMMA ThreadsStep == TypeOK /\ Threads /\ [Next]_vars => Threads'
<1> SUFFICES ASSUME TypeOK, Threads, [Next]_vars PROVE Threads'
  OBVIOUS
<1> USE DEF Threads, kernel, filter, executor, monitor, history
<1>a. Len(m_q) \in Nat
  BY Typed
<1>1. ASSUME NEW p \in Processes, NEW id \in Pids, Start(p, id) PROVE Threads'
  BY <1>1 DEF Start
<1>2. ASSUME NEW p \in Processes, NEW newline \in BOOLEAN, Write(p, newline)
      PROVE  Threads'
  BY <1>2 DEF Write
<1>3. ASSUME NEW p \in Processes, Exit(p) PROVE Threads'
  BY <1>3 DEF Exit
<1>4. CASE Notify
  BY <1>4 DEF Notify
<1>5. CASE GetLine
  <2>1. epc \in {"idle", "flush"} /\ connected
    BY <1>5 DEF GetLine, TypeOK
  <2>2. \A i \in 1 .. Len(m_q') : m_q'[i] # NoEntry
    <3>1. CASE UNCHANGED m_q
      BY <2>1, <3>1
    <3>2. CASE ~UNCHANGED m_q
      <4> DEFINE e == [id |-> Head(lines).id, process |-> Head(lines).handle]
      <4>1. m_q' = Append(m_q, e) /\ Head(lines).handle # NoProcess
        BY <1>5, <3>2 DEF GetLine, Track
      <4>2. e \in Entry
        <5>1. Head(lines) \in LineSet
          BY <1>5, HeadTailProperties DEF GetLine, TypeOK
        <5> QED BY <4>1, <5>1 DEF LineSet, Entry
      <4>3. e # NoEntry
        BY <4>2, Typed
      <4> HIDE DEF e
      <4>4. /\ Len(m_q') = Len(m_q) + 1 /\ m_q'[Len(m_q) + 1] = e
            /\ \A i \in 1 .. Len(m_q) : m_q'[i] = m_q[i]
        BY <4>1, <4>2, AppendProperties DEF TypeOK
      <4>5. \A i \in 1 .. Len(m_q) : m_q[i] # NoEntry
        BY <2>1
      <4> QED BY <1>a, <4>3, <4>4, <4>5
    <3> QED BY <3>1, <3>2
  <2> QED BY <1>5, <2>1, <2>2 DEF GetLine
<1>6. CASE Update
  BY <1>6 DEF Update, SwapLines, Idle
<1>7. CASE BeginEnded
  <2>1. Head(calls) \in Entry
    BY <1>7, HeadTailProperties DEF BeginEnded, TypeOK
  <2>2. current' # NoEntry
    BY <1>7, <2>1, Typed DEF BeginEnded
  <2> QED BY <1>7, <2>2 DEF BeginEnded, SwapLines, Idle
<1>8. CASE Flush
  BY <1>8 DEF Flush
<1>9. CASE AddTerminateMessage
  BY <1>9 DEF AddTerminateMessage
<1>10. CASE ErasePid
  BY <1>10 DEF ErasePid
<1>11. CASE Join \/ SetAutoNewLine
  BY <1>11 DEF Join, SetAutoNewLine, Idle
<1>12. CASE Abort
  <2>1. /\ Len(m_q') = Len(m_q) + 1
        /\ \A i \in 1 .. Len(m_q) : m_q'[i] = m_q[i]
    BY <1>12, AppendProperties DEF Abort, TypeOK
  <2>2. \A i \in 1 .. Len(m_q) : m_q[i] # NoEntry
    BY <1>12 DEF Abort, Idle
  <2>3. \A i \in 1 .. Len(m_q') : m_q'[i] = NoEntry => i = Len(m_q')
    BY <1>a, <2>1, <2>2
  <2> QED BY <1>12, <2>3 DEF Abort, Idle
<1>13. CASE TakeEvent
  BY <1>13 DEF TakeEvent, RestUnchanged
<1>14. CASE Drain
  <2>1. \A i \in 1 .. Len(m_q') : FALSE
    BY <1>14, EmptySeq DEF Drain
  <2> QED BY <1>14, <2>1 DEF Drain, RestUnchanged
<1>15. CASE EmitEnded
  BY <1>15, WatchedIndex DEF EmitEnded, RestUnchanged
<1>16. CASE RemoveEnded
  BY <1>16 DEF RemoveEnded, RestUnchanged
<1>17. CASE Timeout
  BY <1>17 DEF Timeout, RestUnchanged
<1>18. CASE UNCHANGED vars
  BY <1>18 DEF vars
<1> HIDE DEF Threads
<1> QED BY <1>1, <1>2, <1>3, <1>4, <1>5, <1>6, <1>7, <1>8, <1>9, <1>10, <1>11,
           <1>12, <1>13, <1>14, <1>15, <1>16, <1>17, <1>18
        DEF Next, Executor, Monitor

------------------------------------------------------------------------------
(* The way of the entries *)

LEMMA TracksAppend ==
  ASSUME NEW S, NEW s \in Seq(S), NEW e \in S, NEW map,
         Tracks(s, 1 .. Len(s), map),
         map[e.id] = e.process, e.id \notin IdsOf(s, 1 .. Len(s))
  PROVE  /\ Tracks(Append(s, e), 1 .. Len(Append(s, e)), map)
         /\ IdsOf(Append(s, e), 1 .. Len(Append(s, e)))
              = IdsOf(s, 1 .. Len(s)) \cup {e.id}
<1> DEFINE t == Append(s, e)
<1>1. /\ Len(s) \in Nat /\ Len(t) = Len(s) + 1 /\ t[Len(s) + 1] = e
      /\ \A i \in 1 .. Len(s) : t[i] = s[i]
  BY AppendProperties, LenProperties
<1> HIDE DEF t
<1>2. Tracks(t, 1 .. Len(t), map)
  <2>1. \A i \in 1 .. Len(t) : i = Len(s) + 1 \/ i \in 1 .. Len(s)
    BY <1>1
  <2>2. \A i \in 1 .. Len(s) : s[i].id # e.id
    BY DEF IdsOf
  <2> QED BY <1>1, <2>1, <2>2 DEF Tracks
<1>3. IdsOf(t, 1 .. Len(t)) = IdsOf(s, 1 .. Len(s)) \cup {e.id}
  <2>1. 1 .. Len(t) = (1 .. Len(s)) \cup {Len(s) + 1}
    BY <1>1
  <2> QED BY <1>1, <2>1 DEF IdsOf
<1> QED BY <1>2, <1>3 DEF t

LEMMA TracksTail ==
  ASSUME NEW S, NEW s \in Seq(S), s # <<>>, NEW map, Tracks(s, 1 .. Len(s), map)
  PROVE  /\ Tracks(Tail(s), 1 .. Len(Tail(s)), map)
         /\ IdsOf(Tail(s), 1 .. Len(Tail(s)))
              = IdsOf(s, 1 .. Len(s)) \ {Head(s).id}
         /\ Head(s).id \in IdsOf(s, 1 .. Len(s))
         /\ map[Head(s).id] = Head(s).process
<1> DEFINE t == Tail(s)
<1>1. /\ Len(s) \in Nat \ {0} /\ Len(t) = Len(s) - 1 /\ Head(s) = s[1]
      /\ \A i \in 1 .. Len(s) - 1 : t[i] = s[i + 1]
  BY HeadTailProperties, EmptySeq
<1> HIDE DEF t
<1>2. Tracks(t, 1 .. Len(t), map)
  <2>1. \A i \in 1 .. Len(t) : t[i] = s[i + 1] /\ i + 1 \in 1 .. Len(s)
    BY <1>1
  <2>2. \A i, j \in 1 .. Len(t) : i + 1 = j + 1 => i = j
    OBVIOUS
  <2> QED BY <2>1, <2>2 DEF Tracks
<1>3. IdsOf(t, 1 .. Len(t)) = IdsOf(s, 1 .. Len(s)) \ {Head(s).id}
  <2>1. ASSUME NEW i \in 1 .. Len(t)
        PROVE  t[i].id \in IdsOf(s, 1 .. Len(s)) /\ t[i].id # Head(s).id
    <3>1. t[i] = s[i + 1] /\ i + 1 \in 1 .. Len(s) /\ i + 1 # 1 /\ 1 \in 1 .. Len(s)
      BY <1>1
    <3> QED BY <1>1, <3>1 DEF IdsOf, Tracks
  <2>2. ASSUME NEW j \in 1 .. Len(s), s[j].id # Head(s).id
        PROVE  s[j].id \in IdsOf(t, 1 .. Len(t))
    <3>1. j # 1 /\ j - 1 \in 1 .. Len(t) /\ t[j - 1] = s[(j - 1) + 1] /\ (j - 1) + 1 = j
      BY <1>1, <2>2
    <3> QED BY <3>1 DEF IdsOf
  <2> QED BY <2>1, <2>2 DEF IdsOf
<1>4. 1 \in 1 .. Len(s)
  BY <1>1
<1> QED BY <1>1, <1>2, <1>3, <1>4 DEF t, IdsOf, Tracks

LEMMA TracksMap ==
  ASSUME NEW s, NEW D, NEW map, NEW map2, Tracks(s, D, map),
         \A id \in IdsOf(s, D) : map2[id] = map[id]
  PROVE  Tracks(s, D, map2)
BY DEF Tracks, IdsOf

\* Drain: s and the first n of t are in u.
LEMMA TracksConcat ==
  ASSUME NEW s, NEW t, NEW u, NEW map, Len(s) \in Nat, Len(t) \in Nat,
         Len(u) = Len(s) + Len(t),
         \A i \in 1 .. Len(s) : u[i] = s[i],
         \A i \in 1 .. Len(t) : u[Len(s) + i] = t[i],
         Tracks(s, 1 .. Len(s), map), Tracks(t, 1 .. Len(t), map),
         IdsOf(s, 1 .. Len(s)) \cap IdsOf(t, 1 .. Len(t)) = {}
  PROVE  /\ Tracks(u, 1 .. Len(u), map)
         /\ IdsOf(u, 1 .. Len(u))
              = IdsOf(s, 1 .. Len(s)) \cup IdsOf(t, 1 .. Len(t))
<1> DEFINE First(i) == i \in 1 .. Len(s) /\ u[i] = s[i]
           Second(i, k) == k \in 1 .. Len(t) /\ i = Len(s) + k /\ u[i] = t[k]
<1>1. ASSUME NEW i \in 1 .. Len(u)
      PROVE  First(i) \/ \E k \in 1 .. Len(t) : Second(i, k)
  <2>1. CASE i <= Len(s)
    BY <2>1
  <2>2. CASE i > Len(s)
    <3>1. i - Len(s) \in 1 .. Len(t) /\ Len(s) + (i - Len(s)) = i
      BY <2>2
    <3>2. u[Len(s) + (i - Len(s))] = t[i - Len(s)]
      BY <3>1
    <3> QED BY <2>2, <3>1, <3>2
  <2> QED BY <2>1, <2>2
<1>2. ASSUME NEW i \in 1 .. Len(u)
      PROVE  /\ map[u[i].id] = u[i].process
             /\ u[i].id \in IdsOf(s, 1 .. Len(s)) \cup IdsOf(t, 1 .. Len(t))
  <2>1. CASE First(i)
    <3>1. i \in 1 .. Len(s) /\ u[i] = s[i]
      BY <2>1
    <3>2. map[s[i].id] = s[i].process /\ s[i].id \in IdsOf(s, 1 .. Len(s))
      BY <3>1 DEF Tracks, IdsOf
    <3> QED BY <3>1, <3>2
  <2>2. CASE \E k \in 1 .. Len(t) : Second(i, k)
    <3>1. PICK k \in 1 .. Len(t) : u[i] = t[k]
      BY <2>2
    <3>2. map[t[k].id] = t[k].process /\ t[k].id \in IdsOf(t, 1 .. Len(t))
      BY DEF Tracks, IdsOf
    <3> QED BY <3>1, <3>2
  <2> HIDE DEF First, Second
  <2> QED BY <1>1, <2>1, <2>2
<1>3. ASSUME NEW i \in 1 .. Len(u), NEW j \in 1 .. Len(u), u[i].id = u[j].id
      PROVE  i = j
  <2>1. CASE First(i) /\ First(j)
    BY <1>3, <2>1 DEF Tracks
  <2>2. ASSUME NEW k \in 1 .. Len(t), NEW l \in 1 .. Len(t), Second(i, k), Second(j, l)
        PROVE  i = j
    BY <1>3, <2>2 DEF Tracks
  <2>3. ASSUME NEW l \in 1 .. Len(t), First(i), Second(j, l) PROVE FALSE
    <3>1. s[i].id \in IdsOf(s, 1 .. Len(s)) /\ t[l].id \in IdsOf(t, 1 .. Len(t))
      BY <2>3 DEF IdsOf
    <3> QED BY <1>3, <2>3, <3>1
  <2>4. ASSUME NEW k \in 1 .. Len(t), Second(i, k), First(j) PROVE FALSE
    <3>1. s[j].id \in IdsOf(s, 1 .. Len(s)) /\ t[k].id \in IdsOf(t, 1 .. Len(t))
      BY <2>4 DEF IdsOf
    <3> QED BY <1>3, <2>4, <3>1
  <2> HIDE DEF First, Second
  <2> QED BY <1>1, <2>1, <2>2, <2>3, <2>4
<1>4. \A i \in 1 .. Len(s) : i \in 1 .. Len(u)
  OBVIOUS
<1>5. \A i \in 1 .. Len(t) : Len(s) + i \in 1 .. Len(u)
  OBVIOUS
<1>6. IdsOf(u, 1 .. Len(u)) \subseteq IdsOf(s, 1 .. Len(s)) \cup IdsOf(t, 1 .. Len(t))
  BY <1>2 DEF IdsOf
<1>7. IdsOf(s, 1 .. Len(s)) \cup IdsOf(t, 1 .. Len(t)) \subseteq IdsOf(u, 1 .. Len(u))
  BY <1>4, <1>5 DEF IdsOf
<1> QED BY <1>2, <1>3, <1>6, <1>7 DEF Tracks

\* RemoveEnded: the last takes the place of the one at k.
LEMMA TracksRemove ==
  ASSUME NEW s, NEW t, NEW k, NEW map, Len(s) \in Nat, k \in 1 .. Len(s),
         Len(t) = Len(s) - 1,
         \A i \in 1 .. Len(s) - 1 : t[i] = s[IF i = k THEN Len(s) ELSE i],
         Tracks(s, (1 .. Len(s)) \ {k}, map)
  PROVE  /\ Tracks(t, 1 .. Len(t), map)
         /\ IdsOf(t, 1 .. Len(t)) = IdsOf(s, (1 .. Len(s)) \ {k})
<1> DEFINE of(i) == IF i = k THEN Len(s) ELSE i
<1>1. \A i \in 1 .. Len(t) : of(i) \in (1 .. Len(s)) \ {k} /\ t[i] = s[of(i)]
  OBVIOUS
<1>2. \A i, j \in 1 .. Len(t) : of(i) = of(j) => i = j
  OBVIOUS
<1>3. \A j \in (1 .. Len(s)) \ {k} : \E i \in 1 .. Len(t) : of(i) = j
  <2> SUFFICES ASSUME NEW j \in (1 .. Len(s)) \ {k}
               PROVE  \E i \in 1 .. Len(t) : of(i) = j
    OBVIOUS
  <2>1. CASE j = Len(s)
    <3>1. k \in 1 .. Len(t) /\ of(k) = j
      BY <2>1
    <3> QED BY <3>1
  <2>2. CASE j # Len(s)
    <3>1. j \in 1 .. Len(t) /\ of(j) = j
      BY <2>2
    <3> QED BY <3>1
  <2> QED BY <2>1, <2>2
<1> HIDE DEF of
<1>4. Tracks(t, 1 .. Len(t), map)
  <2>1. \A i \in 1 .. Len(t) : map[t[i].id] = t[i].process
    BY <1>1 DEF Tracks
  <2>2. ASSUME NEW i \in 1 .. Len(t), NEW j \in 1 .. Len(t), t[i].id = t[j].id
        PROVE  i = j
    <3>1. PICK m \in (1 .. Len(s)) \ {k} : m = of(i) /\ t[i] = s[m]
      BY <1>1
    <3>2. PICK n \in (1 .. Len(s)) \ {k} : n = of(j) /\ t[j] = s[n]
      BY <1>1
    <3>3. m = n
      BY <2>2, <3>1, <3>2 DEF Tracks
    <3> QED BY <1>2, <3>1, <3>2, <3>3
  <2> QED BY <2>1, <2>2 DEF Tracks
<1>5. IdsOf(t, 1 .. Len(t)) \subseteq IdsOf(s, (1 .. Len(s)) \ {k})
  BY <1>1 DEF IdsOf
<1>6. IdsOf(s, (1 .. Len(s)) \ {k}) \subseteq IdsOf(t, 1 .. Len(t))
  <2>1. ASSUME NEW j \in (1 .. Len(s)) \ {k}
        PROVE  s[j].id \in IdsOf(t, 1 .. Len(t))
    <3>1. PICK i \in 1 .. Len(t) : of(i) = j
      BY <1>3
    <3>2. t[i] = s[j]
      BY <1>1, <3>1
    <3> QED BY <3>2 DEF IdsOf
  <2> QED BY <2>1 DEF IdsOf
<1> QED BY <1>4, <1>5, <1>6

LEMMA TrackedKept ==
  ASSUME Tracked, UNCHANGED <<connected, m_q, m_processes, ended, calls, current,
                              m_pidMap>>
  PROVE  Tracked'
<1>1. /\ AddedIds' = AddedIds /\ WatchedIds' = WatchedIds /\ PostedIds' = PostedIds
      /\ HandledIds' = HandledIds /\ TrackedIds' = TrackedIds
      /\ Watching' = Watching
  BY DEF AddedIds, WatchedIds, PostedIds, HandledIds, TrackedIds, Watching
<1> QED BY <1>1 DEF Tracked

LEMMA TrackedGetLine ==
  ASSUME TypeOK, Threads, Tracked, GetLine
  PROVE  Tracked'
<1> DEFINE id == Head(lines).id
           p == Head(lines).handle
           e == [id |-> id, process |-> p]
<1>1. UNCHANGED <<connected, m_processes, ended, calls, current>>
  BY DEF GetLine, executor
<1>2. CASE UNCHANGED <<m_pidMap, m_q>>
  BY <1>1, <1>2, TrackedKept
<1>3. CASE p # NoProcess /\ m_pidMap[id] = NoProcess /\ Track(id, p)
  <2>1. id \in Pids /\ p \in Processes
    <3>1. Head(lines) \in LineSet
      BY HeadTailProperties DEF GetLine, TypeOK
    <3> QED BY <1>3, <3>1 DEF LineSet
  <2>2. e \in Entry /\ e.id = id /\ e.process = p
    BY <2>1 DEF Entry
  <2>3. m_q' = Append(m_q, e) /\ m_pidMap' = [m_pidMap EXCEPT ![id] = p]
    BY <1>3 DEF Track
  <2> HIDE DEF e, id, p
  <2> SUFFICES ASSUME connected PROVE Tracked'
    BY <1>1 DEF Tracked
  <2>4. id \notin AddedIds \cup WatchedIds \cup PostedIds \cup HandledIds
    BY <1>3 DEF Tracked, TrackedIds
  <2>5. m_pidMap'[id] = p /\ \A i \in Pids \ {id} : m_pidMap'[i] = m_pidMap[i]
    BY <2>1, <2>3 DEF TypeOK
  <2>6. \A i \in AddedIds \cup WatchedIds \cup PostedIds \cup HandledIds :
          m_pidMap'[i] = m_pidMap[i]
    BY <2>4, <2>5 DEF Tracked, TrackedIds
  <2>7. Tracks(m_q, 1 .. Len(m_q), m_pidMap')
    BY <2>6, TracksMap DEF Tracked, AddedIds
  <2>8. /\ Tracks(m_q', 1 .. Len(m_q'), m_pidMap')
        /\ AddedIds' = AddedIds \cup {id}
    <3> DEFINE S == Entry \cup {NoEntry}
    <3>1. m_q \in Seq(S) /\ e \in S
      BY <2>2 DEF TypeOK
    <3>2. m_pidMap'[e.id] = e.process /\ e.id \notin IdsOf(m_q, 1 .. Len(m_q))
      BY <2>2, <2>4, <2>5 DEF AddedIds
    <3> HIDE DEF S
    <3>3. /\ Tracks(Append(m_q, e), 1 .. Len(Append(m_q, e)), m_pidMap')
          /\ IdsOf(Append(m_q, e), 1 .. Len(Append(m_q, e)))
               = IdsOf(m_q, 1 .. Len(m_q)) \cup {e.id}
      BY <2>7, <3>1, <3>2, TracksAppend
    <3> QED BY <2>2, <2>3, <3>3 DEF AddedIds
  <2>9. /\ WatchedIds' = WatchedIds /\ PostedIds' = PostedIds
        /\ HandledIds' = HandledIds /\ Watching' = Watching
    BY <1>1 DEF WatchedIds, PostedIds, HandledIds, Watching
  <2>10. Tracks(m_processes', Watching', m_pidMap')
    BY <1>1, <2>6, <2>9, TracksMap DEF Tracked, WatchedIds
  <2>11. Tracks(calls', 1 .. Len(calls'), m_pidMap')
    BY <1>1, <2>6, TracksMap DEF Tracked, PostedIds
  <2>12. current' # NoEntry => m_pidMap'[current'.id] = current'.process
    BY <1>1, <2>6 DEF Tracked, HandledIds
  <2>13. TrackedIds' = TrackedIds \cup {id}
    BY <2>1, <2>5, ProcessAssumption DEF TrackedIds
  <2> QED BY <2>4, <2>8, <2>9, <2>10, <2>11, <2>12, <2>13 DEF Tracked
<1> QED BY <1>2, <1>3 DEF GetLine

LEMMA TrackedBeginEnded ==
  ASSUME TypeOK, Threads, Tracked, BeginEnded
  PROVE  Tracked'
<1>1. /\ calls # <<>> /\ current' = Head(calls) /\ calls' = Tail(calls)
      /\ UNCHANGED <<connected, m_q, m_processes, ended, m_pidMap>>
      /\ current = NoEntry
  BY DEF BeginEnded, Idle, monitor, Threads
<1> SUFFICES ASSUME connected PROVE Tracked'
  BY <1>1 DEF Tracked
<1>2. /\ Tracks(calls', 1 .. Len(calls'), m_pidMap)
      /\ PostedIds' = PostedIds \ {current'.id} /\ current'.id \in PostedIds
      /\ m_pidMap[current'.id] = current'.process
  BY <1>1, TracksTail DEF TypeOK, Tracked, PostedIds
<1>3. HandledIds = {} /\ HandledIds' = {current'.id}
  <2>1. current' # NoEntry
    BY <1>1, HeadTailProperties, Typed DEF TypeOK
  <2> QED BY <1>1, <2>1 DEF HandledIds
<1>4. /\ AddedIds' = AddedIds /\ WatchedIds' = WatchedIds
      /\ TrackedIds' = TrackedIds /\ Watching' = Watching
  BY <1>1 DEF AddedIds, WatchedIds, TrackedIds, Watching
<1> QED BY <1>1, <1>2, <1>3, <1>4 DEF Tracked

LEMMA TrackedErasePid ==
  ASSUME TypeOK, Threads, Tracked, ErasePid
  PROVE  Tracked'
<1>1. /\ current' = NoEntry /\ m_pidMap' = [m_pidMap EXCEPT ![current.id] = NoProcess]
      /\ UNCHANGED <<connected, m_q, m_processes, ended, calls>>
      /\ epc = "erase"
  BY DEF ErasePid, monitor
<1>2. current.id \in Pids /\ current # NoEntry /\ connected
  BY <1>1, CurrentTyped, Typed
<1>3. HandledIds = {current.id} /\ HandledIds' = {}
  BY <1>1, <1>2 DEF HandledIds
<1>4. /\ m_pidMap'[current.id] = NoProcess
      /\ \A i \in Pids \ {current.id} : m_pidMap'[i] = m_pidMap[i]
  BY <1>1, <1>2 DEF TypeOK
<1>5. /\ AddedIds' = AddedIds /\ WatchedIds' = WatchedIds /\ PostedIds' = PostedIds
      /\ Watching' = Watching
  BY <1>1 DEF AddedIds, WatchedIds, PostedIds, Watching
<1>6. \A i \in AddedIds \cup WatchedIds \cup PostedIds : m_pidMap'[i] = m_pidMap[i]
  BY <1>2, <1>3, <1>4 DEF Tracked, TrackedIds
<1>7. /\ Tracks(m_q', 1 .. Len(m_q'), m_pidMap')
      /\ Tracks(m_processes', Watching', m_pidMap')
      /\ Tracks(calls', 1 .. Len(calls'), m_pidMap')
  <2>1. /\ Tracks(m_q, 1 .. Len(m_q), m_pidMap) /\ Tracks(m_processes, Watching, m_pidMap)
        /\ Tracks(calls, 1 .. Len(calls), m_pidMap)
    BY <1>2 DEF Tracked
  <2>2. Tracks(m_q, 1 .. Len(m_q), m_pidMap')
    BY <1>6, <2>1, TracksMap DEF AddedIds
  <2>3. Tracks(m_processes, Watching, m_pidMap')
    BY <1>6, <2>1, TracksMap DEF WatchedIds
  <2>4. Tracks(calls, 1 .. Len(calls), m_pidMap')
    BY <1>6, <2>1, TracksMap DEF PostedIds
  <2> QED BY <1>1, <1>5, <2>2, <2>3, <2>4
<1>8. TrackedIds' = TrackedIds \ {current.id}
  BY <1>2, <1>4 DEF TrackedIds
<1> QED BY <1>1, <1>2, <1>3, <1>5, <1>7, <1>8 DEF Tracked

LEMMA TrackedDrain ==
  ASSUME TypeOK, Threads, Tracked, Drain
  PROVE  Tracked'
<1>1. /\ m_q' = <<>> /\ ended = 0
      /\ UNCHANGED <<connected, calls, current, m_pidMap, ended>>
  BY DEF Drain, RestUnchanged, Threads
<1> SUFFICES ASSUME connected PROVE Tracked'
  BY <1>1 DEF Tracked
<1>2. /\ Len(m_processes') = Len(m_processes) + Len(m_q)
      /\ \A i \in 1 .. Len(m_processes) : m_processes'[i] = m_processes[i]
      /\ \A i \in 1 .. Len(m_q) : m_processes'[Len(m_processes) + i] = m_q[i]
  BY DrainedTyped
<1>3. Len(m_processes) \in Nat /\ Len(m_q) \in Nat
  BY Typed
<1>4. Watching = 1 .. Len(m_processes) /\ Watching' = 1 .. Len(m_processes')
  BY <1>1, <1>2, <1>3 DEF Watching
<1>5. /\ Tracks(m_processes', Watching', m_pidMap)
      /\ WatchedIds' = WatchedIds \cup AddedIds
  <2> DEFINE s == m_processes  u == m_processes'
  <2>1. /\ Tracks(s, 1 .. Len(s), m_pidMap) /\ Tracks(m_q, 1 .. Len(m_q), m_pidMap)
        /\ IdsOf(s, 1 .. Len(s)) \cap IdsOf(m_q, 1 .. Len(m_q)) = {}
    BY <1>4 DEF Tracked, WatchedIds, AddedIds
  <2>2. /\ Tracks(u, 1 .. Len(u), m_pidMap)
        /\ IdsOf(u, 1 .. Len(u)) = IdsOf(s, 1 .. Len(s)) \cup IdsOf(m_q, 1 .. Len(m_q))
    BY <1>2, <1>3, <2>1, TracksConcat
  <2> QED BY <1>4, <2>2 DEF WatchedIds, AddedIds
<1>6. AddedIds' = {} /\ Tracks(m_q', 1 .. Len(m_q'), m_pidMap')
  BY <1>1, EmptySeq DEF AddedIds, IdsOf, Tracks
<1>7. /\ PostedIds' = PostedIds /\ HandledIds' = HandledIds
      /\ TrackedIds' = TrackedIds
  BY <1>1 DEF PostedIds, HandledIds, TrackedIds
<1> QED BY <1>1, <1>5, <1>6, <1>7 DEF Tracked

LEMMA TrackedEmitEnded ==
  ASSUME TypeOK, Threads, Tracked, EmitEnded
  PROVE  Tracked'
<1>1. /\ calls' = IF connected THEN Append(calls, m_processes[ended']) ELSE calls
      /\ UNCHANGED <<connected, m_q, m_processes, current, m_pidMap>> /\ ended = 0
  BY DEF EmitEnded, RestUnchanged, Threads
<1> SUFFICES ASSUME connected PROVE Tracked'
  BY <1>1 DEF Tracked
<1> DEFINE e == m_processes[ended']
<1>2. ended' \in 1 .. Len(m_processes) /\ e \in Entry
  BY WatchedIndex, Typed
<1>3. Watching = 1 .. Len(m_processes) /\ Watching' = Watching \ {ended'}
  BY <1>1, <1>2, Typed DEF Watching
<1>4. /\ m_pidMap[e.id] = e.process /\ e.id \in WatchedIds
      /\ \A i \in Watching : m_processes[i].id = e.id => i = ended'
  BY <1>2, <1>3 DEF Tracked, Tracks, WatchedIds, IdsOf
<1>5. WatchedIds' = WatchedIds \ {e.id}
  BY <1>1, <1>3, <1>4 DEF WatchedIds, IdsOf
<1>6. Tracks(m_processes', Watching', m_pidMap')
  BY <1>1, <1>3 DEF Tracked, Tracks
<1> HIDE DEF e
<1>7. calls' = Append(calls, e)
  BY <1>1 DEF e
<1>8. /\ Tracks(calls', 1 .. Len(calls'), m_pidMap)
      /\ PostedIds' = PostedIds \cup {e.id}
  <2>1. calls \in Seq(Entry) /\ Tracks(calls, 1 .. Len(calls), m_pidMap)
    BY DEF TypeOK, Tracked
  <2>2. e.id \notin IdsOf(calls, 1 .. Len(calls))
    BY <1>4 DEF Tracked, PostedIds
  <2>3. m_pidMap[e.id] = e.process
    BY <1>4
  <2>4. /\ Tracks(Append(calls, e), 1 .. Len(Append(calls, e)), m_pidMap)
        /\ IdsOf(Append(calls, e), 1 .. Len(Append(calls, e)))
             = IdsOf(calls, 1 .. Len(calls)) \cup {e.id}
    BY <1>2, <2>1, <2>2, <2>3, TracksAppend
  <2> QED BY <1>7, <2>4 DEF PostedIds
<1>9. /\ AddedIds' = AddedIds /\ HandledIds' = HandledIds
      /\ TrackedIds' = TrackedIds
  BY <1>1 DEF AddedIds, HandledIds, TrackedIds
<1> QED BY <1>1, <1>4, <1>5, <1>6, <1>8, <1>9 DEF Tracked

LEMMA TrackedRemoveEnded ==
  ASSUME TypeOK, Threads, Tracked, RemoveEnded
  PROVE  Tracked'
<1>1. /\ ended' = 0 /\ ended \in 1 .. Len(m_processes)
      /\ UNCHANGED <<connected, m_q, calls, current, m_pidMap>>
  BY DEF RemoveEnded, RestUnchanged, Threads
<1> SUFFICES ASSUME connected PROVE Tracked'
  BY <1>1 DEF Tracked
<1>2. Len(m_processes) \in Nat /\ Len(m_processes') = Len(m_processes) - 1
      /\ \A i \in 1 .. Len(m_processes) - 1 : m_processes'[i] =
              m_processes[IF i = ended THEN Len(m_processes) ELSE i]
  BY <1>1, RemovedTyped, Typed
<1>3. Watching = (1 .. Len(m_processes)) \ {ended}
      /\ Watching' = 1 .. Len(m_processes')
  BY <1>1, <1>2 DEF Watching
<1>4. Tracks(m_processes', Watching', m_pidMap) /\ WatchedIds' = WatchedIds
  BY <1>1, <1>2, <1>3, TracksRemove DEF Tracked, WatchedIds
<1>5. /\ AddedIds' = AddedIds /\ PostedIds' = PostedIds
      /\ HandledIds' = HandledIds /\ TrackedIds' = TrackedIds
  BY <1>1 DEF AddedIds, PostedIds, HandledIds, TrackedIds
<1> QED BY <1>1, <1>4, <1>5 DEF Tracked

LEMMA TrackedStep == TypeOK /\ Threads /\ Tracked /\ [Next]_vars => Tracked'
<1> SUFFICES ASSUME TypeOK, Threads, Tracked, [Next]_vars PROVE Tracked'
  OBVIOUS
<1> USE DEF kernel, filter, executor, monitor, history
<1>1. ASSUME NEW p \in Processes,
             \/ \E id \in Pids : Start(p, id)
             \/ \E newline \in BOOLEAN : Write(p, newline)
             \/ Exit(p)
      PROVE  Tracked'
  BY <1>1, TrackedKept DEF Start, Write, Exit
<1>2. CASE Notify \/ Update \/ Flush \/ AddTerminateMessage \/ Join \/ SetAutoNewLine
  BY <1>2, TrackedKept
     DEF Notify, Update, Flush, AddTerminateMessage, Join, SetAutoNewLine
<1>3. CASE TakeEvent \/ Timeout
  BY <1>3, TrackedKept DEF TakeEvent, Timeout, RestUnchanged
<1>4. CASE Abort
  BY <1>4 DEF Abort, Tracked
<1>5. CASE UNCHANGED vars
  BY <1>5, TrackedKept DEF vars
<1> QED BY <1>1, <1>2, <1>3, <1>4, <1>5, TrackedGetLine, TrackedBeginEnded,
           TrackedErasePid, TrackedDrain, TrackedEmitEnded, TrackedRemoveEnded
        DEF Next, Executor, Monitor

Place(where, i, e) == [where |-> where, at |-> i, entry |-> e]

LEMMA PlacesAre ==
  ASSUME TypeOK, Threads, connected
  PROVE  \A x : x \in Places <=>
           \/ \E i \in 1 .. Len(m_q) : x = Place("added", i, m_q[i])
           \/ \E i \in 1 .. Len(calls) : x = Place("posted", i, calls[i])
           \/ \E i \in Watching : x = Place("watched", i, m_processes[i])
           \/ current # NoEntry /\ x = Place("handled", 1, current)
<1>1. /\ \A i \in 1 .. Len(m_q) : m_q[i] # NoEntry
      /\ \A i \in 1 .. Len(calls) : calls[i] # NoEntry
      /\ \A i \in 1 .. Len(m_processes) : m_processes[i] # NoEntry
  BY Typed DEF Threads
<1>2. /\ In("added", m_q) = {Place("added", i, m_q[i]) : i \in 1 .. Len(m_q)}
      /\ In("posted", calls) = {Place("posted", i, calls[i]) : i \in 1 .. Len(calls)}
      /\ In("watched", m_processes)
           = {Place("watched", i, m_processes[i]) : i \in 1 .. Len(m_processes)}
  BY Typed DEF In, Place
<1>3. \A where, i, e : Place(where, i, e).entry = e /\ Place(where, i, e).at = i
  BY DEF Place
<1> DEFINE all == In("added", m_q) \cup In("posted", calls)
                  \cup {x \in In("watched", m_processes) : x.at # ended}
                  \cup {Place("handled", 1, current)}
<1>4. Places = {x \in all : x.entry # NoEntry}
  BY DEF Places, Place
<1>5. {x \in In("watched", m_processes) : x.at # ended}
        = {Place("watched", i, m_processes[i]) : i \in Watching}
  <2>1. ASSUME NEW i \in 1 .. Len(m_processes), i # ended
        PROVE  i \in Watching
    BY <2>1 DEF Watching
  <2>2. \A i \in Watching : i \in 1 .. Len(m_processes) /\ i # ended
    BY DEF Watching
  <2> QED BY <1>2, <1>3, <2>1, <2>2
<1>6. \A i \in Watching : m_processes[i] # NoEntry
  BY <1>1 DEF Watching
<1> QED BY <1>1, <1>2, <1>3, <1>4, <1>5, <1>6

LEMMA TrackedImpliesOnce ==
  ASSUME TypeOK, Threads, Tracked
  PROVE  TrackedOnce
<1> SUFFICES ASSUME connected PROVE TrackedOnce
  BY DEF TrackedOnce
<1>1. \A where, i, e : Place(where, i, e).entry = e
  BY DEF Place
<1>2. ASSUME NEW x \in Places
      PROVE  /\ m_pidMap[x.entry.id] = x.entry.process
             /\ \/ x.entry.id \in AddedIds
                   /\ \E i \in 1 .. Len(m_q) : x = Place("added", i, m_q[i])
                \/ x.entry.id \in PostedIds
                   /\ \E i \in 1 .. Len(calls) : x = Place("posted", i, calls[i])
                \/ x.entry.id \in WatchedIds
                   /\ \E i \in Watching : x = Place("watched", i, m_processes[i])
                \/ x.entry.id \in HandledIds /\ x = Place("handled", 1, current)
  <2>1. CASE \E i \in 1 .. Len(m_q) : x = Place("added", i, m_q[i])
    BY <1>1, <2>1 DEF Tracked, Tracks, AddedIds, IdsOf
  <2>2. CASE \E i \in 1 .. Len(calls) : x = Place("posted", i, calls[i])
    BY <1>1, <2>2 DEF Tracked, Tracks, PostedIds, IdsOf
  <2>3. CASE \E i \in Watching : x = Place("watched", i, m_processes[i])
    BY <1>1, <2>3 DEF Tracked, Tracks, WatchedIds, IdsOf
  <2>4. CASE current # NoEntry /\ x = Place("handled", 1, current)
    BY <1>1, <2>4 DEF Tracked, HandledIds
  <2> QED BY <2>1, <2>2, <2>3, <2>4, PlacesAre
<1>3. ASSUME NEW x \in Places, NEW y \in Places, x.entry.id = y.entry.id
      PROVE  x = y
  <2> DEFINE id == x.entry.id
  <2>1. /\ ~(id \in AddedIds /\ id \in PostedIds) /\ ~(id \in AddedIds /\ id \in WatchedIds)
        /\ ~(id \in AddedIds /\ id \in HandledIds) /\ ~(id \in PostedIds /\ id \in WatchedIds)
        /\ ~(id \in PostedIds /\ id \in HandledIds) /\ ~(id \in WatchedIds /\ id \in HandledIds)
    BY DEF Tracked
  <2>2. CASE /\ \E i \in 1 .. Len(m_q) : x = Place("added", i, m_q[i])
             /\ \E i \in 1 .. Len(m_q) : y = Place("added", i, m_q[i])
    BY <1>1, <1>3, <2>2 DEF Tracked, Tracks
  <2>3. CASE /\ \E i \in 1 .. Len(calls) : x = Place("posted", i, calls[i])
             /\ \E i \in 1 .. Len(calls) : y = Place("posted", i, calls[i])
    BY <1>1, <1>3, <2>3 DEF Tracked, Tracks
  <2>4. CASE /\ \E i \in Watching : x = Place("watched", i, m_processes[i])
             /\ \E i \in Watching : y = Place("watched", i, m_processes[i])
    BY <1>1, <1>3, <2>4 DEF Tracked, Tracks
  <2>5. CASE x = Place("handled", 1, current) /\ y = Place("handled", 1, current)
    BY <2>5
  <2> HIDE DEF id
  <2>6. id = x.entry.id /\ id = y.entry.id
    BY <1>3 DEF id
  <2> QED BY <1>2, <2>1, <2>2, <2>3, <2>4, <2>5, <2>6
<1>4. ASSUME NEW id \in Pids, m_pidMap[id] # NoProcess
      PROVE  \E x \in Places : x.entry.id = id
  <2>1. id \in AddedIds \cup WatchedIds \cup PostedIds \cup HandledIds
    BY <1>4 DEF Tracked, TrackedIds
  <2>2. CASE id \in AddedIds
    <3>1. PICK i \in 1 .. Len(m_q) : m_q[i].id = id
      BY <2>2 DEF AddedIds, IdsOf
    <3> QED BY <1>1, <3>1, PlacesAre
  <2>3. CASE id \in WatchedIds
    <3>1. PICK i \in Watching : m_processes[i].id = id
      BY <2>3 DEF WatchedIds, IdsOf
    <3> QED BY <1>1, <3>1, PlacesAre
  <2>4. CASE id \in PostedIds
    <3>1. PICK i \in 1 .. Len(calls) : calls[i].id = id
      BY <2>4 DEF PostedIds, IdsOf
    <3> QED BY <1>1, <3>1, PlacesAre
  <2>5. CASE id \in HandledIds
    <3>1. current # NoEntry /\ current.id = id
      BY <2>5 DEF HandledIds
    <3> QED BY <1>1, <3>1, PlacesAre
  <2> QED BY <2>1, <2>2, <2>3, <2>4, <2>5
<1> QED BY <1>2, <1>3, <1>4 DEF TrackedOnce

LEMMA TrackedInit == Init => TypeOK /\ Threads /\ Tracked
<1> SUFFICES ASSUME Init PROVE TypeOK /\ Threads /\ Tracked
  OBVIOUS
<1>1. TypeOK
  BY EmptySeq DEF Init, TypeOK
<1>2. Len(m_q) = 0 /\ Len(m_processes) = 0 /\ Len(calls) = 0
  BY EmptySeq DEF Init
<1>3. Threads
  BY <1>2 DEF Init, Threads
<1>4. TrackedIds = {} /\ HandledIds = {}
  BY DEF Init, TrackedIds, HandledIds
<1>5. Tracked
  BY <1>2, <1>4 DEF Init, Tracked, Tracks, IdsOf, AddedIds, WatchedIds, PostedIds, Watching
<1> QED BY <1>1, <1>3, <1>5

(* Every entry of m_pidMap is on exactly one stretch of its way through
   ProcessMonitor and OnProcessEnded, and nothing else is: for any number of
   processes, pids and handles in one wait, whatever order the monitor reports
   the ends in and its array is compacted. *)
THEOREM EntriesTrackedOnce == Spec => []TrackedOnce
<1>1. TypeOK /\ Threads /\ Tracked /\ [Next]_vars => (TypeOK /\ Threads /\ Tracked)'
  BY TypeStep, ThreadsStep, TrackedStep
<1>2. TypeOK /\ Threads /\ Tracked => TrackedOnce
  BY TrackedImpliesOnce
<1> QED BY <1>1, <1>2, TrackedInit, PTL DEF Spec

------------------------------------------------------------------------------
(* The handles *)

\* What Pending, m_pidMap and the text that is held become in a step.
Adds(line) ==
  /\ Len(Pending') = Len(Pending) + 1
  /\ \A i \in 1 .. Len(Pending) : Pending'[i] = Pending[i]
  /\ Pending'[Len(Pending) + 1] = line

LEMMA LineAdded ==
  ASSUME TypeOK, NEW line \in LineSet,
         m_linebuffer' = Append(m_linebuffer, line), lines' = lines
  PROVE  Adds(line)
BY PendingAdd DEF Adds

LEMMA NotifyStep ==
  ASSUME TypeOK, Notify
  PROVE  \E h \in Processes \cup {NoProcess} :
           /\ slot.writer \in Processes /\ slot.id \in Pids
           /\ Line(h, slot.id, <<Text(slot.writer)>>, slot.newline, FALSE) \in LineSet
           /\ Adds(Line(h, slot.id, <<Text(slot.writer)>>, slot.newline, FALSE))
           /\ m_linebuffer' = Append(m_linebuffer,
                Line(h, slot.id, <<Text(slot.writer)>>, slot.newline, FALSE))
           /\ h # NoProcess => Exists(h) /\ pid[h] = slot.id
           /\ \A p \in Processes : Exists(p) /\ pid[p] = slot.id => h # NoProcess
           /\ late' = IF life[slot.writer] = "ended"
                      THEN late \cup {slot.writer} ELSE late
           /\ untracked' = IF h # slot.writer
                           THEN untracked \cup {slot.writer} ELSE untracked
<1>1. PICK h \in Processes \cup {NoProcess} :
        LET line == Line(h, slot.id, <<Text(slot.writer)>>, slot.newline, FALSE)
        IN  /\ slot.writer \in Processes /\ line \in LineSet
            /\ m_linebuffer' = Append(m_linebuffer, line) /\ UNCHANGED lines
            /\ h # NoProcess => Exists(h) /\ pid[h] = slot.id
            /\ \A p \in Processes : Exists(p) /\ pid[p] = slot.id =>
                 h # NoProcess
            /\ late' = IF life[slot.writer] = "ended"
                       THEN late \cup {slot.writer} ELSE late
            /\ untracked' = IF h # slot.writer
                            THEN untracked \cup {slot.writer} ELSE untracked
  BY NotifyAdds
<1> DEFINE line == Line(h, slot.id, <<Text(slot.writer)>>, slot.newline, FALSE)
<1>2. line \in LineSet /\ m_linebuffer' = Append(m_linebuffer, line) /\ lines' = lines
  BY <1>1
<1>3. slot.id \in Pids
  BY DEF TypeOK, Notify
<1> HIDE DEF line
<1>4. Adds(line)
  BY <1>2, LineAdded
<1> QED BY <1>1, <1>2, <1>3, <1>4 DEF line

LEMMA LoopbackStep ==
  ASSUME TypeOK, NEW id \in Pids, NEW text \in Seq(Piece), Loopback(id, text),
         UNCHANGED lines
  PROVE  /\ Line(NoProcess, id, text, FALSE, TRUE) \in LineSet
         /\ Adds(Line(NoProcess, id, text, FALSE, TRUE))
<1>1. PICK line \in LineSet : /\ line = Line(NoProcess, id, text, FALSE, TRUE)
                              /\ m_linebuffer' = Append(m_linebuffer, line)
  BY LoopbackAdds
<1>2. Adds(line)
  BY <1>1, LineAdded
<1> QED BY <1>1, <1>2

\* The executor takes a line, or swaps, or adds a loopback line.
LEMMA ExecutorPending ==
  ASSUME TypeOK, Threads
  PROVE  /\ Update \/ BeginEnded => Pending' = Pending
         /\ Flush => /\ current \in Entry
                     /\ \/ Pending' = Pending /\ m_lineBuffers[current.id] = <<>>
                        \/ /\ m_lineBuffers[current.id] # <<>>
                           /\ Adds(Line(NoProcess, current.id,
                                        m_lineBuffers[current.id], FALSE, TRUE))
         /\ AddTerminateMessage =>
              current \in Entry /\ Adds(EndLine(current.process, current.id))
<1>1. Update \/ BeginEnded => Pending' = Pending
  BY PendingSwap DEF Update, BeginEnded, Idle
<1>2. ASSUME Flush
      PROVE  /\ current \in Entry
             /\ \/ Pending' = Pending /\ m_lineBuffers[current.id] = <<>>
                \/ /\ m_lineBuffers[current.id] # <<>>
                   /\ Adds(Line(NoProcess, current.id,
                                m_lineBuffers[current.id], FALSE, TRUE))
  <2> DEFINE text == m_lineBuffers[current.id]
  <2>1. current \in Entry /\ current.id \in Pids /\ text \in Seq(Piece)
    BY <1>2, CurrentTyped DEF Flush
  <2>2. CASE text = <<>>
    BY <1>2, <2>1, <2>2 DEF Flush, Pending
  <2>3. CASE text # <<>>
    <3>1. Loopback(current.id, text) /\ UNCHANGED lines
      BY <1>2, <2>3 DEF Flush
    <3> HIDE DEF text
    <3>2. Adds(Line(NoProcess, current.id, text, FALSE, TRUE))
      BY <2>1, <3>1, LoopbackStep
    <3> QED BY <2>1, <2>3, <3>2 DEF text
  <2> QED BY <2>2, <2>3
<1>3. ASSUME AddTerminateMessage
      PROVE  current \in Entry /\ Adds(EndLine(current.process, current.id))
  <2> DEFINE text == <<End(current.process)>>
  <2>1. current \in Entry /\ current.id \in Pids /\ text \in Seq(Piece)
    BY <1>3, CurrentTyped DEF AddTerminateMessage
  <2>2. Loopback(current.id, text) /\ UNCHANGED lines
    BY <1>3 DEF AddTerminateMessage
  <2> HIDE DEF text
  <2>3. Adds(Line(NoProcess, current.id, text, FALSE, TRUE))
    BY <2>1, <2>2, LoopbackStep
  <2> QED BY <2>1, <2>3 DEF EndLine, text
<1> QED BY <1>1, <1>2, <1>3

Others ==
  \/ \E p \in Processes : \/ \E id \in Pids : Start(p, id)
                          \/ \E newline \in BOOLEAN : Write(p, newline)
                          \/ Exit(p)
  \/ Join \/ SetAutoNewLine \/ Abort \/ Monitor \/ UNCHANGED vars

LEMMA OthersPending ==
  Others => UNCHANGED <<lines, m_linebuffer, Pending, m_pidMap, m_lineBuffers,
                        lastOut, mixed, late, untracked>>
BY DEF Others, Start, Write, Exit, Join, SetAutoNewLine, Abort, Monitor, TakeEvent,
       Drain, EmitEnded, RemoveEnded, Timeout, RestUnchanged, vars, kernel, filter,
       executor, monitor, history, Pending

LEMMA GetLineStep ==
  ASSUME TypeOK, GetLine
  PROVE  \E line \in LineSet :
           /\ line = Pending[1] /\ 1 \in 1 .. Len(Pending) /\ line.id \in Pids
           /\ Len(Pending') = Len(Pending) - 1
           /\ \A i \in 1 .. Len(Pending) - 1 : Pending'[i] = Pending[i + 1]
           /\ \/ /\ line.handle # NoProcess /\ line.handle \in Processes
                 /\ m_pidMap[line.id] = NoProcess
                 /\ m_pidMap'[line.id] = line.handle
                 /\ \A id \in Pids \ {line.id} : m_pidMap'[id] = m_pidMap[id]
              \/ /\ line.handle = NoProcess \/ m_pidMap[line.id] # NoProcess
                 /\ m_pidMap' = m_pidMap
           /\ Process(line)
           /\ UNCHANGED <<kernel, slot, m_linebuffer, executor, late, untracked>>
<1> DEFINE line == Head(lines)
<1>1. /\ lines # <<>> /\ lines' = Tail(lines)
      /\ UNCHANGED <<kernel, slot, m_linebuffer, executor, late, untracked>>
      /\ Process(line)
      /\ IF line.handle # NoProcess /\ m_pidMap[line.id] = NoProcess
         THEN Track(line.id, line.handle)
         ELSE UNCHANGED <<m_pidMap, m_q, m_event>>
  BY DEF GetLine
<1>2. /\ line \in LineSet /\ Len(Pending) > 0 /\ Len(Pending') = Len(Pending) - 1
      /\ Pending[1] = line
      /\ \A i \in 1 .. Len(Pending) - 1 : Pending'[i] = Pending[i + 1]
  BY <1>1, PendingTake
<1> HIDE DEF line
<1>3. line.id \in Pids /\ line.handle \in Processes \cup {NoProcess}
  BY <1>2 DEF LineSet
<1>4. 1 \in 1 .. Len(Pending)
  BY <1>2, PendingTyped
<1>5. \/ /\ line.handle # NoProcess /\ line.handle \in Processes
         /\ m_pidMap[line.id] = NoProcess
         /\ m_pidMap'[line.id] = line.handle
         /\ \A id \in Pids \ {line.id} : m_pidMap'[id] = m_pidMap[id]
      \/ /\ line.handle = NoProcess \/ m_pidMap[line.id] # NoProcess
         /\ m_pidMap' = m_pidMap
  <2>1. CASE line.handle # NoProcess /\ m_pidMap[line.id] = NoProcess
    BY <1>1, <1>3, <2>1 DEF Track, TypeOK
  <2>2. CASE ~(line.handle # NoProcess /\ m_pidMap[line.id] = NoProcess)
    BY <1>1, <2>2
  <2> QED BY <2>1, <2>2
<1> QED BY <1>1, <1>2, <1>3, <1>4, <1>5

\* HandlesHeld, after a step.
LEMMA HandlesHeldNext ==
  ASSUME TypeOK', NEW p
  PROVE  HasHandle(p)' <=> \/ \E i \in 1 .. Len(Pending') : Pending'[i].handle = p
                           \/ \E id \in Pids : m_pidMap'[id] = p
<1>1. /\ lines' \in Seq(LineSet) /\ m_linebuffer' \in Seq(LineSet)
      /\ Len(lines') \in Nat /\ Len(m_linebuffer') \in Nat
      /\ DOMAIN lines' = 1 .. Len(lines')
      /\ DOMAIN m_linebuffer' = 1 .. Len(m_linebuffer')
  BY LenProperties DEF TypeOK
<1>2. /\ Len(Pending') = Len(lines') + Len(m_linebuffer')
      /\ \A i \in 1 .. Len(lines') + Len(m_linebuffer') : Pending'[i] =
           IF i <= Len(lines') THEN lines'[i] ELSE m_linebuffer'[i - Len(lines')]
  BY <1>1, ConcatProperties DEF Pending
<1>3. ASSUME NEW i \in 1 .. Len(Pending'), Pending'[i].handle = p PROVE HasHandle(p)'
  <2>1. CASE i <= Len(lines')
    BY <1>1, <1>2, <1>3, <2>1 DEF HasHandle
  <2>2. CASE i > Len(lines')
    <3>1. i - Len(lines') \in 1 .. Len(m_linebuffer')
          /\ Pending'[i] = m_linebuffer'[i - Len(lines')]
      BY <1>1, <1>2, <2>2
    <3>2. m_linebuffer'[i - Len(lines')].handle = p
      BY <1>3, <3>1
    <3> QED BY <1>1, <3>1, <3>2 DEF HasHandle
  <2> QED BY <1>1, <1>2, <2>1, <2>2
<1>4. ASSUME NEW i \in 1 .. Len(m_linebuffer'), m_linebuffer'[i].handle = p
      PROVE  \E j \in 1 .. Len(Pending') : Pending'[j].handle = p
  <2>1. /\ Len(lines') + i \in 1 .. Len(Pending')
        /\ ~(Len(lines') + i <= Len(lines')) /\ (Len(lines') + i) - Len(lines') = i
    BY <1>1, <1>2
  <2>2. Pending'[Len(lines') + i] = m_linebuffer'[i]
    BY <1>2, <2>1
  <2> QED BY <1>4, <2>1, <2>2
<1>5. ASSUME NEW i \in 1 .. Len(lines'), lines'[i].handle = p
      PROVE  \E j \in 1 .. Len(Pending') : Pending'[j].handle = p
  <2>1. i \in 1 .. Len(Pending')
    BY <1>1, <1>2
  <2>2. Pending'[i] = lines'[i]
    BY <1>1, <1>2
  <2> QED BY <1>5, <2>1, <2>2
<1> QED BY <1>1, <1>3, <1>4, <1>5 DEF HasHandle

\* A handle is opened of a process that exists.
LEMMA HeldStep ==
  ASSUME TypeOK, Threads, TypeOK', [Next]_vars, NEW p \in Processes, HasHandle(p)'
  PROVE  HasHandle(p) \/ (Notify /\ Exists(p))
<1> DEFINE Held == \/ \E i \in 1 .. Len(Pending) : Pending[i].handle = p
                   \/ \E id \in Pids : m_pidMap[id] = p
<1>1. \/ \E i \in 1 .. Len(Pending') : Pending'[i].handle = p
      \/ \E id \in Pids : m_pidMap'[id] = p
  BY HandlesHeldNext
<1>2. Held => HasHandle(p)
  BY HandlesHeld
<1>n. Len(Pending) \in Nat /\ NoProcess \notin Processes
  BY PendingTyped, ProcessAssumption
<1>a. ASSUME NEW line, Adds(line), NEW i \in 1 .. Len(Pending'), Pending'[i].handle = p
      PROVE  line.handle = p \/ Held
  <2>1. i = Len(Pending) + 1 \/ i \in 1 .. Len(Pending)
    BY <1>n, <1>a DEF Adds
  <2> QED BY <1>a, <2>1 DEF Adds
<1>3. CASE Others
  BY <1>1, <1>2, <1>3, OthersPending
<1>4. CASE Notify
  <2>1. PICK h \in Processes \cup {NoProcess} :
          /\ Adds(Line(h, slot.id, <<Text(slot.writer)>>, slot.newline, FALSE))
          /\ h # NoProcess => Exists(h)
    BY <1>4, NotifyStep
  <2>2. Line(h, slot.id, <<Text(slot.writer)>>, slot.newline, FALSE).handle = h
    BY DEF Line
  <2>3. m_pidMap' = m_pidMap
    BY <1>4 DEF Notify
  <2> QED BY <1>1, <1>2, <1>4, <1>a, <1>n, <2>1, <2>2, <2>3
<1>5. CASE GetLine
  <2>1. PICK line \in LineSet :
           /\ line = Pending[1] /\ 1 \in 1 .. Len(Pending) /\ line.id \in Pids
           /\ Len(Pending') = Len(Pending) - 1
           /\ \A i \in 1 .. Len(Pending) - 1 : Pending'[i] = Pending[i + 1]
           /\ \/ /\ m_pidMap'[line.id] = line.handle
                 /\ \A id \in Pids \ {line.id} : m_pidMap'[id] = m_pidMap[id]
              \/ m_pidMap' = m_pidMap
    BY <1>5, GetLineStep
  <2>2. CASE \E i \in 1 .. Len(Pending') : Pending'[i].handle = p
    <3>1. PICK i \in 1 .. Len(Pending) - 1 : Pending[i + 1].handle = p
      BY <2>1, <2>2
    <3>2. i + 1 \in 1 .. Len(Pending)
      BY <1>n
    <3> QED BY <1>2, <3>1, <3>2
  <2>3. CASE \E id \in Pids : m_pidMap'[id] = p
    BY <1>2, <2>1, <2>3
  <2> QED BY <1>1, <2>2, <2>3
<1>6. CASE Update \/ BeginEnded
  BY <1>1, <1>2, <1>6, ExecutorPending DEF Update, BeginEnded
<1>7. CASE Flush \/ AddTerminateMessage
  <2>1. m_pidMap' = m_pidMap
    BY <1>7 DEF Flush, AddTerminateMessage
  <2>2. \/ Pending' = Pending
        \/ \E line : Adds(line) /\ line.handle = NoProcess
    BY <1>7, ExecutorPending DEF Line, EndLine
  <2> QED BY <1>1, <1>2, <1>a, <1>n, <2>1, <2>2
<1>8. CASE ErasePid
  <2>1. Pending' = Pending
    BY <1>8 DEF ErasePid, Pending
  <2>2. current.id \in Pids /\ m_pidMap' = [m_pidMap EXCEPT ![current.id] = NoProcess]
    BY <1>8, CurrentTyped DEF ErasePid
  <2>3. \A id \in Pids : m_pidMap'[id] = p => m_pidMap[id] = p
    BY <1>n, <2>2 DEF TypeOK
  <2> QED BY <1>1, <1>2, <2>1, <2>3
<1> QED BY <1>3, <1>4, <1>5, <1>6, <1>7, <1>8 DEF Next, Executor, Others

\* A process keeps its pid, and ends once.
LEMMA LifeStep ==
  ASSUME TypeOK, [Next]_vars, NEW p \in Processes
  PROVE  /\ life[p] # "unborn" => life'[p] # "unborn" /\ pid'[p] = pid[p]
         /\ \/ \E id \in Pids : Start(p, id)
            \/ UNCHANGED <<life[p], pid[p]>>
            \/ life[p] = "running" /\ life'[p] = "ended" /\ pid'[p] = pid[p]
<1> USE DEF TypeOK, kernel, filter, executor, monitor, history
<1>1. ASSUME NEW q \in Processes, NEW id \in Pids, Start(q, id)
      PROVE  /\ life[p] # "unborn" => life'[p] # "unborn" /\ pid'[p] = pid[p]
             /\ p = q \/ UNCHANGED <<life[p], pid[p]>>
  BY <1>1 DEF Start
<1>2. ASSUME NEW q \in Processes, Exit(q)
      PROVE  /\ life[p] # "unborn" => life'[p] # "unborn" /\ pid'[p] = pid[p]
             /\ \/ UNCHANGED <<life[p], pid[p]>>
                \/ life[p] = "running" /\ life'[p] = "ended" /\ pid'[p] = pid[p]
  BY <1>2 DEF Exit
<1>3. CASE ~ \E q \in Processes : Exit(q) \/ \E id \in Pids : Start(q, id)
  <2>1. UNCHANGED <<life, pid>>
    BY <1>3 DEF Next, Write, Notify, Executor, GetLine, Update, BeginEnded, Flush,
       AddTerminateMessage, ErasePid, Join, SetAutoNewLine, Abort, Monitor,
       TakeEvent, Drain, EmitEnded, RemoveEnded, Timeout, RestUnchanged, vars
  <2> QED BY <2>1
<1> QED BY <1>1, <1>2, <1>3

\* A process that exists after a step did before, unless the step starts it.
LEMMA ExistsStep ==
  ASSUME TypeOK, Threads, TypeOK', [Next]_vars, NEW p \in Processes, Exists(p)'
  PROVE  \/ Exists(p) /\ pid'[p] = pid[p]
         \/ \E id \in Pids : Start(p, id)
<1>1. life'[p] = "running" \/ (life'[p] = "ended" /\ HasHandle(p)')
  BY DEF Exists
<1>2. CASE UNCHANGED <<life[p], pid[p]>>
  BY <1>1, <1>2, HeldStep DEF Exists
<1>3. CASE life[p] = "running" /\ pid'[p] = pid[p]
  BY <1>3 DEF Exists
<1> QED BY <1>2, <1>3, LifeStep

LEMMA HandlesStep ==
  TypeOK /\ TypeOK' /\ Threads /\ Handles /\ [Next]_vars => Handles'
<1> SUFFICES ASSUME TypeOK, TypeOK', Threads, Handles, [Next]_vars PROVE Handles'
  OBVIOUS
<1>n. Len(Pending) \in Nat /\ NoProcess \notin Processes
  BY PendingTyped, ProcessAssumption
<1> DEFINE Known(h, id) == h # NoProcess => h \in Processes /\ life[h] # "unborn" /\ pid[h] = id
           KnownNext(h, id) == h # NoProcess => life'[h] # "unborn" /\ pid'[h] = id
<1>k. ASSUME NEW h, NEW id, Known(h, id) PROVE KnownNext(h, id)
  BY <1>k, LifeStep
<1>p. \A i \in 1 .. Len(Pending) : Known(Pending[i].handle, Pending[i].id)
  <2>1. \A i \in 1 .. Len(Pending) : Pending[i].handle \in Processes \cup {NoProcess}
    BY PendingTyped DEF LineSet
  <2> QED BY <2>1 DEF Handles
<1>m. \A id \in Pids : Known(m_pidMap[id], id)
  <2>1. \A id \in Pids : m_pidMap[id] \in Processes \cup {NoProcess}
    BY DEF TypeOK
  <2> QED BY <2>1 DEF Handles
<1>e. \A h \in Processes : Exists(h) => life[h] # "unborn"
  BY DEF Exists
<1> HIDE DEF Known, KnownNext
<1>1. ASSUME NEW p \in Processes, NEW q \in Processes,
             Exists(p)', Exists(q)', pid'[p] = pid'[q]
      PROVE  p = q
  <2>1. CASE Exists(p) /\ pid'[p] = pid[p] /\ Exists(q) /\ pid'[q] = pid[q]
    BY <1>1, <2>1 DEF Handles
  <2>2. ASSUME NEW r \in Processes, NEW s \in Processes, NEW id \in Pids,
               Start(r, id), Exists(s), pid'[s] = pid[s], pid'[r] = pid'[s]
        PROVE  FALSE
    <3>1. pid'[r] = id /\ pid[s] # id
      BY <2>2 DEF Start, TypeOK
    <3> QED BY <2>2, <3>1
  <2>3. CASE (\E id \in Pids : Start(p, id)) /\ (\E id \in Pids : Start(q, id))
    <3>1. life[p] = "unborn" /\ life'[p] = "running" /\ life[q] = "unborn" /\ life'[q] = "running"
      BY <2>3 DEF Start, TypeOK
    <3>2. PICK id \in Pids : Start(p, id)
      BY <2>3
    <3> QED BY <3>1, <3>2 DEF Start, TypeOK
  <2> QED BY <1>1, <2>1, <2>2, <2>3, ExistsStep
<1>2. ASSUME NEW i \in 1 .. Len(Pending') PROVE KnownNext(Pending'[i].handle, Pending'[i].id)
  <2>a. ASSUME NEW line, Adds(line), Known(line.handle, line.id)
        PROVE  KnownNext(Pending'[i].handle, Pending'[i].id)
    <3>1. i = Len(Pending) + 1 \/ i \in 1 .. Len(Pending)
      BY <1>n, <2>a DEF Adds
    <3>2. Pending'[i] = line \/ \E j \in 1 .. Len(Pending) : Pending'[i] = Pending[j]
      BY <2>a, <3>1 DEF Adds
    <3> QED BY <1>k, <1>p, <2>a, <3>2
  <2>1. CASE Pending' = Pending
    BY <1>k, <1>p, <2>1
  <2>2. CASE Notify
    <3>1. PICK h \in Processes \cup {NoProcess} :
            /\ Adds(Line(h, slot.id, <<Text(slot.writer)>>, slot.newline, FALSE))
            /\ h # NoProcess => Exists(h) /\ pid[h] = slot.id
      BY <2>2, NotifyStep
    <3>2. Known(h, slot.id)
      BY <1>e, <3>1 DEF Known
    <3> QED BY <2>a, <3>1, <3>2 DEF Line
  <2>3. CASE GetLine
    <3>1. i \in 1 .. Len(Pending) - 1 /\ Pending'[i] = Pending[i + 1]
      BY <2>3, GetLineStep
    <3>2. i + 1 \in 1 .. Len(Pending)
      BY <1>n, <3>1
    <3> QED BY <1>k, <1>p, <3>1, <3>2
  <2>4. CASE Flush \/ AddTerminateMessage
    <3>1. Pending' = Pending \/ \E line : Adds(line) /\ line.handle = NoProcess
      BY <2>4, ExecutorPending DEF Line, EndLine
    <3> QED BY <2>a, <2>1, <3>1 DEF Known
  <2>5. CASE ErasePid
    BY <2>1, <2>5 DEF ErasePid, Pending
  <2> QED BY <2>1, <2>2, <2>3, <2>4, <2>5, OthersPending, ExecutorPending
          DEF Next, Executor, Others
<1>3. ASSUME NEW id \in Pids PROVE KnownNext(m_pidMap'[id], id)
  <2>1. CASE m_pidMap'[id] = m_pidMap[id] \/ m_pidMap'[id] = NoProcess
    BY <1>k, <1>m, <2>1 DEF KnownNext
  <2>2. CASE GetLine
    <3>1. m_pidMap'[id] = m_pidMap[id]
          \/ /\ 1 \in 1 .. Len(Pending) /\ Pending[1].id = id
             /\ m_pidMap'[id] = Pending[1].handle
      BY <2>2, GetLineStep
    <3> QED BY <1>k, <1>p, <2>1, <3>1
  <2>3. CASE ErasePid
    <3>1. m_pidMap'[id] = m_pidMap[id] \/ m_pidMap'[id] = NoProcess
      BY <2>3 DEF ErasePid, TypeOK
    <3> QED BY <2>1, <3>1
  <2>4. CASE Notify \/ Update \/ BeginEnded \/ Flush \/ AddTerminateMessage
    BY <2>1, <2>4 DEF Notify, Update, BeginEnded, Flush, AddTerminateMessage
  <2> QED BY <2>1, <2>2, <2>3, <2>4, OthersPending DEF Next, Executor, Others
<1>4. slot' # NoText => life'[slot'.writer] # "unborn" /\ pid'[slot'.writer] = slot'.id
  <2>1. CASE UNCHANGED slot
    <3>1. slot # NoText => slot.writer \in Processes
      BY DEF TypeOK
    <3> QED BY <2>1, <3>1, LifeStep DEF Handles
  <2>2. ASSUME NEW p \in Processes, NEW newline \in BOOLEAN, Write(p, newline)
        PROVE  life'[slot'.writer] # "unborn" /\ pid'[slot'.writer] = slot'.id
    BY <2>2 DEF Write
  <2>3. CASE Notify
    BY <2>3 DEF Notify
  <2>4. CASE ~Notify /\ ~ \E p \in Processes, newline \in BOOLEAN : Write(p, newline)
    <3>1. UNCHANGED slot
      BY <2>4 DEF Next, Start, Exit, Executor, GetLine, Update, BeginEnded, Flush,
         AddTerminateMessage, ErasePid, Join, SetAutoNewLine, Abort, Monitor,
         TakeEvent, Drain, EmitEnded, RemoveEnded, Timeout, RestUnchanged, vars
    <3> QED BY <2>1, <3>1
  <2> QED BY <2>2, <2>3, <2>4
<1> QED BY <1>1, <1>2, <1>3, <1>4 DEF Handles, KnownNext

------------------------------------------------------------------------------
(* The lines *)

LineOK(line, known) ==
  /\ line.text # <<>>
  /\ line.loopback => line.handle = NoProcess
  /\ ~line.loopback =>
       \E w \in Processes : line.text = <<Text(w)>> /\ w \in {line.handle} \cup known

LEMMA UntrackedStep ==
  ASSUME TypeOK, Threads, Handles, [Next]_vars
  PROVE  /\ untracked \subseteq untracked' /\ late \subseteq late'
         /\ late' = {} => late = {}
         /\ Notify \/ UNCHANGED <<late, untracked>>
<1>1. Notify \/ UNCHANGED <<late, untracked>>
  BY OthersPending DEF Next, Executor, Others, GetLine, Update, BeginEnded, Flush,
     AddTerminateMessage, ErasePid, history
<1>2. Notify => untracked \subseteq untracked' /\ late \subseteq late'
  BY NotifyStep
<1> QED BY <1>1, <1>2

LEMMA PendingLinesStep ==
  ASSUME TypeOK, Threads, Handles, Lines, [Next]_vars
  PROVE  \A i \in 1 .. Len(Pending') : LineOK(Pending'[i], untracked')
<1> SUFFICES ASSUME NEW i \in 1 .. Len(Pending')
             PROVE  LineOK(Pending'[i], untracked')
  OBVIOUS
<1>n. Len(Pending) \in Nat
  BY PendingTyped
<1>p. ASSUME NEW j \in 1 .. Len(Pending) PROVE LineOK(Pending[j], untracked')
  BY UntrackedStep DEF Lines, LineOK
<1>a. ASSUME NEW line, Adds(line), LineOK(line, untracked')
      PROVE  LineOK(Pending'[i], untracked')
  <2>1. i = Len(Pending) + 1 \/ i \in 1 .. Len(Pending)
    BY <1>n, <1>a DEF Adds
  <2> QED BY <1>a, <1>p, <2>1 DEF Adds
<1>1. CASE Pending' = Pending
  BY <1>p, <1>1
<1>2. CASE Notify
  <2>1. PICK h \in Processes \cup {NoProcess} :
          /\ slot.writer \in Processes
          /\ Adds(Line(h, slot.id, <<Text(slot.writer)>>, slot.newline, FALSE))
          /\ untracked' = IF h # slot.writer
                          THEN untracked \cup {slot.writer} ELSE untracked
    BY <1>2, NotifyStep
  <2> DEFINE line == Line(h, slot.id, <<Text(slot.writer)>>, slot.newline, FALSE)
  <2>2. /\ line.text = <<Text(slot.writer)>> /\ line.loopback = FALSE
        /\ line.handle = h
    BY DEF Line
  <2>3. slot.writer \in {h} \cup untracked'
    BY <2>1
  <2> HIDE DEF line
  <2>4. line.text # <<>>
    <3>1. \A x : <<x>> # <<>>
      OBVIOUS
    <3> QED BY <2>2, <3>1
  <2>5. LineOK(line, untracked')
    BY <2>1, <2>2, <2>3, <2>4 DEF LineOK
  <2> QED BY <1>a, <2>1, <2>5 DEF line
<1>3. CASE GetLine
  <2>1. i \in 1 .. Len(Pending) - 1 /\ Pending'[i] = Pending[i + 1]
    BY <1>3, GetLineStep
  <2>2. i + 1 \in 1 .. Len(Pending)
    BY <1>n, <2>1
  <2> QED BY <1>p, <2>1, <2>2
<1>4. CASE Flush \/ AddTerminateMessage
  <2>1. \/ Pending' = Pending
        \/ \E line : /\ Adds(line) /\ line.handle = NoProcess /\ line.loopback = TRUE
                     /\ line.text # <<>>
    BY <1>4, ExecutorPending DEF Line, EndLine
  <2> QED BY <1>a, <1>1, <2>1 DEF LineOK
<1>5. CASE ErasePid
  BY <1>1, <1>5 DEF ErasePid, Pending
<1> QED BY <1>1, <1>2, <1>3, <1>4, <1>5, OthersPending, ExecutorPending
        DEF Next, Executor, Others

LEMMA LinesStep ==
  TypeOK /\ Threads /\ Handles /\ Lines /\ [Next]_vars => Lines'
<1> SUFFICES ASSUME TypeOK, Threads, Handles, Lines, [Next]_vars PROVE Lines'
  OBVIOUS
<1> DEFINE Plain == \A i \in 1 .. Len(m_linebuffer) : ~m_linebuffer[i].loopback
           Ended == \E j \in 1 .. Len(m_linebuffer) :
             /\ m_linebuffer[j] = EndLine(current.process, current.id)
             /\ \A i \in j + 1 .. Len(m_linebuffer) : ~m_linebuffer[i].loopback
<1>n. Len(m_linebuffer) \in Nat
  BY PendingTyped
<1>1. (epc = "flush" => Plain)' /\ (epc = "erase" => Ended)'
  <2>1. CASE UNCHANGED <<epc, m_linebuffer, current>>
    BY <2>1 DEF Lines
  <2>2. CASE UNCHANGED m_linebuffer /\ epc' \notin {"flush", "erase"}
    BY <2>2
  <2>3. CASE Others
    <3>1. UNCHANGED m_linebuffer
      BY <2>3, OthersPending
    <3>2. UNCHANGED <<epc, current>> \/ epc' \notin {"flush", "erase"}
      BY <2>3 DEF Others, Start, Write, Exit, Join, SetAutoNewLine, Abort, Monitor,
         TakeEvent, Drain, EmitEnded, RemoveEnded, Timeout, RestUnchanged, vars,
         kernel, filter, executor, monitor, history
    <3> QED BY <2>1, <2>2, <3>1, <3>2
  <2>4. CASE Notify
    <3>1. PICK line \in LineSet :
            m_linebuffer' = Append(m_linebuffer, line) /\ line.loopback = FALSE
      BY <2>4, NotifyStep DEF Line
    <3>2. /\ Len(m_linebuffer') = Len(m_linebuffer) + 1
          /\ \A i \in 1 .. Len(m_linebuffer) : m_linebuffer'[i] = m_linebuffer[i]
          /\ m_linebuffer'[Len(m_linebuffer) + 1] = line
      BY <3>1, AppendProperties DEF TypeOK
    <3>3. UNCHANGED <<epc, current>>
      BY <2>4 DEF Notify, executor
    <3>4. Plain => Plain'
      BY <1>n, <3>1, <3>2
    <3>5. Ended => Ended'
      <4> SUFFICES ASSUME Ended PROVE Ended'
        OBVIOUS
      <4>1. PICK j \in 1 .. Len(m_linebuffer) :
             /\ m_linebuffer[j] = EndLine(current.process, current.id)
             /\ \A i \in j + 1 .. Len(m_linebuffer) : ~m_linebuffer[i].loopback
        OBVIOUS
      <4>2. \A i \in j + 1 .. Len(m_linebuffer') : ~m_linebuffer'[i].loopback
        BY <1>n, <3>1, <3>2, <4>1
      <4>3. j \in 1 .. Len(m_linebuffer') /\ m_linebuffer'[j] = m_linebuffer[j]
        BY <1>n, <3>2
      <4> QED BY <3>3, <4>1, <4>2, <4>3 DEF EndLine
    <3> HIDE DEF Plain, Ended
    <3>6. (epc = "flush" => Plain) /\ (epc = "erase" => Ended)
      BY DEF Lines, Plain, Ended
    <3> QED BY <3>3, <3>4, <3>5, <3>6
  <2>5. CASE GetLine
    BY <2>1, <2>5 DEF GetLine, executor
  <2>6. CASE Update
    BY <2>6 DEF Update, Idle, executor
  <2>7. CASE BeginEnded
    <3>1. m_linebuffer' = <<>> /\ epc' = "flush"
      BY <2>7 DEF BeginEnded, SwapLines
    <3> QED BY <3>1, EmptySeq
  <2>8. CASE Flush \/ ErasePid
    BY <2>8 DEF Flush, ErasePid
  <2>9. CASE AddTerminateMessage
    <3> DEFINE text == <<End(current.process)>>
    <3>1. text \in Seq(Piece) /\ current.id \in Pids /\ Loopback(current.id, text)
      BY <2>9, CurrentTyped DEF AddTerminateMessage
    <3> HIDE DEF text
    <3>2. PICK line \in LineSet : /\ m_linebuffer' = Append(m_linebuffer, line)
                                  /\ line = Line(NoProcess, current.id, text, FALSE, TRUE)
      BY <3>1, LoopbackAdds
    <3>3. /\ Len(m_linebuffer') = Len(m_linebuffer) + 1
          /\ m_linebuffer'[Len(m_linebuffer) + 1] = line
      <4>1. m_linebuffer \in Seq(LineSet)
        BY DEF TypeOK
      <4>2. /\ Len(Append(m_linebuffer, line)) = Len(m_linebuffer) + 1
            /\ Append(m_linebuffer, line)[Len(m_linebuffer) + 1] = line
        BY <4>1, AppendProperties
      <4> QED BY <3>2, <4>2
    <3>4. line = EndLine(current'.process, current'.id) /\ epc' = "erase"
      BY <2>9, <3>2 DEF AddTerminateMessage, EndLine, text
    <3>5. Len(m_linebuffer') \in 1 .. Len(m_linebuffer')
          /\ \A i \in Len(m_linebuffer') + 1 .. Len(m_linebuffer') : FALSE
      BY <1>n, <3>3
    <3>6. Ended'
      BY <3>3, <3>4, <3>5
    <3> QED BY <3>4, <3>6
  <2> QED BY <2>3, <2>4, <2>5, <2>6, <2>7, <2>8, <2>9 DEF Next, Executor, Others
<1>2. \A i \in 1 .. Len(Pending') : LineOK(Pending'[i], untracked')
  BY PendingLinesStep
<1> QED BY <1>1, <1>2 DEF Lines, LineOK

------------------------------------------------------------------------------
(* The ends *)

\* A line with the handle of p leaves p tracked: no other process can have the
\* pid.
LEMMA HandleIsTracked ==
  ASSUME TypeOK, Handles, GetLine, NEW p \in Processes, Pending[1].handle = p
  PROVE  m_pidMap'[Pending[1].id] = p
<1> DEFINE id == Pending[1].id
<1>1. /\ 1 \in 1 .. Len(Pending) /\ id \in Pids
      /\ \/ m_pidMap'[id] = p
         \/ m_pidMap[id] # NoProcess /\ m_pidMap' = m_pidMap
  BY GetLineStep, ProcessAssumption
<1>2. p # NoProcess
  BY ProcessAssumption
<1>3. CASE m_pidMap[id] # NoProcess /\ m_pidMap' = m_pidMap
  <2> DEFINE r == m_pidMap[id]
  <2>1. r \in Processes /\ life[r] # "unborn" /\ pid[r] = id
    BY <1>1, <1>3 DEF TypeOK, Handles
  <2>2. HasHandle(r) /\ HasHandle(p)
    BY <1>1, HandlesHeld
  <2>3. life[p] # "unborn" /\ pid[p] = id
    BY <1>1, <1>2 DEF Handles
  <2>4. Exists(r) /\ Exists(p)
    BY <2>1, <2>2, <2>3 DEF Exists, TypeOK
  <2> HIDE DEF r, id
  <2>5. r = p
    BY <2>1, <2>3, <2>4 DEF Handles
  <2> QED BY <1>3, <2>5 DEF r, id
<1> QED BY <1>1, <1>3

LEMMA EndsAdd ==
  ASSUME TypeOK, NEW line, Adds(line), m_pidMap' = m_pidMap,
         NEW p, NEW id, NEW k \in Nat, Ends(m_pidMap, Pending, p, id, k)
  PROVE  Ends(m_pidMap', Pending', p, id, k)
<1>1. Len(Pending) \in Nat
  BY PendingTyped
<1>2. ASSUME NEW j \in k + 1 .. Len(Pending), Pending[j] = EndLine(p, id)
      PROVE  j \in k + 1 .. Len(Pending') /\ Pending'[j] = EndLine(p, id)
  BY <1>1, <1>2 DEF Adds
<1> QED BY <1>2 DEF Ends

LEMMA EndsTake ==
  ASSUME TypeOK, GetLine, NEW p \in Processes, NEW id \in Pids, NEW k \in Nat,
         Ends(m_pidMap, Pending, p, id, k)
  PROVE  \/ Ends(m_pidMap', Pending', p, id, IF k = 0 THEN 0 ELSE k - 1)
         \/ k = 0 /\ Pending[1] = EndLine(p, id)
<1> DEFINE l == IF k = 0 THEN 0 ELSE k - 1
<1>1. /\ Len(Pending') = Len(Pending) - 1 /\ Len(Pending) \in Nat
      /\ \A i \in 1 .. Len(Pending) - 1 : Pending'[i] = Pending[i + 1]
      /\ \/ m_pidMap[Pending[1].id] = NoProcess
            /\ \A i \in Pids \ {Pending[1].id} : m_pidMap'[i] = m_pidMap[i]
         \/ m_pidMap' = m_pidMap
  BY GetLineStep, PendingTyped
<1>2. CASE m_pidMap[id] = p
  <2>1. m_pidMap'[id] = p
    BY <1>1, <1>2, ProcessAssumption
  <2> QED BY <2>1 DEF Ends
<1>3. ASSUME NEW j \in k + 1 .. Len(Pending), Pending[j] = EndLine(p, id)
      PROVE  \/ Ends(m_pidMap', Pending', p, id, l)
             \/ k = 0 /\ Pending[1] = EndLine(p, id)
  <2>1. CASE j = 1
    BY <1>3, <2>1
  <2>2. CASE j # 1
    <3>1. /\ j - 1 \in l + 1 .. Len(Pending') /\ j - 1 \in 1 .. Len(Pending) - 1
          /\ (j - 1) + 1 = j
      BY <1>1, <2>2
    <3>2. Pending'[j - 1] = EndLine(p, id)
      BY <1>1, <1>3, <3>1
    <3> QED BY <3>1, <3>2 DEF Ends
  <2> QED BY <2>1, <2>2
<1> QED BY <1>2, <1>3 DEF Ends

\* The text that GetLine puts together.
LEMMA EndingText ==
  ASSUME TypeOK, Handles, Ending, GetLine, NEW p \in Processes \ untracked,
         NEW line, line = Pending[1],
         Has(m_lineBuffers[line.id] \o line.text, p)
  PROVE  Ends(m_pidMap', Pending', p, line.id, 0) \/ line = EndLine(p, line.id)
<1> DEFINE held == m_lineBuffers[line.id]
           text == held \o line.text
<1>0. PICK i \in 1 .. Len(text) : text[i].of = p
  BY DEF Has
<1>1. line \in LineSet /\ line.id \in Pids /\ 1 \in 1 .. Len(Pending)
  BY GetLineStep
<1>2. /\ Len(text) = Len(held) + Len(line.text)
      /\ Len(held) \in Nat /\ Len(line.text) \in Nat
      /\ \A j \in 1 .. Len(held) : text[j] = held[j]
      /\ \A j \in 1 .. Len(line.text) : text[Len(held) + j] = line.text[j]
  BY <1>1, ShownOf
<1>t. \A k \in {0, 1} : Ends(m_pidMap, Pending, p, line.id, k) =>
        \/ Ends(m_pidMap', Pending', p, line.id, 0)
        \/ line = EndLine(p, line.id)
  <2> SUFFICES ASSUME NEW k \in {0, 1}, Ends(m_pidMap, Pending, p, line.id, k)
               PROVE  \/ Ends(m_pidMap', Pending', p, line.id, 0)
                      \/ line = EndLine(p, line.id)
    OBVIOUS
  <2>1. k \in Nat /\ (IF k = 0 THEN 0 ELSE k - 1) = 0
    OBVIOUS
  <2>2. \/ Ends(m_pidMap', Pending', p, line.id, IF k = 0 THEN 0 ELSE k - 1)
        \/ k = 0 /\ Pending[1] = EndLine(p, line.id)
    BY <1>1, <2>1, EndsTake
  <2> QED BY <2>1, <2>2
<1>3. CASE i \in 1 .. Len(held)
  <2>1. Has(held, p)
    BY <1>0, <1>2, <1>3 DEF Has
  <2>2. Ends(m_pidMap, Pending, p, line.id, 0)
    BY <1>1, <2>1 DEF Ending
  <2> QED BY <1>t, <2>2
<1>4. CASE i \notin 1 .. Len(held)
  <2> HIDE DEF held
  <2>1. PICK j \in 1 .. Len(line.text) : Len(held) + j = i
    <3>1. i - Len(held) \in 1 .. Len(line.text) /\ Len(held) + (i - Len(held)) = i
      BY <1>2, <1>4
    <3> QED BY <3>1
  <2>2. Has(line.text, p)
    BY <1>0, <1>2, <2>1 DEF Has
  <2>3. \/ line = EndLine(p, line.id) \/ line.handle = p
        \/ Ends(m_pidMap, Pending, p, line.id, 1)
    BY <1>1, <2>2 DEF Ending, LineEnds
  <2>4. CASE line.handle = p
    <3>1. m_pidMap'[line.id] = p
      BY <2>4, HandleIsTracked
    <3> QED BY <3>1 DEF Ends
  <2> QED BY <1>t, <2>3, <2>4
<1> QED BY <1>3, <1>4

LEMMA EndingGetLine ==
  ASSUME TypeOK, Threads, Handles, Lines, Ending, GetLine
  PROVE  Ending'
<1> SUFFICES ASSUME NEW p \in Processes \ untracked
             PROVE  /\ \A id \in Pids : Has(m_lineBuffers'[id], p) =>
                         Ends(m_pidMap', Pending', p, id, 0)
                    /\ \A k \in 1 .. Len(Pending') : LineEnds(m_pidMap', Pending', p, k)
                    /\ lastOut'[p] = "text" => \E id \in Pids :
                         Ends(m_pidMap', Pending', p, id, 0)
  <2>1. untracked' = untracked
    BY GetLineStep
  <2> QED BY <2>1 DEF Ending
<1>1. PICK line \in LineSet :
        /\ line = Pending[1] /\ 1 \in 1 .. Len(Pending) /\ line.id \in Pids
        /\ Len(Pending') = Len(Pending) - 1
        /\ \A i \in 1 .. Len(Pending) - 1 : Pending'[i] = Pending[i + 1]
        /\ Process(line)
  BY GetLineStep
<1> DEFINE held == m_lineBuffers[line.id]
           text == held \o line.text
<1>2. /\ text \in Seq(Piece) /\ Len(text) \in Nat
      /\ Len(text) = Len(held) + Len(line.text)
      /\ Len(held) \in Nat /\ Len(line.text) \in Nat
      /\ \A i \in 1 .. Len(line.text) : text[Len(held) + i] = line.text[i]
      /\ \/ Shown(line) = text /\ Kept(line) = <<>> /\ text # <<>>
         \/ Shown(line) = <<>> /\ Kept(line) = text
      /\ line.loopback => Shown(line) = text
  BY <1>1, ShownOf, LenProperties
<1>3. Has(text, p) => \/ Ends(m_pidMap', Pending', p, line.id, 0)
                      \/ line = EndLine(p, line.id)
  BY <1>1, EndingText
<1>e. Len(<<>>) = 0 /\ ~Has(<<>>, p)
  BY DEF Has
<1>5. Len(Pending) \in Nat
  BY PendingTyped
<1>6. ASSUME NEW id \in Pids, Ends(m_pidMap, Pending, p, id, 0)
      PROVE  Ends(m_pidMap', Pending', p, id, 0) \/ line = EndLine(p, id)
  <2>1. (IF 0 = 0 THEN 0 ELSE 0 - 1) = 0 /\ 0 \in Nat
    OBVIOUS
  <2>2. \/ Ends(m_pidMap', Pending', p, id, IF 0 = 0 THEN 0 ELSE 0 - 1)
        \/ Pending[1] = EndLine(p, id)
    BY <1>6, <2>1, EndsTake
  <2> QED BY <1>1, <2>1, <2>2
<1> HIDE DEF held, text
<1>4. ASSUME line = EndLine(p, line.id)
      PROVE  /\ line.loopback /\ Len(text) >= 1 /\ Len(text) \in 1 .. Len(text)
             /\ text[Len(text)].of = p /\ text[Len(text)].what = "end"
             /\ text # <<>>
  <2>1. line.loopback /\ Len(line.text) = 1 /\ line.text[1] = End(p)
    BY <1>4 DEF EndLine, Line
  <2>2. text[Len(held) + 1] = line.text[1] /\ Len(text) = Len(held) + 1
    BY <1>2, <2>1
  <2>3. Len(text) >= 1 /\ Len(text) \in 1 .. Len(text)
    BY <1>2, <2>2
  <2>4. text # <<>>
    BY <1>e, <2>3
  <2>5. End(p).of = p /\ End(p).what = "end"
    BY DEF End
  <2>6. text[Len(text)] = End(p)
    BY <2>1, <2>2
  <2> QED BY <2>1, <2>3, <2>4, <2>5, <2>6
<1>7. ASSUME NEW id \in Pids, Has(m_lineBuffers'[id], p)
      PROVE  Ends(m_pidMap', Pending', p, id, 0)
  <2>1. m_lineBuffers'[id] = IF id = line.id THEN Kept(line) ELSE m_lineBuffers[id]
    BY <1>1 DEF Process, TypeOK
  <2>2. CASE id = line.id
    <3>1. Kept(line) = text /\ Shown(line) = <<>> /\ Has(text, p)
      BY <1>2, <1>7, <1>e, <2>1, <2>2
    <3>2. line # EndLine(p, line.id)
      BY <1>2, <1>4, <3>1
    <3> QED BY <1>3, <2>2, <3>1, <3>2
  <2>3. CASE id # line.id
    <3>1. Ends(m_pidMap, Pending, p, id, 0)
      BY <1>7, <2>1, <2>3 DEF Ending
    <3>2. line # EndLine(p, id)
      BY <2>3 DEF EndLine, Line
    <3> QED BY <1>6, <3>1, <3>2
  <2> QED BY <2>2, <2>3
<1>8. ASSUME NEW k \in 1 .. Len(Pending') PROVE LineEnds(m_pidMap', Pending', p, k)
  <2>1. Pending'[k] = Pending[k + 1] /\ k + 1 \in 1 .. Len(Pending) /\ k \in Nat
    BY <1>1, <1>5
  <2> DEFINE id == Pending[k + 1].id
  <2>2. id \in Pids
    BY <2>1, PendingTyped DEF LineSet
  <2>3. Has(Pending[k + 1].text, p) =>
          \/ Pending[k + 1] = EndLine(p, id) \/ Pending[k + 1].handle = p
          \/ Ends(m_pidMap, Pending, p, id, k + 1)
    BY <2>1 DEF Ending, LineEnds
  <2>4. CASE Ends(m_pidMap, Pending, p, id, k + 1)
    <3>1. k + 1 \in Nat /\ k + 1 # 0 /\ (IF k + 1 = 0 THEN 0 ELSE k + 1 - 1) = k
      BY <2>1
    <3> HIDE DEF id
    <3>2. Ends(m_pidMap', Pending', p, id, IF k + 1 = 0 THEN 0 ELSE k + 1 - 1)
      BY <2>2, <2>4, <3>1, EndsTake
    <3>3. Ends(m_pidMap', Pending', p, id, k)
      BY <3>1, <3>2
    <3> QED BY <2>1, <3>3 DEF LineEnds, id
  <2> QED BY <2>1, <2>3, <2>4 DEF LineEnds
<1>9. ASSUME lastOut'[p] = "text"
      PROVE  \E id \in Pids : Ends(m_pidMap', Pending', p, id, 0)
  <2> DEFINE shown == Shown(line)
  <2>1. lastOut'[p] = LastOf(p, shown)
    BY <1>1 DEF Process
  <2>2. shown \in Seq(Piece)
    BY <1>1, ShownTyped
  <2> HIDE DEF shown
  <2>3. CASE (\A i \in 1 .. Len(shown) : shown[i].of # p) /\ LastOf(p, shown) = lastOut[p]
    <3>1. PICK id \in Pids : Ends(m_pidMap, Pending, p, id, 0)
      BY <1>9, <2>1, <2>3 DEF Ending
    <3>2. line = EndLine(p, id) => line = EndLine(p, line.id)
      BY DEF EndLine, Line
    <3>3. line # EndLine(p, line.id)
      BY <1>2, <1>4, <2>3 DEF shown
    <3> QED BY <1>6, <3>1, <3>2, <3>3
  <2>4. CASE \E m \in 1 .. Len(shown) :
              /\ shown[m].of = p /\ LastOf(p, shown) = shown[m].what
              /\ \A i \in 1 .. Len(shown) : shown[i].of = p => i <= m
    <3>1. PICK m \in 1 .. Len(shown) :
            /\ shown[m].of = p /\ shown[m].what = "text"
            /\ \A i \in 1 .. Len(shown) : shown[i].of = p => i <= m
      BY <1>9, <2>1, <2>4
    <3>2. shown = text
      BY <1>2, <1>e, <3>1 DEF shown
    <3>3. line # EndLine(p, line.id)
      <4> SUFFICES ASSUME line = EndLine(p, line.id) PROVE FALSE
        OBVIOUS
      <4>1. Len(text) <= m
        BY <1>4, <3>1, <3>2
      <4>2. m = Len(text)
        BY <1>2, <3>1, <3>2, <4>1
      <4> QED BY <1>4, <3>1, <3>2, <4>2
    <3> QED BY <1>1, <1>3, <3>1, <3>2, <3>3 DEF Has
  <2> QED BY <2>2, <2>3, <2>4, LastOfProperties
<1> QED BY <1>7, <1>8, <1>9

\* What a step does that adds a line to what is pending.
LEMMA EndingAdds ==
  ASSUME TypeOK, Ending, NEW line, Adds(line), UNCHANGED <<m_pidMap, lastOut>>,
         untracked \subseteq untracked',
         \A p, id : Has(m_lineBuffers'[id], p) => Has(m_lineBuffers[id], p),
         \A p \in Processes \ untracked' :
           LineEnds(m_pidMap', Pending', p, Len(Pending) + 1)
  PROVE  Ending'
<1>1. Len(Pending) \in Nat /\ Len(Pending') = Len(Pending) + 1
      /\ \A i \in 1 .. Len(Pending) : Pending'[i] = Pending[i]
  BY PendingTyped DEF Adds
<1> SUFFICES ASSUME NEW p \in Processes \ untracked'
             PROVE  /\ \A id \in Pids : Has(m_lineBuffers'[id], p) =>
                         Ends(m_pidMap', Pending', p, id, 0)
                    /\ \A k \in 1 .. Len(Pending') : LineEnds(m_pidMap', Pending', p, k)
                    /\ lastOut'[p] = "text" => \E id \in Pids :
                         Ends(m_pidMap', Pending', p, id, 0)
  BY DEF Ending
<1>2. p \in Processes \ untracked
  OBVIOUS
<1>3. ASSUME NEW id, NEW k \in Nat, Ends(m_pidMap, Pending, p, id, k)
      PROVE  Ends(m_pidMap', Pending', p, id, k)
  BY <1>3, EndsAdd
<1>4. ASSUME NEW id \in Pids, Has(m_lineBuffers'[id], p)
      PROVE  Ends(m_pidMap', Pending', p, id, 0)
  <2>1. Ends(m_pidMap, Pending, p, id, 0)
    BY <1>2, <1>4 DEF Ending
  <2> QED BY <1>3, <2>1
<1>5. ASSUME NEW k \in 1 .. Len(Pending') PROVE LineEnds(m_pidMap', Pending', p, k)
  <2>1. CASE k \in 1 .. Len(Pending)
    <3>1. Pending'[k] = Pending[k] /\ k \in Nat /\ LineEnds(m_pidMap, Pending, p, k)
      BY <1>1, <1>2, <2>1 DEF Ending
    <3> QED BY <1>3, <3>1 DEF LineEnds
  <2>2. CASE k = Len(Pending) + 1
    BY <2>2
  <2> QED BY <1>1, <2>1, <2>2
<1>6. ASSUME lastOut'[p] = "text" PROVE \E id \in Pids : Ends(m_pidMap', Pending', p, id, 0)
  <2>1. PICK id \in Pids : Ends(m_pidMap, Pending, p, id, 0)
    BY <1>2, <1>6 DEF Ending
  <2> QED BY <1>3, <2>1
<1> QED BY <1>4, <1>5, <1>6

LEMMA HasOne ==
  ASSUME NEW e, NEW p
  PROVE  Has(<<e>>, p) <=> e.of = p
<1>1. Len(<<e>>) = 1 /\ <<e>>[1] = e
  OBVIOUS
<1> QED BY <1>1 DEF Has

LEMMA EndingFlush ==
  ASSUME TypeOK, Threads, Lines, Ending, Flush
  PROVE  Ending'
<1> DEFINE id == current.id
           text == m_lineBuffers[id]
           line == Line(NoProcess, id, text, FALSE, TRUE)
<1>1. /\ current \in Entry /\ id \in Pids
      /\ \/ Pending' = Pending /\ text = <<>>
         \/ text # <<>> /\ Adds(line)
  BY ExecutorPending DEF Entry
<1>2. /\ UNCHANGED <<m_pidMap, lastOut, untracked>>
      /\ m_lineBuffers' = [m_lineBuffers EXCEPT ![id] = <<>>]
      /\ epc = "flush" /\ lines = <<>>
  BY DEF Flush, history
<1>3. ~ \E p : Has(<<>>, p)
  BY DEF Has
<1>4. \A p, i : Has(m_lineBuffers'[i], p) => Has(m_lineBuffers[i], p)
  BY <1>1, <1>2, <1>3 DEF TypeOK
<1>5. CASE Pending' = Pending
  BY <1>2, <1>4, <1>5 DEF Ending
<1>6. CASE Adds(line)
  <2>1. ASSUME NEW p \in Processes \ untracked'
        PROVE  LineEnds(m_pidMap', Pending', p, Len(Pending) + 1)
    <3> SUFFICES ASSUME Has(text, p)
                 PROVE  Ends(m_pidMap', Pending', p, id, Len(Pending) + 1)
      <4>1. Pending'[Len(Pending) + 1].text = text /\ Pending'[Len(Pending) + 1].id = id
        BY <1>6 DEF Adds, Line
      <4> QED BY <4>1 DEF LineEnds
    <3>1. Ends(m_pidMap, Pending, p, id, 0)
      BY <1>1, <1>2 DEF Ending
    <3>2. ASSUME NEW j \in 1 .. Len(Pending) PROVE Pending[j] # EndLine(p, id)
      <4>1. Len(lines) = 0
        BY <1>2
      <4>2. j \in 1 .. Len(m_linebuffer) /\ Pending[j] = m_linebuffer[j]
        BY <4>1, PendingTyped
      <4>3. ~Pending[j].loopback
        BY <1>2, <4>2 DEF Lines
      <4> QED BY <4>3 DEF EndLine, Line
    <3>3. m_pidMap[id] = p
      <4>1. (0 + 1) .. Len(Pending) = 1 .. Len(Pending)
        OBVIOUS
      <4> QED BY <3>1, <3>2, <4>1 DEF Ends
    <3> QED BY <1>2, <3>3 DEF Ends
  <2> HIDE DEF line
  <2> QED BY <1>2, <1>4, <1>6, <2>1, EndingAdds
<1> QED BY <1>1, <1>5, <1>6

LEMMA EndingErasePid ==
  ASSUME TypeOK, Threads, Tracked, Lines, Ending, ErasePid
  PROVE  Ending'
<1>1. /\ epc = "erase" /\ m_pidMap' = [m_pidMap EXCEPT ![current.id] = NoProcess]
      /\ UNCHANGED <<lines, m_linebuffer, m_lineBuffers, lastOut, untracked>>
      /\ Pending' = Pending
  BY DEF ErasePid, filter, history, Pending
<1>2. current \in Entry /\ current.id \in Pids /\ current.process \in Processes
  BY CurrentTyped DEF ErasePid, Entry
<1>3. m_pidMap[current.id] = current.process /\ lines = <<>>
  BY <1>1, <1>2, Typed DEF Tracked, Threads
<1>4. \A i \in 1 .. Len(m_linebuffer) : Pending[i] = m_linebuffer[i]
      /\ Len(Pending) = Len(m_linebuffer) /\ Len(Pending) \in Nat
  <2>1. Len(lines) = 0
    BY <1>3
  <2> QED BY <2>1, PendingTyped
<1>5. PICK j \in 1 .. Len(Pending) :
        /\ Pending[j] = EndLine(current.process, current.id)
        /\ \A i \in j + 1 .. Len(Pending) : ~Pending[i].loopback
  <2>1. PICK j \in 1 .. Len(m_linebuffer) :
        /\ m_linebuffer[j] = EndLine(current.process, current.id)
        /\ \A i \in j + 1 .. Len(m_linebuffer) : ~m_linebuffer[i].loopback
    BY <1>1 DEF Lines
  <2>2. \A i \in j + 1 .. Len(Pending) : Pending[i] = m_linebuffer[i]
    BY <1>4
  <2> QED BY <1>4, <2>1, <2>2
<1> SUFFICES ASSUME NEW p \in Processes \ untracked
             PROVE  /\ \A id \in Pids : Has(m_lineBuffers[id], p) =>
                         Ends(m_pidMap', Pending, p, id, 0)
                    /\ \A k \in 1 .. Len(Pending) : LineEnds(m_pidMap', Pending, p, k)
                    /\ lastOut[p] = "text" => \E id \in Pids :
                         Ends(m_pidMap', Pending, p, id, 0)
  BY <1>1 DEF Ending
<1>6. ASSUME NEW id \in Pids, NEW k \in 0 .. j - 1, Ends(m_pidMap, Pending, p, id, k)
      PROVE  Ends(m_pidMap', Pending, p, id, k)
  <2>1. CASE id = current.id /\ p = current.process
    <3>1. j \in k + 1 .. Len(Pending)
      BY <1>4
    <3> QED BY <1>5, <2>1, <3>1 DEF Ends
  <2>2. CASE id # current.id \/ p # current.process
    <3>1. m_pidMap[id] = p => m_pidMap'[id] = p
      BY <1>1, <1>2, <1>3, <2>2 DEF TypeOK
    <3> QED BY <1>6, <3>1 DEF Ends
  <2> QED BY <2>1, <2>2
<1>7. 0 \in 0 .. j - 1
  BY <1>4
<1>8. ASSUME NEW k \in 1 .. Len(Pending) PROVE LineEnds(m_pidMap', Pending, p, k)
  <2>0. LineEnds(m_pidMap, Pending, p, k)
    BY DEF Ending
  <2> DEFINE id == Pending[k].id
  <2>t. id \in Pids
    BY PendingTyped DEF LineSet
  <2>1. CASE k < j
    <3>1. k \in 0 .. j - 1
      BY <2>1
    <3> HIDE DEF id
    <3>2. Ends(m_pidMap, Pending, p, id, k) => Ends(m_pidMap', Pending, p, id, k)
      BY <1>6, <2>t, <3>1
    <3> QED BY <2>0, <3>2 DEF LineEnds, id
  <2>2. CASE k = j
    <3>1. Pending[k] = EndLine(current.process, current.id) /\ id = current.id
          /\ Pending[k].text = <<End(current.process)>>
      BY <1>5, <2>2 DEF EndLine, Line
    <3>2. Has(Pending[k].text, p) => p = current.process
      <4>1. Has(<<End(current.process)>>, p) <=> End(current.process).of = p
        BY HasOne
      <4> QED BY <3>1, <4>1 DEF End
    <3> QED BY <3>1, <3>2 DEF LineEnds
  <2>3. CASE k > j
    <3>1. k \in j + 1 .. Len(Pending)
      BY <2>3
    <3>2. PICK w \in Processes :
            Pending[k].text = <<Text(w)>> /\ w \in {Pending[k].handle} \cup untracked
      BY <1>5, <3>1 DEF Lines
    <3>3. Has(Pending[k].text, p) => w = p
      <4>1. Has(<<Text(w)>>, p) <=> Text(w).of = p
        BY HasOne
      <4> QED BY <3>2, <4>1 DEF Text
    <3> QED BY <3>2, <3>3 DEF LineEnds
  <2> QED BY <2>1, <2>2, <2>3
<1>9. \A id \in Pids : Ends(m_pidMap, Pending, p, id, 0) => Ends(m_pidMap', Pending, p, id, 0)
  BY <1>6, <1>7
<1> QED BY <1>8, <1>9 DEF Ending

LEMMA EndingStep ==
  TypeOK /\ Threads /\ Handles /\ Tracked /\ Lines /\ Ending /\ [Next]_vars => Ending'
<1> SUFFICES ASSUME TypeOK, Threads, Handles, Tracked, Lines, Ending, [Next]_vars
             PROVE  Ending'
  OBVIOUS
<1>1. CASE UNCHANGED <<Pending, m_pidMap, m_lineBuffers, lastOut, untracked>>
  BY <1>1 DEF Ending
<1>2. CASE Notify
  <2>1. PICK h \in Processes \cup {NoProcess} :
          /\ Adds(Line(h, slot.id, <<Text(slot.writer)>>, slot.newline, FALSE))
          /\ untracked' = IF h # slot.writer
                          THEN untracked \cup {slot.writer} ELSE untracked
    BY <1>2, NotifyStep
  <2> DEFINE line == Line(h, slot.id, <<Text(slot.writer)>>, slot.newline, FALSE)
  <2>2. UNCHANGED <<m_pidMap, lastOut, m_lineBuffers>>
    BY <1>2 DEF Notify, filter
  <2>3. line.text = <<Text(slot.writer)>> /\ line.handle = h
    BY DEF Line
  <2> HIDE DEF line
  <2>4. Adds(line) /\ untracked \subseteq untracked'
    BY <2>1 DEF line
  <2>5. ASSUME NEW p \in Processes \ untracked'
        PROVE  LineEnds(m_pidMap', Pending', p, Len(Pending) + 1)
    <3>1. Pending'[Len(Pending) + 1] = line
      BY <2>4 DEF Adds
    <3>2. Has(line.text, p) => slot.writer = p
      <4>1. Has(<<Text(slot.writer)>>, p) <=> Text(slot.writer).of = p
        BY HasOne
      <4> QED BY <2>3, <4>1 DEF Text
    <3>3. slot.writer = p => line.handle = p
      BY <2>1, <2>3
    <3> QED BY <3>1, <3>2, <3>3 DEF LineEnds
  <2> QED BY <2>2, <2>4, <2>5, EndingAdds
<1>3. CASE AddTerminateMessage
  <2> DEFINE line == EndLine(current.process, current.id)
  <2>1. Adds(line)
    BY <1>3, ExecutorPending
  <2>2. UNCHANGED <<m_pidMap, lastOut, m_lineBuffers, untracked>>
    BY <1>3 DEF AddTerminateMessage, filter, history
  <2>3. line.text = <<End(current.process)>> /\ line.id = current.id
    BY DEF EndLine, Line
  <2>4. ASSUME NEW p \in Processes \ untracked'
        PROVE  LineEnds(m_pidMap', Pending', p, Len(Pending) + 1)
    <3>1. Pending'[Len(Pending) + 1] = line
      BY <2>1 DEF Adds
    <3>2. Has(line.text, p) => current.process = p
      <4>1. Has(<<End(current.process)>>, p) <=> End(current.process).of = p
        BY HasOne
      <4> QED BY <2>3, <4>1 DEF End
    <3>3. current.process = p => line = EndLine(p, line.id)
      BY <2>3
    <3> HIDE DEF line
    <3> QED BY <3>1, <3>2, <3>3 DEF LineEnds
  <2> HIDE DEF line
  <2> QED BY <2>1, <2>2, <2>4, EndingAdds
<1>4. CASE Update \/ BeginEnded
  <2>1. Pending' = Pending
    BY <1>4, ExecutorPending
  <2>2. UNCHANGED <<m_pidMap, m_lineBuffers, lastOut, untracked>>
    BY <1>4 DEF Update, BeginEnded, filter, history
  <2> QED BY <1>1, <2>1, <2>2
<1>5. CASE Others
  BY <1>1, <1>5, OthersPending
<1> QED BY <1>2, <1>3, <1>4, <1>5, EndingGetLine, EndingFlush, EndingErasePid
        DEF Next, Executor, Others

------------------------------------------------------------------------------
(* The text of two processes *)

LEMMA ApartAdds ==
  ASSUME TypeOK, Apart, late = {}, untracked' = {}, UNCHANGED mixed,
         NEW line, Adds(line), OneOwner(line.text),
         \A id \in Pids : m_lineBuffers'[id] \in {m_lineBuffers[id], <<>>},
         HeldApart(m_lineBuffers', Pending', Len(Pending) + 1),
         \A k \in 1 .. Len(Pending) : LinesApart(Pending', k, Len(Pending) + 1)
  PROVE  Apart'
<1>1. /\ Len(Pending) \in Nat /\ Len(Pending') = Len(Pending) + 1
      /\ \A i \in 1 .. Len(Pending) : Pending'[i] = Pending[i]
      /\ Pending'[Len(Pending) + 1] = line
  BY PendingTyped DEF Adds
<1>2. OneOwner(<<>>)
  BY DEF OneOwner
<1>3. \A id \in Pids : OneOwner(m_lineBuffers'[id])
  BY <1>2 DEF Apart
<1>4. ASSUME NEW k \in 1 .. Len(Pending') PROVE OneOwner(Pending'[k].text)
  <2>1. k = Len(Pending) + 1 \/ k \in 1 .. Len(Pending)
    BY <1>1
  <2> QED BY <1>1, <2>1 DEF Apart
<1>5. ASSUME NEW l \in 1 .. Len(Pending')
      PROVE  /\ HeldApart(m_lineBuffers', Pending', l)
             /\ \A k \in 1 .. l - 1 : LinesApart(Pending', k, l)
  <2>1. CASE l = Len(Pending) + 1
    <3>1. l - 1 = Len(Pending)
      BY <1>1, <2>1
    <3> QED BY <2>1, <3>1
  <2>2. CASE l \in 1 .. Len(Pending)
    <3>1. \A j \in 1 .. l : Pending'[j] = Pending[j]
      BY <1>1, <2>2
    <3>2. l \in 1 .. l /\ 1 .. l - 1 \subseteq 1 .. l
      BY <1>1, <2>2
    <3>3. Pending[l].id \in Pids
      BY <2>2, PendingTyped DEF LineSet
    <3>4. HeldApart(m_lineBuffers', Pending', l)
      <4>1. HeldApart(m_lineBuffers, Pending, l)
        BY <2>2 DEF Apart
      <4> QED BY <3>1, <3>2, <3>3, <4>1 DEF HeldApart
    <3>5. ASSUME NEW k \in 1 .. l - 1 PROVE LinesApart(Pending', k, l)
      <4>1. LinesApart(Pending, k, l)
        BY <2>2 DEF Apart
      <4>2. k .. l - 1 \subseteq 1 .. l /\ k \in 1 .. l
        BY <1>1, <2>2
      <4> QED BY <3>1, <3>2, <4>1, <4>2 DEF LinesApart
    <3> QED BY <3>4, <3>5
  <2> QED BY <1>1, <2>1, <2>2
<1> QED BY <1>3, <1>4, <1>5 DEF Apart

\* A process with a handle and the pid of one that exists is that one.
LEMMA OneHolder ==
  ASSUME TypeOK, Handles, NEW r \in Processes, NEW id \in Pids,
         Exists(r), pid[r] = id, NEW h \in Processes,
         \/ m_pidMap[id] = h
         \/ \E i \in 1 .. Len(Pending) : Pending[i].id = id /\ Pending[i].handle = h
  PROVE  h = r
<1>1. h # NoProcess
  BY ProcessAssumption
<1>2. life[h] # "unborn" /\ pid[h] = id
  BY <1>1 DEF Handles
<1>3. HasHandle(h)
  BY HandlesHeld
<1>4. Exists(h)
  BY <1>2, <1>3 DEF Exists, TypeOK
<1> QED BY <1>2, <1>4 DEF Handles

LEMMA NewLineApart ==
  ASSUME TypeOK, Handles, Lines, Ending, untracked = {},
         NEW r \in Processes, NEW id \in Pids, Exists(r), pid[r] = id,
         NEW line, Adds(line), line.id = id, line.text[1].of = r
  PROVE  /\ HeldApart(m_lineBuffers, Pending', Len(Pending) + 1)
         /\ \A k \in 1 .. Len(Pending) : LinesApart(Pending', k, Len(Pending) + 1)
<1>1. /\ Len(Pending) \in Nat /\ Len(Pending') = Len(Pending) + 1
      /\ \A i \in 1 .. Len(Pending) : Pending'[i] = Pending[i]
      /\ Pending'[Len(Pending) + 1] = line
      /\ (Len(Pending) + 1) - 1 = Len(Pending)
  BY PendingTyped DEF Adds
<1>2. HeldApart(m_lineBuffers, Pending', Len(Pending) + 1)
  <2> DEFINE held == m_lineBuffers[id]
  <2> SUFFICES ASSUME held # <<>>
               PROVE  \/ held[1].of = r
                      \/ \E j \in 1 .. Len(Pending) :
                           Pending'[j].id = id /\ Pending'[j].loopback
    BY <1>1 DEF HeldApart
  <2>1. held \in Seq(Piece)
    BY DEF TypeOK
  <2> HIDE DEF held
  <2>2. Len(held) \in Nat /\ Len(held) # 0
    BY <2>1, EmptySeq, LenProperties
  <2>3. 1 \in 1 .. Len(held)
    BY <2>2
  <2>4. held[1] \in Piece
    BY <2>1, <2>3, ElementOfSeq
  <2> DEFINE q == held[1].of
  <2>5. q \in Processes /\ Has(held, q)
    BY <2>3, <2>4 DEF Has, Piece
  <2>6. Ends(m_pidMap, Pending, q, id, 0)
    BY <2>5 DEF Ending, held
  <2>7. CASE m_pidMap[id] = q
    BY <2>5, <2>7, OneHolder
  <2>8. ASSUME NEW j \in 0 + 1 .. Len(Pending), Pending[j] = EndLine(q, id)
        PROVE  j \in 1 .. Len(Pending) /\ Pending'[j].id = id /\ Pending'[j].loopback
    <3>1. j \in 1 .. Len(Pending) /\ Pending'[j] = EndLine(q, id)
      BY <1>1, <2>8
    <3> QED BY <3>1 DEF EndLine, Line
  <2> QED BY <2>6, <2>7, <2>8 DEF Ends
<1>3. ASSUME NEW k \in 1 .. Len(Pending) PROVE LinesApart(Pending', k, Len(Pending) + 1)
  <2> SUFFICES ASSUME Pending[k].id = id, ~Pending[k].loopback
               PROVE  Pending[k].text[1].of = r
    <3>1. k \in k .. Len(Pending)
      BY <1>1
    <3> QED BY <1>1, <3>1 DEF LinesApart
  <2>1. PICK w \in Processes :
          Pending[k].text = <<Text(w)>> /\ w \in {Pending[k].handle} \cup untracked
    BY DEF Lines
  <2>2. Pending[k].text[1] = Text(w) /\ Text(w).of = w /\ w = Pending[k].handle
    BY <2>1 DEF Text
  <2>3. w = r
    BY <2>2, OneHolder
  <2> QED BY <2>2, <2>3
<1> QED BY <1>2, <1>3

LEMMA ApartNotify ==
  ASSUME TypeOK, Handles, Lines, Ending, Apart, Notify, late' = {}
  PROVE  Apart'
<1>1. PICK h \in Processes \cup {NoProcess} :
           /\ slot.writer \in Processes /\ slot.id \in Pids
           /\ Adds(Line(h, slot.id, <<Text(slot.writer)>>, slot.newline, FALSE))
           /\ h # NoProcess => Exists(h) /\ pid[h] = slot.id
           /\ \A p \in Processes : Exists(p) /\ pid[p] = slot.id => h # NoProcess
           /\ late' = IF life[slot.writer] = "ended"
                      THEN late \cup {slot.writer} ELSE late
           /\ untracked' = IF h # slot.writer
                           THEN untracked \cup {slot.writer} ELSE untracked
  BY NotifyStep
<1> DEFINE w == slot.writer
           id == slot.id
           line == Line(h, id, <<Text(w)>>, slot.newline, FALSE)
<1>2. slot # NoText /\ UNCHANGED <<mixed, m_lineBuffers>>
  BY DEF Notify, filter
<1>3. life[w] # "unborn" /\ pid[w] = id
  BY <1>2 DEF Handles
<1>4. life[w] # "ended" /\ late = {}
  BY <1>1
<1>5. Exists(w)
  BY <1>1, <1>3, <1>4 DEF Exists, TypeOK
<1>6. h \in Processes /\ Exists(h) /\ pid[h] = id
  BY <1>1, <1>3, <1>5
<1>7. h = w
  BY <1>1, <1>3, <1>5, <1>6 DEF Handles
<1>8. untracked = {} /\ untracked' = {}
  BY <1>1, <1>4, <1>7 DEF Apart
<1>9. line.id = id /\ line.text = <<Text(w)>> /\ Len(<<Text(w)>>) = 1
      /\ <<Text(w)>>[1] = Text(w) /\ Text(w).of = w
  BY DEF Line, Text
<1>10. OneOwner(line.text)
  <2> HIDE DEF line
  <2> QED BY <1>9 DEF OneOwner
<1>11. w \in Processes /\ id \in Pids /\ Adds(line)
  BY <1>1
<1>12. line.text[1].of = w
  BY <1>9
<1> HIDE DEF line, w, id
<1>13. /\ HeldApart(m_lineBuffers, Pending', Len(Pending) + 1)
       /\ \A k \in 1 .. Len(Pending) : LinesApart(Pending', k, Len(Pending) + 1)
  BY <1>3, <1>5, <1>8, <1>9, <1>11, <1>12, NewLineApart
<1> QED BY <1>2, <1>4, <1>8, <1>10, <1>11, <1>13, ApartAdds

LEMMA ApartLoopback ==
  ASSUME TypeOK, Threads, Handles, Tracked, Lines, Ending, Apart, late = {},
         Flush \/ AddTerminateMessage
  PROVE  Apart'
<1> DEFINE id == current.id
           r == current.process
           held == m_lineBuffers[id]
<1>1. current \in Entry /\ id \in Pids /\ r \in Processes
  BY ExecutorPending DEF Entry
<1>2. connected /\ m_pidMap[id] = r
  <2>1. epc \in {"flush", "terminate"}
    BY DEF Flush, AddTerminateMessage
  <2>2. connected
    BY <2>1 DEF Threads, TypeOK
  <2> QED BY <1>1, <2>2, Typed DEF Tracked
<1>3. pid[r] = id /\ Exists(r)
  <2>1. r # NoProcess
    BY <1>1, ProcessAssumption
  <2>2. life[r] # "unborn" /\ pid[r] = id
    BY <1>1, <1>2, <2>1 DEF Handles
  <2>3. HasHandle(r)
    BY <1>1, <1>2, HandlesHeld
  <2> QED BY <1>1, <2>2, <2>3 DEF Exists, TypeOK
<1>4. untracked = {} /\ untracked' = {} /\ UNCHANGED <<mixed, late>>
  BY DEF Flush, AddTerminateMessage, history, Apart
<1>5. CASE AddTerminateMessage
  <2> DEFINE line == EndLine(r, id)
  <2>1. Adds(line) /\ UNCHANGED m_lineBuffers
    BY <1>5, ExecutorPending DEF AddTerminateMessage, filter
  <2>2. line.id = id /\ line.text = <<End(r)>> /\ Len(<<End(r)>>) = 1
        /\ <<End(r)>>[1] = End(r) /\ End(r).of = r
    BY DEF EndLine, Line, End
  <2> HIDE DEF line
  <2>3. OneOwner(line.text) /\ line.text[1].of = r
    BY <2>2 DEF OneOwner
  <2> HIDE DEF id, r
  <2>4. /\ HeldApart(m_lineBuffers, Pending', Len(Pending) + 1)
        /\ \A k \in 1 .. Len(Pending) : LinesApart(Pending', k, Len(Pending) + 1)
    BY <1>1, <1>3, <1>4, <2>1, <2>2, <2>3, NewLineApart
  <2> QED BY <1>4, <2>1, <2>3, <2>4, ApartAdds
<1>6. CASE Flush
  <2> DEFINE line == Line(NoProcess, id, held, FALSE, TRUE)
  <2>1. \/ Pending' = Pending /\ held = <<>>
        \/ held # <<>> /\ Adds(line)
    BY <1>6, ExecutorPending
  <2>2. m_lineBuffers' = [m_lineBuffers EXCEPT ![id] = <<>>] /\ lines = <<>> /\ epc = "flush"
    BY <1>6 DEF Flush
  <2>3. CASE held = <<>> /\ Pending' = Pending
    <3>1. m_lineBuffers' = m_lineBuffers
      BY <1>1, <2>2, <2>3 DEF TypeOK
    <3> QED BY <1>4, <2>3, <3>1 DEF Apart
  <2>4. CASE held # <<>> /\ Adds(line)
    <3>1. line.id = id /\ line.text = held
      BY DEF Line
    <3>2. held \in Seq(Piece) /\ OneOwner(held)
      BY <1>1 DEF TypeOK, Apart
    <3>3. \A i \in Pids : m_lineBuffers'[i] \in {m_lineBuffers[i], <<>>}
      BY <1>1, <2>2 DEF TypeOK
    <3>4. m_lineBuffers'[id] = <<>>
      BY <1>1, <2>2 DEF TypeOK
    <3> HIDE DEF held, line
    <3>5. held[1].of = r
      <4>1. Len(held) \in Nat /\ Len(held) # 0
        BY <2>4, <3>2, EmptySeq, LenProperties
      <4>2. 1 \in 1 .. Len(held)
        BY <4>1
      <4>3. held[1] \in Piece
        BY <3>2, <4>2, ElementOfSeq
      <4> DEFINE q == held[1].of
      <4>4. q \in Processes /\ Has(held, q)
        BY <4>2, <4>3 DEF Has, Piece
      <4>5. Ends(m_pidMap, Pending, q, id, 0)
        BY <1>1, <1>4, <4>4 DEF Ending, held
      <4>6. ASSUME NEW j \in 0 + 1 .. Len(Pending) PROVE Pending[j] # EndLine(q, id)
        <5>1. Len(lines) = 0
          BY <2>2
        <5>2. j \in 1 .. Len(m_linebuffer) /\ Pending[j] = m_linebuffer[j]
          BY <5>1, PendingTyped
        <5>3. ~Pending[j].loopback
          BY <2>2, <5>2 DEF Lines
        <5> QED BY <5>3 DEF EndLine, Line
      <4> QED BY <1>2, <4>5, <4>6 DEF Ends
    <3> HIDE DEF id, r
    <3>6. \A k \in 1 .. Len(Pending) : LinesApart(Pending', k, Len(Pending) + 1)
      BY <1>1, <1>3, <1>4, <2>4, <3>1, <3>5, NewLineApart
    <3>7. HeldApart(m_lineBuffers', Pending', Len(Pending) + 1)
      <4>1. Pending'[Len(Pending) + 1].id = id
        BY <2>4, <3>1 DEF Adds
      <4> QED BY <3>4, <4>1 DEF HeldApart
    <3>8. OneOwner(line.text)
      BY <3>1, <3>2
    <3> QED BY <1>4, <2>4, <3>3, <3>6, <3>7, <3>8, ApartAdds
  <2> QED BY <2>1, <2>3, <2>4
<1> QED BY <1>5, <1>6

LEMMA ApartGetLine ==
  ASSUME TypeOK, Threads, Lines, Apart, late = {}, GetLine
  PROVE  Apart'
<1>1. PICK line \in LineSet :
        /\ line = Pending[1] /\ 1 \in 1 .. Len(Pending) /\ line.id \in Pids
        /\ Len(Pending') = Len(Pending) - 1
        /\ \A i \in 1 .. Len(Pending) - 1 : Pending'[i] = Pending[i + 1]
        /\ Process(line)
        /\ UNCHANGED <<late, untracked>>
  BY GetLineStep
<1> DEFINE id == line.id
           held == m_lineBuffers[id]
           text == held \o line.text
<1>2. /\ text \in Seq(Piece) /\ Len(text) \in Nat
      /\ Len(text) = Len(held) + Len(line.text)
      /\ held \in Seq(Piece) /\ line.text \in Seq(Piece)
      /\ Len(held) \in Nat /\ Len(line.text) \in Nat
      /\ \A i \in 1 .. Len(held) : text[i] = held[i]
      /\ \A i \in 1 .. Len(line.text) : text[Len(held) + i] = line.text[i]
      /\ \/ Shown(line) = text /\ Kept(line) = <<>> /\ text # <<>>
         \/ Shown(line) = <<>> /\ Kept(line) = text
      /\ line.loopback => Shown(line) = text
  BY <1>1, ShownOf, LenProperties
<1>3. /\ untracked = {} /\ ~mixed /\ OneOwner(held) /\ OneOwner(line.text)
      /\ HeldApart(m_lineBuffers, Pending, 1)
  BY <1>1 DEF Apart
<1>4. line.text # <<>> /\ Len(Pending) \in Nat
  BY <1>1, PendingTyped DEF Lines
<1>5. held # <<>> => held[1].of = line.text[1].of
  BY <1>1, <1>3 DEF HeldApart
<1>6. m_lineBuffers' = [m_lineBuffers EXCEPT ![id] = Kept(line)]
      /\ mixed' = (mixed \/ \E i, j \in DOMAIN Shown(line) :
                              Shown(line)[i].of # Shown(line)[j].of)
  BY <1>1 DEF Process
<1>f. /\ m_lineBuffers'[id] = Kept(line)
      /\ \A i \in Pids \ {id} : m_lineBuffers'[i] = m_lineBuffers[i]
  BY <1>1, <1>6 DEF TypeOK
<1> HIDE DEF text, held
<1>7. Len(line.text) # 0 /\ (Len(held) # 0 => held # <<>>)
  BY <1>2, <1>4, EmptySeq
<1>8. \A i \in 1 .. Len(text) : text[i].of = line.text[1].of
  <2> TAKE i \in 1 .. Len(text)
  <2>1. CASE i \in 1 .. Len(held)
    <3>1. held # <<>> /\ 1 \in 1 .. Len(held)
      BY <1>2, <1>7, <2>1
    <3>2. held[i].of = held[1].of
      BY <1>3, <2>1, <3>1 DEF OneOwner
    <3> QED BY <1>2, <1>5, <2>1, <3>1, <3>2
  <2>2. CASE i \notin 1 .. Len(held)
    <3>1. i - Len(held) \in 1 .. Len(line.text) /\ Len(held) + (i - Len(held)) = i
      BY <1>2, <2>2
    <3>2. text[i] = line.text[i - Len(held)] /\ 1 \in 1 .. Len(line.text)
      BY <1>2, <1>7, <3>1
    <3>3. line.text[i - Len(held)].of = line.text[1].of
      BY <1>3, <3>1, <3>2 DEF OneOwner
    <3> QED BY <3>2, <3>3
  <2> QED BY <2>1, <2>2
<1>9. OneOwner(text) /\ 1 \in 1 .. Len(text) /\ text # <<>>
  <2>1. 1 \in 1 .. Len(text)
    BY <1>2, <1>7
  <2>2. text # <<>>
    BY <1>2, <2>1, EmptySeq
  <2> QED BY <1>8, <2>1, <2>2 DEF OneOwner
<1>10. OneOwner(<<>>) /\ DOMAIN <<>> = {}
  BY DEF OneOwner
<1>11. ~mixed'
  <2>1. DOMAIN text = 1 .. Len(text)
    BY <1>2, LenProperties
  <2>2. Shown(line) = text \/ Shown(line) = <<>>
    BY <1>2
  <2>3. \A i, j \in DOMAIN Shown(line) : Shown(line)[i].of = Shown(line)[j].of
    <3>1. CASE Shown(line) = text
      BY <1>9, <2>1, <3>1 DEF OneOwner
    <3>2. CASE Shown(line) = <<>>
      BY <1>10, <3>2
    <3> QED BY <2>2, <3>1, <3>2
  <2>4. ~ \E i, j \in DOMAIN Shown(line) : Shown(line)[i].of # Shown(line)[j].of
    BY <2>3
  <2> QED BY <1>3, <1>6, <2>4
<1>12. \A i \in Pids : OneOwner(m_lineBuffers'[i])
  BY <1>2, <1>9, <1>10, <1>f DEF Apart
<1>s. ASSUME NEW l \in 1 .. Len(Pending')
      PROVE  /\ l + 1 \in 1 .. Len(Pending) /\ Pending'[l] = Pending[l + 1]
             /\ Pending[l + 1].id \in Pids /\ 1 \in 1 .. (l + 1) - 1
             /\ (l + 1) - 1 = l /\ l \in Nat
  <2>1. l + 1 \in 1 .. Len(Pending) /\ Pending'[l] = Pending[l + 1]
    BY <1>1, <1>4
  <2> QED BY <2>1, PendingTyped DEF LineSet
<1>13. \A l \in 1 .. Len(Pending') : OneOwner(Pending'[l].text)
  BY <1>s DEF Apart
\* A loopback line from the second on up to l + 1 is still before l.
<1>14. ASSUME NEW l \in 1 .. Len(Pending'), NEW k \in 1 .. l, NEW j \in k .. l, j # 1
       PROVE  j - 1 \in 1 .. l - 1 /\ Pending'[j - 1] = Pending[j]
  <2>1. j - 1 \in 1 .. l - 1 /\ j - 1 \in 1 .. Len(Pending) - 1 /\ (j - 1) + 1 = j
    BY <1>1, <1>4, <1>14
  <2> QED BY <1>1, <2>1
<1>15. ASSUME NEW l \in 1 .. Len(Pending') PROVE HeldApart(m_lineBuffers', Pending', l)
  <2> DEFINE pid2 == Pending'[l].id
  <2>0. pid2 \in Pids /\ pid2 = Pending[l + 1].id
    BY <1>s
  <2>1. CASE pid2 # id
    <3>1. HeldApart(m_lineBuffers, Pending, l + 1)
      BY <1>s DEF Apart
    <3>2. ASSUME NEW j \in 1 .. l, Pending[j].id = pid2, Pending[j].loopback
          PROVE  \E i \in 1 .. l - 1 : Pending'[i].id = pid2 /\ Pending'[i].loopback
      <4>1. j # 1
        BY <1>1, <2>1, <3>2
      <4>2. 1 \in 1 .. l
        BY <1>s
      <4>3. j - 1 \in 1 .. l - 1 /\ Pending'[j - 1] = Pending[j]
        BY <1>14, <4>1, <4>2
      <4> QED BY <3>2, <4>3
    <3>3. m_lineBuffers'[pid2] = m_lineBuffers[pid2]
      BY <1>f, <2>0, <2>1
    <3>4. Pending'[l] = Pending[l + 1] /\ (l + 1) - 1 = l
      BY <1>s
    <3> QED BY <2>0, <3>1, <3>2, <3>3, <3>4 DEF HeldApart
  <2>2. CASE pid2 = id
    <3> SUFFICES ASSUME m_lineBuffers'[id] # <<>>
                 PROVE  \/ m_lineBuffers'[id][1].of = Pending'[l].text[1].of
                        \/ \E i \in 1 .. l - 1 :
                             Pending'[i].id = pid2 /\ Pending'[i].loopback
      BY <2>2 DEF HeldApart
    <3>1. m_lineBuffers'[id] = text /\ Shown(line) = <<>>
      BY <1>2, <1>f
    <3>2. ~line.loopback
      BY <1>2, <1>9, <3>1
    <3>3. LinesApart(Pending, 1, l + 1)
      BY <1>s DEF Apart
    <3>4. CASE Pending[1].text[1].of = Pending[l + 1].text[1].of
      BY <1>1, <1>8, <1>9, <1>s, <3>1, <3>4
    <3>5. ASSUME NEW j \in 1 .. l, Pending[j].id = pid2, Pending[j].loopback
          PROVE  \E i \in 1 .. l - 1 : Pending'[i].id = pid2 /\ Pending'[i].loopback
      <4>1. j # 1
        BY <1>1, <3>2, <3>5
      <4>2. 1 \in 1 .. l
        BY <1>s
      <4>3. j - 1 \in 1 .. l - 1 /\ Pending'[j - 1] = Pending[j]
        BY <1>14, <4>1, <4>2
      <4> QED BY <3>5, <4>3
    <3>6. Pending[1].id = Pending[l + 1].id /\ (l + 1) - 1 = l
      BY <1>1, <1>s, <2>0, <2>2
    <3> QED BY <2>0, <3>3, <3>4, <3>5, <3>6 DEF LinesApart
  <2> QED BY <2>1, <2>2
<1>16. ASSUME NEW l \in 1 .. Len(Pending'), NEW k \in 1 .. l - 1
       PROVE  LinesApart(Pending', k, l)
  <2>1. /\ k + 1 \in 1 .. (l + 1) - 1 /\ k \in 1 .. Len(Pending') /\ k + 1 \in 1 .. l
        /\ k \in Nat /\ k + 1 # 1
    BY <1>s
  <2>2. LinesApart(Pending, k + 1, l + 1)
    BY <1>s, <2>1 DEF Apart
  <2>3. /\ Pending'[k] = Pending[k + 1] /\ Pending'[l] = Pending[l + 1]
        /\ (l + 1) - 1 = l
    BY <1>s, <2>1
  <2>4. ASSUME NEW j \in k + 1 .. l
        PROVE  j - 1 \in k .. l - 1 /\ Pending'[j - 1] = Pending[j]
    <3>1. j # 1 /\ j - 1 \in k .. l - 1
      BY <1>s, <2>1
    <3> QED BY <1>14, <2>1, <3>1
  <2> QED BY <2>2, <2>3, <2>4 DEF LinesApart
<1> QED BY <1>1, <1>3, <1>11, <1>12, <1>13, <1>15, <1>16 DEF Apart

LEMMA ApartStep ==
  /\ TypeOK /\ Threads /\ Handles /\ Tracked /\ Lines /\ Ending /\ Apart
  /\ [Next]_vars
  => Apart'
<1> SUFFICES ASSUME TypeOK, Threads, Handles, Tracked, Lines, Ending, Apart,
                    [Next]_vars, late' = {}
             PROVE  Apart'
  BY DEF Apart
<1>0. late = {}
  BY UntrackedStep
<1>1. CASE UNCHANGED <<Pending, m_lineBuffers, mixed, untracked>>
  BY <1>0, <1>1 DEF Apart
<1>2. CASE Update \/ BeginEnded
  <2>1. Pending' = Pending
    BY <1>2, ExecutorPending
  <2>2. UNCHANGED <<m_lineBuffers, mixed, untracked>>
    BY <1>2 DEF Update, BeginEnded, filter, history
  <2> QED BY <1>1, <2>1, <2>2
<1>3. CASE ErasePid
  BY <1>1, <1>3 DEF ErasePid, filter, history, Pending
<1>4. CASE Others
  BY <1>1, <1>4, OthersPending
<1> QED BY <1>0, <1>2, <1>3, <1>4, ApartNotify, ApartLoopback, ApartGetLine
        DEF Next, Executor, Others

------------------------------------------------------------------------------

LEMMA PInvInit == Init => PInv
<1> SUFFICES ASSUME Init PROVE PInv
  OBVIOUS
<1>1. TypeOK /\ Threads /\ Tracked
  BY TrackedInit
<1>2. Pending = <<>> /\ Len(Pending) = 0
  <2>1. lines = <<>> /\ m_linebuffer = <<>>
    BY DEF Init
  <2>2. Pending = <<>>
    BY <2>1, ConcatEmptySeq DEF Pending, TypeOK
  <2> QED BY <2>2
<1>3. \A id \in Pids : m_pidMap[id] = NoProcess /\ m_lineBuffers[id] = <<>>
  BY DEF Init
<1>4. \A p \in Processes : ~Exists(p)
  BY DEF Init, Exists
<1>5. Handles
  BY <1>2, <1>3, <1>4 DEF Handles, Init
<1>6. Lines
  BY <1>2 DEF Lines, Init
<1>7. Ending
  <2>1. Len(<<>>) = 0
    OBVIOUS
  <2>2. \A p \in Processes : lastOut[p] = "nothing"
    BY DEF Init
  <2>3. \A p : ~Has(<<>>, p)
    BY <2>1 DEF Has
  <2>4. \A p \in Processes : lastOut[p] # "text"
    BY <2>2
  <2>5. \A k \in 1 .. Len(Pending) : FALSE
    BY <1>2
  <2>6. \A p \in Processes, id \in Pids : ~Has(m_lineBuffers[id], p)
    BY <1>3, <2>3
  <2> QED BY <2>4, <2>5, <2>6 DEF Ending
<1>8. Apart
  BY <1>2, <1>3 DEF Apart, OneOwner, Init
<1> QED BY <1>1, <1>5, <1>6, <1>7, <1>8 DEF PInv

LEMMA PInvStep == PInv /\ [Next]_vars => PInv'
<1> SUFFICES ASSUME PInv, [Next]_vars PROVE PInv'
  OBVIOUS
<1>1. TypeOK /\ Threads /\ Handles /\ Tracked /\ Lines /\ Ending /\ Apart
  BY DEF PInv
<1>2. TypeOK' /\ Threads'
  BY <1>1, TypeStep, ThreadsStep
<1>3. Tracked' /\ Handles' /\ Lines'
  BY <1>1, <1>2, TrackedStep, HandlesStep, LinesStep
<1>4. Ending' /\ Apart'
  BY <1>1, EndingStep, ApartStep
<1> QED BY <1>2, <1>3, <1>4 DEF PInv

(* As long as no text is read after the end of the process that wrote it,
   NewlineFilter never joins the text of two processes, however often the kernel
   gives a pid again: between them there is the line that reports the end. *)
THEOREM TextNotMixed == Spec => []TextIsNotMixed
<1>1. PInv => TextIsNotMixed
  BY DEF PInv, Apart, TextIsNotMixed
<1> QED BY <1>1, PInvInit, PInvStep, PTL DEF Spec

LEMMA EndingImpliesLast ==
  ASSUME TypeOK, Threads, Tracked, Ending
  PROVE  EndIsShownLast
<1> SUFFICES ASSUME NothingUnderWay, NEW p \in Processes \ untracked
             PROVE  /\ lastOut[p] # "text"
                    /\ \A id \in Pids : \A i \in DOMAIN m_lineBuffers[id] :
                         m_lineBuffers[id][i].of # p
  BY DEF EndIsShownLast
<1>1. /\ epc = "idle" /\ lines = <<>> /\ m_linebuffer = <<>>
      /\ calls = <<>> /\ m_q = <<>> /\ m_processes = <<>>
  BY DEF NothingUnderWay, Idle
<1>2. connected /\ current = NoEntry
  BY <1>1, Typed DEF Threads, TypeOK
<1>3. Len(calls) = 0 /\ Len(m_q) = 0 /\ Len(m_processes) = 0
  BY <1>1
<1>4. AddedIds = {} /\ WatchedIds = {} /\ PostedIds = {} /\ HandledIds = {}
  BY <1>2, <1>3 DEF AddedIds, WatchedIds, PostedIds, HandledIds, IdsOf, Watching
<1>5. \A id \in Pids : m_pidMap[id] = NoProcess
  BY <1>2, <1>4 DEF Tracked, TrackedIds
<1>6. Len(Pending) = 0
  <2>1. Len(lines) = 0 /\ Len(m_linebuffer) = 0
    BY <1>1
  <2> QED BY <2>1, PendingTyped
<1>7. \A id \in Pids : ~Ends(m_pidMap, Pending, p, id, 0)
  BY <1>5, <1>6, ProcessAssumption DEF Ends
<1>8. lastOut[p] # "text"
  BY <1>7 DEF Ending
<1>9. ASSUME NEW id \in Pids, NEW i \in DOMAIN m_lineBuffers[id]
      PROVE  m_lineBuffers[id][i].of # p
  <2>1. DOMAIN m_lineBuffers[id] = 1 .. Len(m_lineBuffers[id])
    BY LenProperties DEF TypeOK
  <2>2. ~Has(m_lineBuffers[id], p)
    BY <1>7 DEF Ending
  <2> QED BY <2>1, <2>2 DEF Has
<1> QED BY <1>8, <1>9

(* When nothing of an ended process is under way any more, what was shown last
   of it is that it has terminated and NewlineFilter holds nothing of it, unless
   text of it came without a handle: for any interleaving of the messages, of
   ProcessMonitor's thread and of OnProcessEnded's steps. *)
THEOREM EndShownLast == Spec => []EndIsShownLast
<1>1. PInv => EndIsShownLast
  BY EndingImpliesLast DEF PInv
<1> QED BY <1>1, PInvInit, PInvStep, PTL DEF Spec
=============================================================================
