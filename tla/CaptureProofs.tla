---------------------------- MODULE CaptureProofs ----------------------------
(***************************************************************************)
(* Proofs about Capture, for any readers, writers and numbers of messages: *)
(* the readers that the main frame believes in are there, and a message is *)
(* read once and in order.                                                 *)
(***************************************************************************)
EXTENDS Capture, SequenceTheorems, TLAPS

Messages == Writers \X Nat

TypeOK ==
  /\ open \subseteq Readers \cup Writers
  /\ m_dbWinBufferReady \in BOOLEAN /\ m_dbWinDataReady \in BOOLEAN
  /\ wpc \in [Writers -> {"idle", "wait", "write", "data", "close"}]
  /\ count \in [Writers -> Nat]
  /\ gpc \in {"idle", "events", "add", "global"}
  /\ m_pLocalReader \in LocalReaders \cup {NoReader}
  /\ m_pGlobalReader \in GlobalReaders \cup {NoReader}
  /\ alive \subseteq Readers /\ m_sources \subseteq Readers
  /\ m_sourcesScheduleToAdd \subseteq Readers
  /\ m_sourcesScheduledToRemove \subseteq Readers
  /\ lpc \in {"wait", "swap", "update", "notify", "ready"}
  /\ sourcesToAdd \subseteq Readers /\ sourcesToRemove \subseteq Readers
  /\ waited \subseteq Readers
  /\ sent \in Seq(Messages) /\ early \in BOOLEAN

\* What is listed is alive and listed once; a local reader has the buffer open
\* as long as it lives, a writer as long as it writes.
Lists ==
  /\ m_sources \cup m_sourcesScheduleToAdd \cup sourcesToAdd \subseteq alive
  /\ m_sources \cap (m_sourcesScheduleToAdd \cup sourcesToAdd) = {}
  /\ m_sourcesScheduleToAdd \cap sourcesToAdd = {}
  /\ open \cap Readers = alive \cap LocalReaders
  /\ \A w \in Writers : w \in open <=> wpc[w] # "idle"
  /\ waited = m_sources
  /\ lpc # "update" => sourcesToAdd = {} /\ sourcesToRemove = {}
  /\ lpc \in {"notify", "ready"} => m_sources \cap LocalReaders # {}

\* While it is paused, and while it resumes, the main frame has no global
\* reader; the local reader that it has made is not listed yet.
Frame ==
  /\ gpc # "idle" => ~Paused
  /\ Paused \/ gpc \in {"events", "add"} => m_pGlobalReader = NoReader
  /\ gpc \in {"events", "add"} =>
       m_pLocalReader \notin m_sources \cup m_sourcesScheduleToAdd \cup sourcesToAdd
  /\ CapturesWhatItSays

FInv == TypeOK /\ Lists /\ Frame

Busy(w) == wpc[w] \in {"write", "data"}
Reading == lpc \in {"notify", "ready"}

\* The buffer is in one hand: free, or a writer has it, or its message waits for
\* the reader, or is being read.
Token ==
  ~early =>
    /\ \A v, w \in Writers : Busy(v) /\ Busy(w) => v = w
    /\ m_dbWinBufferReady => ~m_dbWinDataReady
    /\ m_dbWinBufferReady \/ m_dbWinDataReady =>
         ~Reading /\ \A w \in Writers : ~Busy(w)
    /\ Reading => \A w \in Writers : ~Busy(w)
    /\ gpc = "events" => m_dbWinBufferReady

\* What was announced and not read is in the buffer, if it is told apart.
Content ==
  ~early =>
    /\ \A w \in Writers : wpc[w] = "data" => m_dbWinBuffer = <<w, count[w]>>
    /\ open \cap LocalReaders # {} =>
         IF (m_dbWinDataReady \/ lpc = "notify") /\ m_dbWinBuffer \notin Untold
         THEN /\ sent # <<>> /\ got = SubSeq(sent, 1, Len(sent) - 1)
              /\ m_dbWinBuffer = sent[Len(sent)]
         ELSE got = sent

BInv == FInv /\ Token /\ Content /\ OnceInOrder

------------------------------------------------------------------------------
(* The readers of the main frame *)

LEMMA FInvInit == Init => FInv
<1> SUFFICES ASSUME Init PROVE FInv
  OBVIOUS
<1>1. TypeOK
  BY EmptySeq DEF Init, TypeOK
<1>2. Lists
  BY DEF Init, Lists
<1>3. Frame
  BY DEF Init, Frame, Paused, CapturesWhatItSays
<1> QED BY <1>1, <1>2, <1>3 DEF FInv

LEMMA TypeStep == FInv /\ [Next]_vars => TypeOK'
<1> SUFFICES ASSUME FInv, [Next]_vars PROVE TypeOK'
  OBVIOUS
<1> USE DEF FInv, TypeOK, buffer, writers, frame, sources, listen, history
<1>r. Readers = LocalReaders \cup GlobalReaders
  BY DEF Readers
<1>1. ASSUME NEW w \in Writers, OpenBuffer(w) PROVE TypeOK'
  <2>1. MaxMessages[w] \in Nat /\ count[w] \in Nat
    BY MessagesAssumption
  <2> QED BY <1>1, <2>1 DEF OpenBuffer
<1>2. ASSUME NEW w \in Writers, WaitReady(w) PROVE TypeOK'
  BY <1>2 DEF WaitReady
<1>3. ASSUME NEW w \in Writers, WriteMessage(w) PROVE TypeOK'
  BY <1>3 DEF WriteMessage
<1>4. ASSUME NEW w \in Writers, SetDataReady(w) PROVE TypeOK'
  <2>1. <<w, count[w]>> \in Messages
    BY DEF Messages
  <2>2. sent' \in Seq(Messages)
    BY <1>4, <2>1, AppendProperties DEF SetDataReady
  <2> QED BY <1>4, <2>2 DEF SetDataReady
<1>5. ASSUME NEW w \in Writers, CloseBuffer(w) PROVE TypeOK'
  BY <1>5 DEF CloseBuffer, Close
<1>6. CASE OtherStarts \/ OtherEnds
  BY <1>6 DEF OtherStarts, OtherEnds
<1>7. CASE Pause
  BY <1>7, <1>r DEF Pause, ScheduleToRemove
<1>8. ASSUME NEW r \in LocalReaders, CreateLocal(r) PROVE TypeOK'
  BY <1>8, <1>r, EmptySeq DEF CreateLocal
<1>9. CASE SetBufferReady
  BY <1>9 DEF SetBufferReady
<1>10. CASE AddLocal
  <2>1. m_pLocalReader \in Readers
    BY <1>10, <1>r DEF AddLocal, Frame, Paused
  <2> QED BY <1>10, <2>1 DEF AddLocal, ScheduleToAdd
<1>11. CASE CreateGlobal
  BY <1>11, <1>r DEF CreateGlobal, ScheduleToAdd
<1>12. CASE OnLogGlobal
  <2>1. m_tryGlobal' \/ m_pGlobalReader \in GlobalReaders
    BY <1>12 DEF OnLogGlobal
  <2>2. m_sourcesScheduledToRemove' \subseteq Readers
    BY <1>12, <1>r, <2>1 DEF OnLogGlobal, ScheduleToRemove
  <2> QED BY <1>12, <2>1, <2>2 DEF OnLogGlobal, ScheduleToRemove
<1>13. CASE UpdateLogSources
  BY <1>13 DEF UpdateLogSources, ScheduleToRemove
<1>14. CASE TakeUpdate \/ Swap
  BY <1>14 DEF TakeUpdate, Swap
<1>15. CASE UpdateSources
  BY <1>15 DEF UpdateSources, Close
<1>16. CASE WaitData \/ Notify
  BY <1>16 DEF WaitData, Notify
<1>17. CASE UNCHANGED vars
  BY <1>17 DEF vars
<1> QED BY <1>1, <1>2, <1>3, <1>4, <1>5, <1>6, <1>7, <1>8, <1>9, <1>10, <1>11,
           <1>12, <1>13, <1>14, <1>15, <1>16, <1>17
        DEF Next, MainFrame, ListenThread

LEMMA ListsStep == FInv /\ [Next]_vars => Lists'
<1> SUFFICES ASSUME FInv, [Next]_vars PROVE Lists'
  OBVIOUS
<1> USE DEF FInv, TypeOK, Lists, buffer, writers, frame, sources, listen, history
<1>r. /\ Readers = LocalReaders \cup GlobalReaders /\ Readers \cap Writers = {}
      /\ LocalReaders \cap GlobalReaders = {}
  BY ReadersAssumption DEF Readers
<1>1. ASSUME NEW w \in Writers, OpenBuffer(w) PROVE Lists'
  BY <1>1, <1>r DEF OpenBuffer
<1>2. ASSUME NEW w \in Writers, WaitReady(w) PROVE Lists'
  BY <1>2 DEF WaitReady
<1>3. ASSUME NEW w \in Writers, WriteMessage(w) PROVE Lists'
  BY <1>3 DEF WriteMessage
<1>4. ASSUME NEW w \in Writers, SetDataReady(w) PROVE Lists'
  BY <1>4 DEF SetDataReady
<1>5. ASSUME NEW w \in Writers, CloseBuffer(w) PROVE Lists'
  BY <1>5, <1>r DEF CloseBuffer, Close
<1>6. CASE OtherStarts \/ OtherEnds
  BY <1>6 DEF OtherStarts, OtherEnds
<1>7. CASE Pause
  BY <1>7 DEF Pause, ScheduleToRemove
<1>8. ASSUME NEW r \in LocalReaders, CreateLocal(r) PROVE Lists'
  BY <1>8, <1>r DEF CreateLocal, Unused
<1>9. CASE SetBufferReady
  BY <1>9 DEF SetBufferReady
<1>10. CASE AddLocal
  BY <1>10 DEF AddLocal, ScheduleToAdd, Frame, Paused, CapturesWhatItSays
<1>11. CASE CreateGlobal
  BY <1>11, <1>r DEF CreateGlobal, ScheduleToAdd, Unused
<1>12. CASE OnLogGlobal
  BY <1>12 DEF OnLogGlobal, ScheduleToRemove
<1>13. CASE UpdateLogSources
  BY <1>13 DEF UpdateLogSources, ScheduleToRemove
<1>14. CASE TakeUpdate \/ Swap
  BY <1>14 DEF TakeUpdate, Swap
<1>15. CASE UpdateSources
  <2> DEFINE gone == m_sources \cap sourcesToRemove
  <2>1. /\ alive' = alive \ gone /\ open' = open \ gone
        /\ m_sources' = (m_sources \ sourcesToRemove) \cup sourcesToAdd
        /\ waited' = m_sources' /\ sourcesToAdd' = {} /\ sourcesToRemove' = {}
        /\ lpc' = "wait"
        /\ UNCHANGED <<wpc, m_sourcesScheduleToAdd>>
    BY <1>15 DEF UpdateSources, Close
  <2>2. gone \subseteq alive /\ gone \subseteq Readers /\ gone \cap Writers = {}
    BY <1>r
  <2>3. open' \cap Readers = alive' \cap LocalReaders
    BY <2>1, <2>2
  <2>4. \A w \in Writers : w \in open' <=> wpc'[w] # "idle"
    BY <2>1, <2>2
  <2>5. /\ m_sources' \cap m_sourcesScheduleToAdd' = {}
        /\ m_sources' \cup m_sourcesScheduleToAdd' \subseteq alive'
    BY <2>1, <2>2
  <2> QED BY <2>1, <2>3, <2>4, <2>5
<1>16. CASE WaitData \/ Notify
  BY <1>16 DEF WaitData, Notify
<1>17. CASE UNCHANGED vars
  BY <1>17 DEF vars
<1> QED BY <1>1, <1>2, <1>3, <1>4, <1>5, <1>6, <1>7, <1>8, <1>9, <1>10, <1>11,
           <1>12, <1>13, <1>14, <1>15, <1>16, <1>17
        DEF Next, MainFrame, ListenThread

LEMMA FrameStep == FInv /\ [Next]_vars => Frame'
<1> SUFFICES ASSUME FInv, [Next]_vars PROVE Frame'
  OBVIOUS
<1> USE DEF FInv, TypeOK, Frame, Paused, CapturesWhatItSays, buffer, writers,
            frame, sources, listen, history
<1>r. /\ Readers = LocalReaders \cup GlobalReaders /\ NoReader \notin Readers
      /\ LocalReaders \cap GlobalReaders = {}
  BY ReadersAssumption DEF Readers
<1>1. ASSUME NEW w \in Writers,
             OpenBuffer(w) \/ WaitReady(w) \/ WriteMessage(w) \/ SetDataReady(w)
               \/ CloseBuffer(w)
      PROVE Frame'
  BY <1>1 DEF OpenBuffer, WaitReady, WriteMessage, SetDataReady, CloseBuffer
<1>2. CASE OtherStarts \/ OtherEnds
  BY <1>2 DEF OtherStarts, OtherEnds
<1>3. CASE Pause
  BY <1>3 DEF Pause
<1>4. ASSUME NEW r \in LocalReaders, CreateLocal(r) PROVE Frame'
  BY <1>4, <1>r DEF CreateLocal, Unused, Lists
<1>5. CASE SetBufferReady
  BY <1>5 DEF SetBufferReady
<1>6. CASE AddLocal
  BY <1>6 DEF AddLocal, ScheduleToAdd
<1>7. CASE CreateGlobal
  BY <1>7, <1>r DEF CreateGlobal, ScheduleToAdd, Unused
<1>8. CASE OnLogGlobal
  BY <1>8, <1>r DEF OnLogGlobal, ScheduleToRemove
<1>9. CASE UpdateLogSources
  BY <1>9 DEF UpdateLogSources, ScheduleToRemove
<1>10. CASE TakeUpdate
  BY <1>10 DEF TakeUpdate
<1>11. CASE Swap
  BY <1>11 DEF Swap, Lists
<1>12. CASE UpdateSources
  BY <1>12 DEF UpdateSources
<1>13. CASE WaitData \/ Notify
  BY <1>13 DEF WaitData, Notify
<1>14. CASE UNCHANGED vars
  BY <1>14 DEF vars
<1> QED BY <1>1, <1>2, <1>3, <1>4, <1>5, <1>6, <1>7, <1>8, <1>9, <1>10, <1>11,
           <1>12, <1>13, <1>14 DEF Next, MainFrame, ListenThread

LEMMA FrameInvariant == Spec => []FInv
<1>1. FInv /\ [Next]_vars => FInv'
  BY TypeStep, ListsStep, FrameStep DEF FInv
<1> QED BY <1>1, FInvInit, PTL DEF Spec

(* The readers that the main frame has pointers to, and shows in its title,
   were not destroyed, and are listed or about to be, whatever is added and
   removed on the way: Pause, Resume and the dialogs on the GUI thread never get
   ahead of the listen thread's removals. *)
THEOREM PointersAreAlive == Spec => []CapturesWhatItSays
<1>1. FInv => CapturesWhatItSays
  BY DEF FInv, Frame
<1> QED BY <1>1, FrameInvariant, PTL

------------------------------------------------------------------------------
(* The messages *)

LEMMA TokenStep == BInv /\ [Next]_vars => Token'
<1> SUFFICES ASSUME BInv, [Next]_vars PROVE Token'
  OBVIOUS
<1> USE DEF BInv, FInv, TypeOK, Token, Busy, Reading, buffer, writers, frame,
            sources, listen, history
<1>1. ASSUME NEW w \in Writers, OpenBuffer(w) PROVE Token'
  BY <1>1 DEF OpenBuffer
<1>2. ASSUME NEW w \in Writers, WaitReady(w) PROVE Token'
  BY <1>2 DEF WaitReady
<1>3. ASSUME NEW w \in Writers, WriteMessage(w) PROVE Token'
  BY <1>3 DEF WriteMessage
<1>4. ASSUME NEW w \in Writers, SetDataReady(w) PROVE Token'
  BY <1>4 DEF SetDataReady
<1>5. ASSUME NEW w \in Writers, CloseBuffer(w) PROVE Token'
  <2>1. gpc = "events" => open' # {}
    <3>1. gpc = "events" => m_pLocalReader \in open \cap Readers
      BY DEF Frame, Lists, Paused, CapturesWhatItSays
    <3> QED BY <1>5, <3>1, ReadersAssumption DEF CloseBuffer, Close
  <2> QED BY <1>5, <2>1 DEF CloseBuffer, Close
<1>6. CASE OtherStarts \/ OtherEnds
  BY <1>6 DEF OtherStarts, OtherEnds
<1>7. CASE Pause
  BY <1>7 DEF Pause
<1>8. ASSUME NEW r \in LocalReaders, CreateLocal(r) PROVE Token'
  <2>1. lpc \notin {"notify", "ready"}
    BY <1>8 DEF CreateLocal, Lists
  <2>2. \A w \in Writers : wpc[w] = "idle"
    BY <1>8 DEF CreateLocal, Lists
  <2> QED BY <1>8, <2>1, <2>2 DEF CreateLocal
<1>9. CASE SetBufferReady
  BY <1>9 DEF SetBufferReady
<1>10. CASE AddLocal \/ CreateGlobal \/ OnLogGlobal \/ UpdateLogSources
  BY <1>10 DEF AddLocal, CreateGlobal, OnLogGlobal, UpdateLogSources
<1>11. CASE TakeUpdate \/ Swap
  BY <1>11 DEF TakeUpdate, Swap
<1>12. CASE UpdateSources
  <2>1. gpc = "events" => open' # {}
    <3>1. gpc = "events" => /\ m_pLocalReader \in open
                            /\ m_pLocalReader \notin sourcesToRemove
      BY DEF Frame, Lists, Paused, CapturesWhatItSays
    <3> QED BY <1>12, <3>1 DEF UpdateSources, Close
  <2> QED BY <1>12, <2>1 DEF UpdateSources, Close
<1>13. CASE WaitData \/ Notify
  BY <1>13 DEF WaitData, Notify
<1>14. CASE UNCHANGED vars
  BY <1>14 DEF vars
<1> QED BY <1>1, <1>2, <1>3, <1>4, <1>5, <1>6, <1>7, <1>8, <1>9, <1>10, <1>11,
           <1>12, <1>13, <1>14 DEF Next, MainFrame, ListenThread

\* The last of the messages sent, once it is read, completes what was read.
LEMMA ReadTheLast ==
  ASSUME NEW s \in Seq(Messages), s # <<>>
  PROVE  Append(SubSeq(s, 1, Len(s) - 1), s[Len(s)]) = s
<1> DEFINE front == SubSeq(s, 1, Len(s) - 1)
<1>1. Len(s) \in Nat /\ Len(s) >= 1
  BY EmptySeq, LenProperties
<1>2. front \in Seq(Messages) /\ Len(front) = Len(s) - 1
  BY <1>1, SubSeqProperties
<1>3. \A i \in 1 .. Len(s) - 1 : front[i] = s[i]
  BY <1>1, SubSeqProperties
<1>4. s[Len(s)] \in Messages
  BY <1>1, ElementOfSeq
<1> DEFINE t == Append(front, s[Len(s)])
<1>5. t \in Seq(Messages) /\ Len(t) = Len(s)
  BY <1>1, <1>2, <1>4, AppendProperties
<1>6. \A i \in 1 .. Len(s) : t[i] = s[i]
  BY <1>1, <1>2, <1>3, <1>4, AppendProperties
<1> QED BY <1>5, <1>6, SeqEqual

LEMMA SendOne ==
  ASSUME NEW s \in Seq(Messages), NEW m \in Messages
  PROVE  LET t == Append(s, m)
         IN  /\ t \in Seq(Messages) /\ t # <<>> /\ t[Len(t)] = m
             /\ SubSeq(t, 1, Len(t) - 1) = s
<1> DEFINE t == Append(s, m)
<1>1. /\ t \in Seq(Messages) /\ Len(t) = Len(s) + 1 /\ t[Len(t)] = m
      /\ \A i \in 1 .. Len(s) : t[i] = s[i]
  BY AppendProperties, LenProperties
<1>2. Len(s) \in Nat /\ Len(t) - 1 = Len(s)
  BY <1>1, LenProperties
<1>3. SubSeq(t, 1, Len(s)) \in Seq(Messages) /\ Len(SubSeq(t, 1, Len(s))) = Len(s)
  BY <1>1, <1>2, SubSeqProperties
<1>4. \A i \in 1 .. Len(s) : SubSeq(t, 1, Len(s))[i] = s[i]
  BY <1>1, <1>2, SubSeqProperties
<1>5. SubSeq(t, 1, Len(s)) = s
  BY <1>3, <1>4, SeqEqual
<1>6. t # <<>> /\ SubSeq(t, 1, Len(t) - 1) = s
  BY <1>2, <1>5, EmptySeq, LenProperties
<1> HIDE DEF t
<1> QED BY <1>1, <1>6 DEF t

LEMMA ContentStep == BInv /\ [Next]_vars => Content'
<1> SUFFICES ASSUME BInv, [Next]_vars PROVE Content'
  OBVIOUS
<1> USE DEF BInv, FInv, TypeOK, Content, Busy, Reading, buffer, writers, frame,
            sources, listen, history
<1>r. LocalReaders \subseteq Readers /\ Readers \cap Writers = {}
  BY ReadersAssumption DEF Readers
<1>1. ASSUME NEW w \in Writers, OpenBuffer(w) PROVE Content'
  BY <1>1, <1>r DEF OpenBuffer
<1>2. ASSUME NEW w \in Writers, WaitReady(w) PROVE Content'
  BY <1>2 DEF WaitReady
<1>3. ASSUME NEW w \in Writers, WriteMessage(w) PROVE Content'
  BY <1>3 DEF WriteMessage, Token
<1>4. ASSUME NEW w \in Writers, SetDataReady(w) PROVE Content'
  <2> DEFINE m == <<w, count[w]>>
  <2>1. m \in Messages
    BY DEF Messages
  <2>2. /\ Append(sent, m) # <<>>
        /\ Append(sent, m)[Len(Append(sent, m))] = m
        /\ SubSeq(Append(sent, m), 1, Len(Append(sent, m)) - 1) = sent
    BY <2>1, SendOne
  <2>3. ~early => m_dbWinBuffer = m /\ ~(m_dbWinDataReady \/ lpc = "notify")
    BY <1>4 DEF SetDataReady, Token
  <2>4. /\ sent' = IF open \cap LocalReaders # {} /\ m \notin Untold
                   THEN Append(sent, m) ELSE sent
        /\ m_dbWinDataReady' = TRUE
        /\ wpc' = [wpc EXCEPT ![w] = "close"]
        /\ UNCHANGED <<got, open, lpc, m_dbWinBuffer, early, count>>
    BY <1>4 DEF SetDataReady
  <2>5. \A v \in Writers : wpc'[v] = "data" => wpc[v] = "data"
    BY <2>4
  <2> HIDE DEF m
  <2>6. CASE m \in Untold
    BY <2>3, <2>4, <2>5, <2>6 DEF Untold
  <2>7. CASE m \notin Untold
    BY <2>2, <2>3, <2>4, <2>5, <2>7 DEF Untold
  <2> QED BY <2>6, <2>7
<1>5. ASSUME NEW w \in Writers, CloseBuffer(w) PROVE Content'
  BY <1>5, <1>r DEF CloseBuffer, Close
<1>6. CASE OtherStarts \/ OtherEnds
  BY <1>6 DEF OtherStarts, OtherEnds
<1>7. CASE Pause
  BY <1>7 DEF Pause
<1>8. ASSUME NEW r \in LocalReaders, CreateLocal(r) PROVE Content'
  <2>1. lpc \notin {"notify", "ready"}
    BY <1>8 DEF CreateLocal, Lists
  <2>2. \A w \in Writers : wpc[w] = "idle"
    BY <1>8 DEF CreateLocal, Lists
  <2> QED BY <1>8, <2>1, <2>2 DEF CreateLocal
<1>9. CASE SetBufferReady
  BY <1>9 DEF SetBufferReady
<1>10. CASE AddLocal \/ CreateGlobal \/ OnLogGlobal \/ UpdateLogSources
  BY <1>10 DEF AddLocal, CreateGlobal, OnLogGlobal, UpdateLogSources
<1>11. CASE TakeUpdate \/ Swap
  BY <1>11 DEF TakeUpdate, Swap
<1>12. CASE UpdateSources
  BY <1>12 DEF UpdateSources, Close
<1>13. CASE WaitData
  BY <1>13 DEF WaitData
<1>14. CASE Notify
  <2>1. sent # <<>> => Append(SubSeq(sent, 1, Len(sent) - 1), sent[Len(sent)]) = sent
    BY ReadTheLast
  <2>2. lpc = "notify" /\ ~early => ~m_dbWinDataReady
    BY DEF Token
  <2>3. lpc \in {"notify", "ready"} => open \cap LocalReaders # {}
    BY <1>r DEF Lists
  <2>4. CASE lpc = "notify"
    <3>1. /\ got' = IF m_dbWinBuffer \in Untold THEN got
                    ELSE Append(got, m_dbWinBuffer)
          /\ lpc' = "ready"
          /\ UNCHANGED <<open, m_dbWinBuffer, m_dbWinDataReady, wpc, count, sent, early>>
      BY <1>14, <2>4 DEF Notify, Read
    <3>2. ~early => got' = sent'
      BY <2>1, <2>3, <2>4, <3>1
    <3> QED BY <2>2, <2>4, <3>1, <3>2
  <2>5. CASE lpc = "ready"
    BY <1>14, <2>5 DEF Notify
  <2> QED BY <1>14, <2>4, <2>5 DEF Notify
<1>15. CASE UNCHANGED vars
  BY <1>15 DEF vars
<1> QED BY <1>1, <1>2, <1>3, <1>4, <1>5, <1>6, <1>7, <1>8, <1>9, <1>10, <1>11,
           <1>12, <1>13, <1>14, <1>15 DEF Next, MainFrame, ListenThread

\* With a reader there Content says it; without one, nothing is sent or read.
LEMMA OnceStep == BInv /\ [Next]_vars /\ Content' => OnceInOrder'
<1> SUFFICES ASSUME BInv, [Next]_vars, Content' PROVE OnceInOrder'
  OBVIOUS
<1>1. CASE open' \cap LocalReaders # {}
  BY <1>1 DEF Content, OnceInOrder
<1>2. CASE open' \cap LocalReaders = {}
  <2> USE DEF buffer, writers, frame, sources, listen, history
  <2>1. ASSUME NEW w \in Writers,
               OpenBuffer(w) \/ WaitReady(w) \/ WriteMessage(w) \/ SetDataReady(w)
                 \/ CloseBuffer(w)
        PROVE UNCHANGED <<sent, got>> /\ (early => early')
    <3>1. CASE OpenBuffer(w) \/ WriteMessage(w) \/ CloseBuffer(w)
      BY <3>1 DEF OpenBuffer, WriteMessage, CloseBuffer
    <3>2. CASE WaitReady(w)
      BY <3>2 DEF WaitReady
    <3>3. CASE SetDataReady(w)
      BY <1>2, <3>3 DEF SetDataReady
    <3> QED BY <2>1, <3>1, <3>2, <3>3
  <2>2. CASE OtherStarts \/ OtherEnds
    BY <2>2 DEF OtherStarts, OtherEnds, OnceInOrder, BInv
  <2>3. CASE \E r \in LocalReaders : CreateLocal(r)
    BY <1>2, <2>3 DEF CreateLocal
  <2>4. CASE Pause \/ SetBufferReady \/ AddLocal \/ CreateGlobal \/ OnLogGlobal
             \/ UpdateLogSources
    BY <2>4 DEF Pause, SetBufferReady, AddLocal, CreateGlobal, OnLogGlobal,
                UpdateLogSources, OnceInOrder, BInv
  <2>5. CASE TakeUpdate \/ Swap \/ UpdateSources \/ WaitData
    BY <2>5 DEF TakeUpdate, Swap, UpdateSources, WaitData, OnceInOrder, BInv
  <2>6. CASE Notify
    <3>1. open \cap LocalReaders # {} /\ UNCHANGED open
      BY <2>6 DEF Notify, BInv, FInv, Lists, TypeOK, Readers
    <3> QED BY <1>2, <3>1
  <2>7. CASE UNCHANGED vars
    BY <2>7 DEF vars, OnceInOrder, BInv
  <2>8. CASE \E w \in Writers :
               OpenBuffer(w) \/ WaitReady(w) \/ WriteMessage(w) \/ SetDataReady(w)
                 \/ CloseBuffer(w)
    BY <2>1, <2>8 DEF OnceInOrder, BInv
  <2> QED BY <2>2, <2>3, <2>4, <2>5, <2>6, <2>7, <2>8
          DEF Next, MainFrame, ListenThread
<1> QED BY <1>1, <1>2

(* While a local reader is there, every message that a writer announced is read
   once, in the order of the announcements, whichever of the writers waits,
   gives up or dies: the two events hand one buffer round.  It is as OnceInOrder
   says, and so except for the writer that begins while the constructor is at
   work. *)
THEOREM MessagesReadOnce == Spec => []OnceInOrder
<1>1. Init => BInv
  <2>1. Init => Token /\ Content /\ OnceInOrder
    BY DEF Init, Token, Content, OnceInOrder, Busy, Reading
  <2> QED BY <2>1, FInvInit DEF BInv
<1>2. BInv /\ [Next]_vars => BInv'
  <2>1. FInv /\ [Next]_vars => FInv'
    BY TypeStep, ListsStep, FrameStep DEF FInv
  <2> QED BY <2>1, TokenStep, ContentStep, OnceStep DEF BInv
<1>3. BInv => OnceInOrder
  BY DEF BInv
<1> QED BY <1>1, <1>2, <1>3, PTL DEF Spec
=============================================================================
