-------------------------- MODULE LogSourcesProofs --------------------------
(***************************************************************************)
(* Proofs about LogSources, for any sources and any bounds: no update is   *)
(* lost; a line of a polled source is only dropped when its source was     *)
(* removed; when clients only call Remove, the listen thread uses no       *)
(* destroyed source.                                                       *)
(***************************************************************************)
EXTENDS LogSources, SequenceTheorems, TLAPS

LEMMA Constants == /\ NoSource \notin Sources /\ FileSources \subseteq Sources
                   /\ MaxLines \in Nat /\ MaxPointers \in Nat
  BY SourcesAssumption, FilesAssumption, BoundsAssumption

LEMMA NothingProperties == /\ Nothing \in [Sources -> Nat]
                           /\ \A s \in Sources : Nothing[s] = 0
  BY DEF Nothing

LEMMA SumIsNat == \A x, y \in Nat : x + y \in Nat
  OBVIOUS

\* One more pointer or line for the members of S.
LEMMA PlusProperties ==
  ASSUME NEW f \in [Sources -> Nat], NEW S \in SUBSET Sources
  PROVE  /\ Plus(f, S) \in [Sources -> Nat]
         /\ \A s \in Sources :
              Plus(f, S)[s] = IF s \in S THEN f[s] + 1 ELSE f[s]
  BY DEF Plus

LEMMA PointedPlus ==
  ASSUME NEW f \in [Sources -> Nat], NEW S \in SUBSET Sources
  PROVE  \A s \in Sources : Plus(f, S)[s] > 0 => s \in S \/ f[s] > 0
  BY PlusProperties

\* Handing over the lines of S adds lines of S only.
LEMMA HandOverProperties ==
  ASSUME NEW S \in SUBSET Sources, HandOver(S),
         m_linebuffer \in [Sources -> Nat], lines \in [Sources -> Nat]
  PROVE  /\ m_linebuffer' \in [Sources -> Nat] /\ lines' \in [Sources -> Nat]
         /\ Pointed(m_linebuffer)' \subseteq Pointed(m_linebuffer) \cup S
<1>1. \A s \in Sources : m_linebuffer[s] \in Nat /\ lines[s] \in Nat
  OBVIOUS
<1>2. m_linebuffer' = [s \in Sources |-> m_linebuffer[s] + IF s \in S THEN lines[s] ELSE 0]
      /\ lines' = [s \in Sources |-> IF s \in S THEN 0 ELSE lines[s]]
  BY DEF HandOver
<1>3. lines' \in [Sources -> Nat]
  BY <1>1, <1>2
<1>4. \A s \in Sources : m_linebuffer'[s] \in Nat
        /\ (s \notin S => m_linebuffer'[s] = m_linebuffer[s])
  BY <1>1, <1>2
<1>5. m_linebuffer' \in [Sources -> Nat]
  BY <1>2, <1>4
<1>6. \A s \in Pointed(m_linebuffer)' : s \in Pointed(m_linebuffer) \cup S
  BY <1>1, <1>4 DEF Pointed
<1> QED BY <1>3, <1>5, <1>6

------------------------------------------------------------------------------
LEMMA TypeInit == Init => TypeOK
<1> SUFFICES ASSUME Init PROVE TypeOK
  OBVIOUS
<1>1. <<"listen">> \in Seq({"listen", "sync", "end"})
  OBVIOUS
<1>2. lines \in [Sources -> Nat] /\ made \in [Sources -> Nat]
      /\ delivered \in [Sources -> Nat]
  BY DEF Init
<1> QED
  BY <1>1, <1>2, NothingProperties
     DEF Init, TypeOK, SharedOK, ObjectsOK, ListenOK, ClientOK

LEMMA TypeStep == TypeOK /\ [Next]_vars => TypeOK'
<1> SUFFICES ASSUME TypeOK, [Next]_vars PROVE TypeOK'
  OBVIOUS
<1>t. TypeOK
  OBVIOUS
<1>1. ASSUME NEW s \in Sources, Poll(s) PROVE TypeOK'
  <2>1. PICK n \in {0, 1} :
          /\ made' = [made EXCEPT ![s] = @ + n]
          /\ polling' = polling \cup {s}
          /\ IF s \in FileSources
             THEN m_linebuffer' = [m_linebuffer EXCEPT ![s] = @ + n] /\ UNCHANGED lines
             ELSE lines' = [lines EXCEPT ![s] = @ + n] /\ UNCHANGED m_linebuffer
    BY <1>1 DEF Poll
  <2>2. UNCHANGED <<m_sources, Schedule, m_updateEvent, m_end, tasks, update,
                    alive, atEnd, signaled, listen, client, history>>
    BY <1>1 DEF Poll
  <2>3. \A f \in [Sources -> Nat] : [f EXCEPT ![s] = @ + n] \in [Sources -> Nat]
    BY <2>1
  <2>4. made' \in [Sources -> Nat]
    BY <1>t, <2>1, <2>3 DEF TypeOK, ObjectsOK
  <2>5. m_linebuffer' \in [Sources -> Nat] /\ lines' \in [Sources -> Nat]
    BY <1>t, <2>1, <2>3 DEF TypeOK, SharedOK, ObjectsOK
  <2>a. SharedOK'
    BY <1>t, <2>1, <2>2, <2>4, <2>5
       DEF TypeOK, SharedOK, Schedule, listen, client, history
  <2>b. ObjectsOK'
    BY <1>t, <2>1, <2>2, <2>4, <2>5
       DEF TypeOK, ObjectsOK, Schedule, listen, client, history
  <2>c. ListenOK'
    BY <1>t, <2>1, <2>2, <2>4, <2>5
       DEF TypeOK, ListenOK, Schedule, listen, client, history
  <2>d. ClientOK'
    BY <1>t, <2>1, <2>2, <2>4, <2>5
       DEF TypeOK, ClientOK, Schedule, listen, client, history
  <2> QED BY <2>a, <2>b, <2>c, <2>d DEF TypeOK
<1>2. ASSUME NEW s \in Sources, End(s) PROVE TypeOK'
  <2>a. SharedOK'
    BY <1>t, <1>2
       DEF TypeOK, SharedOK, End, shared, listen, client, history
  <2>b. ObjectsOK'
    BY <1>t, <1>2
       DEF TypeOK, ObjectsOK, End, shared, listen, client, history
  <2>c. ListenOK'
    BY <1>t, <1>2
       DEF TypeOK, ListenOK, End, shared, listen, client, history
  <2>d. ClientOK'
    BY <1>t, <1>2
       DEF TypeOK, ClientOK, End, shared, listen, client, history
  <2> QED BY <2>a, <2>b, <2>c, <2>d DEF TypeOK
<1>3. ASSUME NEW s \in Sources, Add(s) PROVE TypeOK'
  <2>a. SharedOK'
    BY <1>t, <1>3
       DEF TypeOK, SharedOK, Add, listen, history, locals
  <2>b. ObjectsOK'
    BY <1>t, <1>3
       DEF TypeOK, ObjectsOK, Add, listen, history, locals
  <2>c. ListenOK'
    BY <1>t, <1>3
       DEF TypeOK, ListenOK, Add, listen, history, locals
  <2>d. ClientOK'
    BY <1>t, <1>3
       DEF TypeOK, ClientOK, Add, listen, history, locals
  <2> QED BY <2>a, <2>b, <2>c, <2>d DEF TypeOK
<1>4. ASSUME NEW s \in Sources, Remove(s) PROVE TypeOK'
  <2>1. m_sourcesScheduledToRemove' \in [Sources -> Nat]
    <3>1. m_sourcesScheduledToRemove' \in
            {Plus(m_sourcesScheduledToRemove, {s}), m_sourcesScheduledToRemove}
      BY <1>4 DEF Remove, locals
    <3>2. m_sourcesScheduledToRemove \in [Sources -> Nat] /\ {s} \in SUBSET Sources
      BY <1>t DEF TypeOK, SharedOK, ObjectsOK, ListenOK, ClientOK
    <3>3. Plus(m_sourcesScheduledToRemove, {s}) \in [Sources -> Nat]
      BY <3>2, PlusProperties
    <3> QED BY <3>1, <3>2, <3>3
  <2>a. SharedOK'
    BY <1>t, <1>4, <2>1
       DEF TypeOK, SharedOK, Remove, objects, listen, locals
  <2>b. ObjectsOK'
    BY <1>t, <1>4, <2>1
       DEF TypeOK, ObjectsOK, Remove, objects, listen, locals
  <2>c. ListenOK'
    BY <1>t, <1>4, <2>1
       DEF TypeOK, ListenOK, Remove, objects, listen, locals
  <2>d. ClientOK'
    BY <1>t, <1>4, <2>1
       DEF TypeOK, ClientOK, Remove, objects, listen, locals
  <2> QED BY <2>a, <2>b, <2>c, <2>d DEF TypeOK
<1>5. CASE RemoveSources
  <2>1. PICK spared \in SUBSET pointers : ScheduleRemoval(m_sources \ spared)
    BY <1>5 DEF RemoveSources, locals
  <2>2. m_sources \ spared \subseteq Sources
    BY <1>t DEF TypeOK, SharedOK
  <2>3. m_sourcesScheduledToRemove' \in [Sources -> Nat]
    BY <1>t, <2>1, <2>2, PlusProperties DEF ScheduleRemoval, TypeOK, SharedOK
  <2>4. removed' \subseteq Sources
    BY <1>t, <2>1, <2>2 DEF ScheduleRemoval, TypeOK, ClientOK
  <2>a. SharedOK'
    BY <1>t, <1>5, <2>3, <2>4
       DEF TypeOK, SharedOK, RemoveSources, objects, listen, locals
  <2>b. ObjectsOK'
    BY <1>t, <1>5, <2>3, <2>4
       DEF TypeOK, ObjectsOK, RemoveSources, objects, listen, locals
  <2>c. ListenOK'
    BY <1>t, <1>5, <2>3, <2>4
       DEF TypeOK, ListenOK, RemoveSources, objects, listen, locals
  <2>d. ClientOK'
    BY <1>t, <1>5, <2>3, <2>4
       DEF TypeOK, ClientOK, RemoveSources, objects, listen, locals
  <2> QED BY <2>a, <2>b, <2>c, <2>d DEF TypeOK
<1>6. CASE SetEvent
  <2>a. SharedOK'
    BY <1>t, <1>6
       DEF TypeOK, SharedOK, SetEvent, Schedule, objects, listen, history, locals
  <2>b. ObjectsOK'
    BY <1>t, <1>6
       DEF TypeOK, ObjectsOK, SetEvent, Schedule, objects, listen, history, locals
  <2>c. ListenOK'
    BY <1>t, <1>6
       DEF TypeOK, ListenOK, SetEvent, Schedule, objects, listen, history, locals
  <2>d. ClientOK'
    BY <1>t, <1>6
       DEF TypeOK, ClientOK, SetEvent, Schedule, objects, listen, history, locals
  <2> QED BY <2>a, <2>b, <2>c, <2>d DEF TypeOK
<1>7. CASE GetLines
  <2>a. SharedOK'
    BY <1>t, <1>7, NothingProperties
       DEF TypeOK, SharedOK, GetLines, Schedule, objects, listen, history
  <2>b. ObjectsOK'
    BY <1>t, <1>7, NothingProperties
       DEF TypeOK, ObjectsOK, GetLines, Schedule, objects, listen, history
  <2>c. ListenOK'
    BY <1>t, <1>7, NothingProperties
       DEF TypeOK, ListenOK, GetLines, Schedule, objects, listen, history
  <2>d. ClientOK'
    BY <1>t, <1>7, NothingProperties
       DEF TypeOK, SharedOK, ClientOK, GetLines, Schedule, objects, listen, history
  <2> QED BY <2>a, <2>b, <2>c, <2>d DEF TypeOK
<1>8. CASE BeginAbort
  <2>a. SharedOK'
    BY <1>t, <1>8
       DEF TypeOK, SharedOK, BeginAbort, Schedule, objects, listen, history, locals
  <2>b. ObjectsOK'
    BY <1>t, <1>8
       DEF TypeOK, ObjectsOK, BeginAbort, Schedule, objects, listen, history, locals
  <2>c. ListenOK'
    BY <1>t, <1>8
       DEF TypeOK, ListenOK, BeginAbort, Schedule, objects, listen, history, locals
  <2>d. ClientOK'
    BY <1>t, <1>8
       DEF TypeOK, ClientOK, BeginAbort, Schedule, objects, listen, history, locals
  <2> QED BY <2>a, <2>b, <2>c, <2>d DEF TypeOK
<1>9. CASE AbortSources
  <2>a. SharedOK'
    BY <1>t, <1>9, HandOverProperties
       DEF TypeOK, SharedOK, ObjectsOK, ListenOK, ClientOK,
           AbortSources, Schedule, listen, history, locals
  <2>b. ObjectsOK'
    BY <1>t, <1>9, HandOverProperties
       DEF TypeOK, SharedOK, ObjectsOK, ListenOK, ClientOK,
           AbortSources, Schedule, listen, history, locals
  <2>c. ListenOK'
    BY <1>t, <1>9, HandOverProperties
       DEF TypeOK, ListenOK, AbortSources, Schedule, listen, history, locals
  <2>d. ClientOK'
    BY <1>t, <1>9, HandOverProperties
       DEF TypeOK, ClientOK, AbortSources, Schedule, listen, history, locals
  <2> QED BY <2>a, <2>b, <2>c, <2>d DEF TypeOK
<1>10. CASE AbortRemoves
  <2>a. SharedOK'
    BY <1>t, <1>10, PlusProperties
       DEF TypeOK, SharedOK, AbortRemoves, ScheduleRemoval, objects, listen, locals
  <2>b. ObjectsOK'
    BY <1>t, <1>10, PlusProperties
       DEF TypeOK, ObjectsOK, AbortRemoves, ScheduleRemoval, objects, listen, locals
  <2>c. ListenOK'
    BY <1>t, <1>10, PlusProperties
       DEF TypeOK, ListenOK, AbortRemoves, ScheduleRemoval, objects, listen, locals
  <2>d. ClientOK'
    BY <1>t, <1>10, PlusProperties
       DEF TypeOK, SharedOK, ObjectsOK, ListenOK, ClientOK,
           AbortRemoves, ScheduleRemoval, objects, listen, locals
  <2> QED BY <2>a, <2>b, <2>c, <2>d DEF TypeOK
<1>11. CASE Synchronize
  <2>1. Append(tasks, "sync") \in Seq({"listen", "sync", "end"})
        /\ Append(tasks, "end") \in Seq({"listen", "sync", "end"})
    BY <1>t, AppendProperties
       DEF TypeOK, SharedOK, ObjectsOK, ListenOK, ClientOK
  <2>a. SharedOK'
    BY <1>t, <1>11, <2>1
       DEF TypeOK, SharedOK, Synchronize, Schedule, objects, listen, history, locals
  <2>b. ObjectsOK'
    BY <1>t, <1>11, <2>1
       DEF TypeOK, ObjectsOK, Synchronize, Schedule, objects, listen, history, locals
  <2>c. ListenOK'
    BY <1>t, <1>11, <2>1
       DEF TypeOK, ListenOK, Synchronize, Schedule, objects, listen, history, locals
  <2>d. ClientOK'
    BY <1>t, <1>11, <2>1
       DEF TypeOK, ClientOK, Synchronize, Schedule, objects, listen, history, locals
  <2> QED BY <2>a, <2>b, <2>c, <2>d DEF TypeOK
<1>12. CASE TakeTask
  <2>1. tasks # <<>> /\ Tail(tasks) \in Seq({"listen", "sync", "end"})
        /\ Head(tasks) \in {"listen", "sync", "end"}
    BY <1>t, <1>12, HeadTailProperties
       DEF TypeOK, SharedOK, ObjectsOK, ListenOK, ClientOK, TakeTask, locals
  <2>2. lpc' \in {lpc, "swap", "exited"} /\ epc' \in {epc, "aborted", "gone"}
    BY <1>12, <2>1 DEF TakeTask, ListenGoto, locals
  <2>a. SharedOK'
    BY <1>t, <1>12, <2>1, <2>2
       DEF TypeOK, SharedOK, TakeTask, Schedule, objects, history, locals
  <2>b. ObjectsOK'
    BY <1>t, <1>12, <2>1, <2>2
       DEF TypeOK, ObjectsOK, TakeTask, Schedule, objects, history, locals
  <2>c. ListenOK'
    BY <1>t, <1>12, <2>1, <2>2
       DEF TypeOK, ListenOK, TakeTask, Schedule, objects, history, locals
  <2>d. ClientOK'
    BY <1>t, <1>12, <2>1, <2>2
       DEF TypeOK, ClientOK, TakeTask, Schedule, objects, history, locals
  <2> QED BY <2>a, <2>b, <2>c, <2>d DEF TypeOK
<1>13. CASE Swap
  <2>a. SharedOK'
    BY <1>t, <1>13, NothingProperties
       DEF TypeOK, SharedOK, Swap, ListenGoto, objects, client, history
  <2>b. ObjectsOK'
    BY <1>t, <1>13, NothingProperties
       DEF TypeOK, ObjectsOK, Swap, ListenGoto, objects, client, history
  <2>c. ListenOK'
    BY <1>t, <1>13, NothingProperties
       DEF TypeOK, SharedOK, ObjectsOK, ListenOK, ClientOK,
           Swap, ListenGoto, objects, client, history
  <2>d. ClientOK'
    BY <1>t, <1>13, NothingProperties
       DEF TypeOK, ClientOK, Swap, ListenGoto, objects, client, history
  <2> QED BY <2>a, <2>b, <2>c, <2>d DEF TypeOK
<1>14. CASE Decide
  <2>a. SharedOK'
    BY <1>t, <1>14
       DEF TypeOK, SharedOK, Decide, ListenGoto, shared, objects, client,
           history
  <2>b. ObjectsOK'
    BY <1>t, <1>14
       DEF TypeOK, ObjectsOK, Decide, ListenGoto, shared, objects, client,
           history
  <2>c. ListenOK'
    BY <1>t, <1>14
       DEF TypeOK, ListenOK, Decide, ListenGoto, shared, objects, client,
           history
  <2>d. ClientOK'
    BY <1>t, <1>14
       DEF TypeOK, ClientOK, Decide, ListenGoto, shared, objects, client,
           history
  <2> QED BY <2>a, <2>b, <2>c, <2>d DEF TypeOK
<1>15. CASE Clear
  <2>a. SharedOK'
    BY <1>t, <1>15, HandOverProperties, NothingProperties
       DEF TypeOK, SharedOK, ObjectsOK, ListenOK, ClientOK,
           Clear, ListenGoto, Schedule, client, history
  <2>b. ObjectsOK'
    BY <1>t, <1>15, HandOverProperties, NothingProperties
       DEF TypeOK, SharedOK, ObjectsOK, ListenOK, ClientOK,
           Clear, ListenGoto, Schedule, client, history
  <2>c. ListenOK'
    BY <1>t, <1>15, HandOverProperties, NothingProperties
       DEF TypeOK, ListenOK, Clear, ListenGoto, Schedule, client, history
  <2>d. ClientOK'
    BY <1>t, <1>15, HandOverProperties, NothingProperties
       DEF TypeOK, ClientOK, Clear, ListenGoto, Schedule, client, history
  <2> QED BY <2>a, <2>b, <2>c, <2>d DEF TypeOK
<1>16. ASSUME NEW s \in Sources, AbortOne(s) PROVE TypeOK'
  <2>1. sourcesToRemove \in [Sources -> Nat] /\ sourcesToRemove[s] > 0
        /\ sourcesToRemove' = [sourcesToRemove EXCEPT ![s] = @ - 1]
    BY <1>t, <1>16 DEF TypeOK, SharedOK, ObjectsOK, ListenOK, ClientOK,
       AbortOne
  <2>2. sourcesToRemove' \in [Sources -> Nat]
    BY <2>1
  <2>3. m_linebuffer' \in [Sources -> Nat] /\ lines' \in [Sources -> Nat]
    BY <1>t, <1>16, HandOverProperties
       DEF TypeOK, SharedOK, ObjectsOK, ListenOK, ClientOK, AbortOne
  <2>a. SharedOK'
    BY <1>t, <1>16, <2>2, <2>3
       DEF TypeOK, SharedOK, AbortOne, ListenGoto, Schedule, client, history
  <2>b. ObjectsOK'
    BY <1>t, <1>16, <2>2, <2>3
       DEF TypeOK, ObjectsOK, AbortOne, ListenGoto, Schedule, client, history
  <2>c. ListenOK'
    BY <1>t, <1>16, <2>2, <2>3
       DEF TypeOK, ListenOK, AbortOne, ListenGoto, Schedule, client, history
  <2>d. ClientOK'
    BY <1>t, <1>16, <2>2, <2>3
       DEF TypeOK, ClientOK, AbortOne, ListenGoto, Schedule, client, history
  <2> QED BY <2>a, <2>b, <2>c, <2>d DEF TypeOK
<1>17. CASE EraseOne
  <2>a. SharedOK'
    BY <1>t, <1>17
       DEF TypeOK, SharedOK, EraseOne, ListenGoto, Schedule, client, history, Update
  <2>b. ObjectsOK'
    BY <1>t, <1>17
       DEF TypeOK, ObjectsOK, EraseOne, ListenGoto, Schedule, client, history, Update
  <2>c. ListenOK'
    BY <1>t, <1>17
       DEF TypeOK, ListenOK, EraseOne, ListenGoto, Schedule, client, history, Update
  <2>d. ClientOK'
    BY <1>t, <1>17
       DEF TypeOK, ClientOK, EraseOne, ListenGoto, Schedule, client, history, Update
  <2> QED BY <2>a, <2>b, <2>c, <2>d DEF TypeOK
<1>18. CASE AddAll
  <2>a. SharedOK'
    BY <1>t, <1>18
       DEF TypeOK, SharedOK, ObjectsOK, ListenOK, ClientOK,
           AddAll, ListenGoto, Schedule, objects, client,
           history, Update
  <2>b. ObjectsOK'
    BY <1>t, <1>18
       DEF TypeOK, ObjectsOK, AddAll, ListenGoto, Schedule, objects, client,
           history, Update
  <2>c. ListenOK'
    BY <1>t, <1>18
       DEF TypeOK, ListenOK, AddAll, ListenGoto, Schedule, objects, client,
           history, Update
  <2>d. ClientOK'
    BY <1>t, <1>18
       DEF TypeOK, ClientOK, AddAll, ListenGoto, Schedule, objects, client,
           history, Update
  <2> QED BY <2>a, <2>b, <2>c, <2>d DEF TypeOK
<1>19. CASE Snapshot
  <2>a. SharedOK'
    BY <1>t, <1>19
       DEF TypeOK, SharedOK, Snapshot, ListenGoto, shared, objects, client,
           history
  <2>b. ObjectsOK'
    BY <1>t, <1>19
       DEF TypeOK, ObjectsOK, Snapshot, ListenGoto, shared, objects, client,
           history
  <2>c. ListenOK'
    BY <1>t, <1>19
       DEF TypeOK, SharedOK, ObjectsOK, ListenOK, ClientOK,
           Snapshot, ListenGoto, shared, objects, client,
           history
  <2>d. ClientOK'
    BY <1>t, <1>19
       DEF TypeOK, ClientOK, Snapshot, ListenGoto, shared, objects, client,
           history
  <2> QED BY <2>a, <2>b, <2>c, <2>d DEF TypeOK
<1>20. CASE Loop
  <2>a. SharedOK'
    BY <1>t, <1>20
       DEF TypeOK, SharedOK, Loop, ListenGoto, shared, objects, client, history
  <2>b. ObjectsOK'
    BY <1>t, <1>20
       DEF TypeOK, ObjectsOK, Loop, ListenGoto, shared, objects, client,
           history
  <2>c. ListenOK'
    BY <1>t, <1>20
       DEF TypeOK, ListenOK, Loop, ListenGoto, shared, objects, client, history
  <2>d. ClientOK'
    BY <1>t, <1>20
       DEF TypeOK, ClientOK, Loop, ListenGoto, shared, objects, client, history
  <2> QED BY <2>a, <2>b, <2>c, <2>d DEF TypeOK
<1>21. CASE Wait
  <2>a. SharedOK'
    BY <1>t, <1>21
       DEF TypeOK, SharedOK, Wait, ListenGoto, Schedule, client, history
  <2>b. ObjectsOK'
    BY <1>t, <1>21
       DEF TypeOK, ObjectsOK, Wait, ListenGoto, Schedule, client, history
  <2>c. ListenOK'
    BY <1>t, <1>21
       DEF TypeOK, ListenOK, Wait, ListenGoto, Schedule, client, history
  <2>d. ClientOK'
    BY <1>t, <1>21
       DEF TypeOK, ClientOK, Wait, ListenGoto, Schedule, client, history
  <2> QED BY <2>a, <2>b, <2>c, <2>d DEF TypeOK
<1>22. CASE Woken
  <2>a. SharedOK'
    BY <1>t, <1>22
       DEF TypeOK, SharedOK, Woken, ListenGoto, shared, objects, client,
           history
  <2>b. ObjectsOK'
    BY <1>t, <1>22
       DEF TypeOK, ObjectsOK, Woken, ListenGoto, shared, objects, client,
           history
  <2>c. ListenOK'
    BY <1>t, <1>22
       DEF TypeOK, ListenOK, Woken, ListenGoto, shared, objects, client,
           history
  <2>d. ClientOK'
    BY <1>t, <1>22
       DEF TypeOK, ClientOK, Woken, ListenGoto, shared, objects, client,
           history
  <2> QED BY <2>a, <2>b, <2>c, <2>d DEF TypeOK
<1>23. CASE Notify
  <2>1. {woke} \subseteq Sources
    BY <1>t, <1>23 DEF TypeOK, SharedOK, ObjectsOK, ListenOK, ClientOK, Notify, Update
  <2>a. SharedOK'
    BY <1>t, <1>23, <2>1, HandOverProperties
       DEF TypeOK, SharedOK, ObjectsOK, ListenOK, ClientOK,
           Notify, ListenGoto, Schedule, client, history, Update
  <2>b. ObjectsOK'
    BY <1>t, <1>23, <2>1, HandOverProperties
       DEF TypeOK, SharedOK, ObjectsOK, ListenOK, ClientOK,
           Notify, ListenGoto, Schedule, client, history, Update
  <2>c. ListenOK'
    BY <1>t, <1>23, <2>1, HandOverProperties
       DEF TypeOK, ListenOK, Notify, ListenGoto, Schedule, client, history, Update
  <2>d. ClientOK'
    BY <1>t, <1>23, <2>1, HandOverProperties
       DEF TypeOK, ClientOK, Notify, ListenGoto, Schedule, client, history, Update
  <2> QED BY <2>a, <2>b, <2>c, <2>d DEF TypeOK
<1>24. CASE Reschedule
  <2>1. Append(tasks, "listen") \in Seq({"listen", "sync", "end"})
    BY <1>t, AppendProperties DEF TypeOK, SharedOK
  <2>2. lpc' \in {"idle", "post"} /\ tasks' \in {tasks, Append(tasks, "listen")}
    BY <1>24 DEF Reschedule, ListenGoto
  <2>a. SharedOK'
    BY <1>t, <1>24, <2>1, <2>2 DEF TypeOK, SharedOK, Reschedule, Schedule
  <2>b. ObjectsOK'
    BY <1>t, <1>24 DEF TypeOK, ObjectsOK, Reschedule, objects
  <2>c. ListenOK'
    BY <1>t, <1>24, <2>2 DEF TypeOK, ListenOK, Reschedule
  <2>d. ClientOK'
    BY <1>t, <1>24 DEF TypeOK, ClientOK, Reschedule, client, history
  <2> QED BY <2>a, <2>b, <2>c, <2>d DEF TypeOK
<1>25. CASE UNCHANGED vars
  <2>1. UNCHANGED <<m_sources, Schedule, m_updateEvent, m_end, m_linebuffer,
                    tasks, update, alive, atEnd, lines, made, polling, signaled,
                    listen, client, history>>
    BY <1>25 DEF vars, shared, objects, Schedule
  <2>a. SharedOK'
    BY <1>t, <2>1 DEF TypeOK, SharedOK, Schedule, listen, client, history
  <2>b. ObjectsOK'
    BY <1>t, <2>1 DEF TypeOK, ObjectsOK, Schedule, listen, client, history
  <2>c. ListenOK'
    BY <1>t, <2>1 DEF TypeOK, ListenOK, Schedule, listen, client, history
  <2>d. ClientOK'
    BY <1>t, <2>1 DEF TypeOK, ClientOK, Schedule, listen, client, history
  <2> QED BY <2>a, <2>b, <2>c, <2>d DEF TypeOK
<1>26. ASSUME NEW s \in Sources, Signal(s) PROVE TypeOK'
  <2>a. SharedOK'
    BY <1>t, <1>26
       DEF TypeOK, SharedOK, Signal, Update, Schedule, listen, client
  <2>b. ObjectsOK'
    BY <1>t, <1>26
       DEF TypeOK, ObjectsOK, Signal, Update, Schedule, listen, client
  <2>c. ListenOK'
    BY <1>t, <1>26
       DEF TypeOK, ListenOK, Signal, Update, Schedule, listen, client
  <2>d. ClientOK'
    BY <1>t, <1>26
       DEF TypeOK, ClientOK, Signal, Update, Schedule, listen, client
  <2> QED BY <2>a, <2>b, <2>c, <2>d DEF TypeOK
<1>27. ASSUME NEW s \in Sources, IsRemoved(s) PROVE TypeOK'
  <2>1. batch' \in [Sources -> Nat]
    <3>1. batch \in [Sources -> Nat] /\ batch[s] > 0
          /\ batch' = [batch EXCEPT ![s] = @ - 1]
      BY <1>t, <1>27 DEF TypeOK, ClientOK, IsRemoved
    <3> QED BY <3>1
  <2>a. SharedOK'
    BY <1>t, <1>27, <2>1
       DEF TypeOK, SharedOK, IsRemoved, shared, objects, listen
  <2>b. ObjectsOK'
    BY <1>t, <1>27, <2>1
       DEF TypeOK, ObjectsOK, IsRemoved, shared, objects, listen
  <2>c. ListenOK'
    BY <1>t, <1>27, <2>1
       DEF TypeOK, ListenOK, IsRemoved, shared, objects, listen
  <2>d. ClientOK'
    BY <1>t, <1>27, <2>1
       DEF TypeOK, ClientOK, IsRemoved, shared, objects, listen
  <2> QED BY <2>a, <2>b, <2>c, <2>d DEF TypeOK
<1>28. CASE PreProcess
  <2>1. delivered' \in [Sources -> Nat]
    <3>1. delivered \in [Sources -> Nat]
          /\ delivered' = [delivered EXCEPT ![checked] = @ + 1]
      BY <1>t, <1>28 DEF TypeOK, ClientOK, PreProcess
    <3>2. \A x \in Sources : delivered[x] + 1 \in Nat
      BY <3>1
    <3> QED BY <3>1, <3>2
  <2>a. SharedOK'
    BY <1>t, <1>28, <2>1
       DEF TypeOK, SharedOK, PreProcess, shared, objects, listen
  <2>b. ObjectsOK'
    BY <1>t, <1>28, <2>1
       DEF TypeOK, ObjectsOK, PreProcess, shared, objects, listen
  <2>c. ListenOK'
    BY <1>t, <1>28, <2>1
       DEF TypeOK, ListenOK, PreProcess, shared, objects, listen
  <2>d. ClientOK'
    BY <1>t, <1>28, <2>1
       DEF TypeOK, ClientOK, PreProcess, shared, objects, listen
  <2> QED BY <2>a, <2>b, <2>c, <2>d DEF TypeOK
<1>29. CASE ReturnLines
  <2>a. SharedOK'
    BY <1>t, <1>29
       DEF TypeOK, SharedOK, ReturnLines, shared, objects, listen, locals, history
  <2>b. ObjectsOK'
    BY <1>t, <1>29
       DEF TypeOK, ObjectsOK, ReturnLines, shared, objects, listen, locals, history
  <2>c. ListenOK'
    BY <1>t, <1>29
       DEF TypeOK, ListenOK, ReturnLines, shared, objects, listen, locals, history
  <2>d. ClientOK'
    BY <1>t, <1>29
       DEF TypeOK, ClientOK, ReturnLines, shared, objects, listen, locals, history
  <2> QED BY <2>a, <2>b, <2>c, <2>d DEF TypeOK
<1> QED
  BY <1>1, <1>2, <1>3, <1>4, <1>5, <1>6, <1>7, <1>8, <1>9, <1>10, <1>11, <1>12,
     <1>13, <1>14, <1>15, <1>16, <1>17, <1>18, <1>19, <1>20, <1>21, <1>22,
     <1>23, <1>24, <1>25, <1>26, <1>27, <1>28, <1>29 DEF Next, ListenThread, Abort, Lines

(* Every variable of LogSources holds what its declaration says. *)
THEOREM TypeCorrect == Spec => []TypeOK
  BY TypeInit, TypeStep, PTL DEF Spec

------------------------------------------------------------------------------
LEMMA NoLostUpdateStep == NoLostUpdate /\ [Next]_vars => NoLostUpdate'
<1> SUFFICES ASSUME NoLostUpdate, [Next]_vars PROVE NoLostUpdate'
  OBVIOUS
<1>i. NoLostUpdate
  OBVIOUS
<1>1. ASSUME NEW s \in Sources, Poll(s) PROVE NoLostUpdate'
  <2>1. UNCHANGED <<Schedule, m_updateEvent, listen, client>>
    BY <1>1 DEF Poll
  <2> QED BY <1>i, <2>1
     DEF Schedule, listen, client, NoLostUpdate, ScheduledWork, PastSwap, InGetLines
<1>2. ASSUME NEW s \in Sources, End(s) PROVE NoLostUpdate'
  BY <1>i, <1>2
     DEF End, shared, listen, client, history, NoLostUpdate, ScheduledWork,
         PastSwap, InGetLines
<1>3. ASSUME NEW s \in Sources, Add(s) PROVE NoLostUpdate'
  BY <1>i, <1>3
     DEF Add, listen, history, NoLostUpdate, ScheduledWork, PastSwap,
         locals, InGetLines
<1>4. ASSUME NEW s \in Sources, Remove(s) PROVE NoLostUpdate'
  BY <1>i, <1>4
     DEF Remove, objects, listen, NoLostUpdate, ScheduledWork, PastSwap,
         locals, InGetLines
<1>5. CASE RemoveSources
  BY <1>i, <1>5
     DEF RemoveSources, ScheduleRemoval, objects, listen, NoLostUpdate,
         ScheduledWork, PastSwap, locals, InGetLines
<1>6. CASE SetEvent
  BY <1>i, <1>6
     DEF SetEvent, Schedule, objects, listen, history, NoLostUpdate,
         ScheduledWork, PastSwap, locals, InGetLines
<1>7. CASE GetLines
  BY <1>i, <1>7
     DEF GetLines, Schedule, objects, listen, NoLostUpdate, ScheduledWork,
         PastSwap, InGetLines
<1>8. CASE BeginAbort
  BY <1>i, <1>8
     DEF BeginAbort, Schedule, objects, listen, history, NoLostUpdate,
         ScheduledWork, PastSwap, locals, InGetLines
<1>9. CASE AbortSources
  BY <1>i, <1>9
     DEF AbortSources, Schedule, listen, history, NoLostUpdate,
         ScheduledWork, PastSwap, locals, InGetLines
<1>10. CASE AbortRemoves
  BY <1>i, <1>10
     DEF AbortRemoves, ScheduleRemoval, objects, listen, NoLostUpdate,
         ScheduledWork, PastSwap, locals, InGetLines
<1>11. CASE Synchronize
  BY <1>i, <1>11
     DEF Synchronize, Schedule, objects, listen, history, NoLostUpdate,
         ScheduledWork, PastSwap, locals, InGetLines
<1>12. CASE TakeTask
  BY <1>i, <1>12
     DEF TakeTask, ListenAt, ListenGoto, Schedule, objects, history,
         NoLostUpdate, ScheduledWork, PastSwap, locals, InGetLines
<1>13. CASE Swap
  BY <1>i, <1>13
     DEF Swap, ListenAt, ListenGoto, objects, client, history, NoLostUpdate,
         ScheduledWork, PastSwap, InGetLines
<1>14. CASE Decide
  BY <1>i, <1>14
     DEF Decide, ListenAt, ListenGoto, shared, objects, client, history,
         NoLostUpdate, ScheduledWork, PastSwap, InGetLines
<1>15. CASE Clear
  BY <1>i, <1>15
     DEF Clear, ListenAt, ListenGoto, Schedule, client, history,
         NoLostUpdate, ScheduledWork, PastSwap, InGetLines
<1>16. ASSUME NEW s \in Sources, AbortOne(s) PROVE NoLostUpdate'
  BY <1>i, <1>16
     DEF AbortOne, ListenAt, ListenGoto, Schedule, client, history,
         NoLostUpdate, ScheduledWork, PastSwap, InGetLines
<1>17. CASE EraseOne
  BY <1>i, <1>17
     DEF EraseOne, ListenAt, ListenGoto, Schedule, client, history,
         NoLostUpdate, ScheduledWork, PastSwap, Update, InGetLines
<1>18. CASE AddAll
  BY <1>i, <1>18
     DEF AddAll, ListenAt, ListenGoto, Schedule, objects, client, history,
         NoLostUpdate, ScheduledWork, PastSwap, Update, InGetLines
<1>19. CASE Snapshot
  BY <1>i, <1>19
     DEF Snapshot, ListenAt, ListenGoto, shared, objects, client, history,
         NoLostUpdate, ScheduledWork, PastSwap, InGetLines
<1>20. CASE Loop
  BY <1>i, <1>20
     DEF Loop, ListenAt, ListenGoto, shared, objects, client, history,
         NoLostUpdate, ScheduledWork, PastSwap, InGetLines
<1>21. CASE Wait
  BY <1>i, <1>21
     DEF Wait, ListenAt, ListenGoto, Schedule, client, history, NoLostUpdate,
         ScheduledWork, PastSwap, InGetLines
<1>22. CASE Woken
  BY <1>i, <1>22
     DEF Woken, ListenAt, ListenGoto, shared, objects, client, history,
         NoLostUpdate, ScheduledWork, PastSwap, InGetLines
<1>23. CASE Notify
  BY <1>i, <1>23
     DEF Notify, ListenAt, ListenGoto, Schedule, client, history,
         NoLostUpdate, ScheduledWork, PastSwap, Update, InGetLines
<1>24. CASE Reschedule
  BY <1>i, <1>24
     DEF Reschedule, ListenAt, ListenGoto, Schedule, objects, client,
         history, NoLostUpdate, ScheduledWork, PastSwap, InGetLines
<1>25. CASE UNCHANGED vars
  BY <1>i, <1>25
     DEF vars, shared, objects, listen, client, history, NoLostUpdate,
         ScheduledWork, PastSwap, InGetLines
<1>26. ASSUME NEW s \in Sources, Signal(s) PROVE NoLostUpdate'
  BY <1>i, <1>26
     DEF Signal, Schedule, listen, client, NoLostUpdate, ScheduledWork,
         PastSwap, InGetLines
<1>27. ASSUME NEW s \in Sources, IsRemoved(s) PROVE NoLostUpdate'
  BY <1>i, <1>27
     DEF IsRemoved, shared, objects, listen, NoLostUpdate, ScheduledWork,
         PastSwap, InGetLines
<1>28. CASE PreProcess
  BY <1>i, <1>28
     DEF PreProcess, shared, objects, listen, NoLostUpdate, ScheduledWork,
         PastSwap, InGetLines
<1>29. CASE ReturnLines
  BY <1>i, <1>29
     DEF ReturnLines, shared, objects, listen, NoLostUpdate, ScheduledWork,
         PastSwap, InGetLines
<1> QED
  BY <1>1, <1>2, <1>3, <1>4, <1>5, <1>6, <1>7, <1>8, <1>9, <1>10, <1>11,
     <1>12, <1>13, <1>14, <1>15, <1>16, <1>17, <1>18, <1>19, <1>20, <1>21,
     <1>22, <1>23, <1>24, <1>25, <1>26, <1>27, <1>28, <1>29
     DEF Next, ListenThread, Abort, Lines

(* An update that a client has scheduled before its call returned is never lost
   to the listen thread: its event is set when the thread goes to wait. *)
THEOREM UpdateIsNeverLost == Spec => []NoLostUpdate
<1>1. Init => NoLostUpdate
  BY DEF Init, NoLostUpdate, ScheduledWork, InGetLines
<1>2. NoLostUpdate /\ [Next]_vars => NoLostUpdate'
  BY NoLostUpdateStep
<1> QED BY <1>1, <1>2, PTL DEF Spec

\* DropInv and PointerInv are inductive.
LEMMA TailOfListens ==
  ASSUME NEW q \in Seq({"listen", "sync", "end"}), q # <<>>,
         \A i \in DOMAIN q : q[i] = "listen"
  PROVE  Head(q) = "listen" /\ \A i \in DOMAIN Tail(q) : Tail(q)[i] = "listen"
<1>1. /\ Len(q) \in Nat \ {0} /\ DOMAIN q = 1 .. Len(q)
      /\ Tail(q) \in Seq({"listen", "sync", "end"}) /\ Len(Tail(q)) = Len(q) - 1
      /\ \A i \in 1 .. Len(Tail(q)) : Tail(q)[i] = q[i + 1]
      /\ Head(q) = q[1] /\ DOMAIN Tail(q) = 1 .. Len(Tail(q))
  BY HeadTailProperties, LenProperties, EmptySeq
<1> QED BY <1>1

LEMMA AppendListen ==
  ASSUME NEW q \in Seq({"listen", "sync", "end"}),
         \A i \in DOMAIN q : q[i] = "listen"
  PROVE  \A i \in DOMAIN Append(q, "listen") : Append(q, "listen")[i] = "listen"
<1>1. /\ Len(q) \in Nat /\ DOMAIN q = 1 .. Len(q)
      /\ Append(q, "listen") \in Seq({"listen", "sync", "end"})
      /\ Len(Append(q, "listen")) = Len(q) + 1
      /\ \A i \in 1 .. Len(q) : Append(q, "listen")[i] = q[i]
      /\ Append(q, "listen")[Len(q) + 1] = "listen"
  BY AppendProperties, LenProperties
<1>2. DOMAIN Append(q, "listen") = 1 .. Len(q) + 1
  BY <1>1, LenProperties
<1> QED BY <1>1, <1>2

LEMMA DropInit == Init => DropInv
<1> SUFFICES ASSUME Init PROVE DropInv
  OBVIOUS
<1>1. DOMAIN tasks = {1} /\ tasks[1] = "listen"
  BY DEF Init
<1> QED
  BY <1>1, NothingProperties DEF Init, DropInv, Pointed, DroppedMeansRemoved

LEMMA DropStep ==
  TypeOK /\ DropInv /\ [Next]_vars => DropInv'
<1> SUFFICES ASSUME TypeOK, DropInv, [Next]_vars PROVE DropInv'
  OBVIOUS
<1>i. DropInv
  OBVIOUS
<1>t. /\ m_sources \subseteq Sources
      /\ m_sourcesScheduledToRemove \in [Sources -> Nat]
      /\ sourcesToRemove \in [Sources -> Nat]
      /\ m_linebuffer \in [Sources -> Nat] /\ lines \in [Sources -> Nat]
      /\ removing \in Sources \cup {NoSource} /\ waited \subseteq Sources
      /\ tasks \in Seq({"listen", "sync", "end"})
      /\ m_sources' \subseteq Sources /\ alive \subseteq Sources
      /\ m_sourcesScheduledToRemove' \in [Sources -> Nat]
      /\ sourcesToRemove' \in [Sources -> Nat]
      /\ m_linebuffer' \in [Sources -> Nat]
      /\ sourcesToAdd \subseteq Sources /\ m_sourcesScheduleToAdd \subseteq Sources
      /\ pointers \subseteq Sources /\ m_end \in BOOLEAN
      /\ batch \in [Sources -> Nat]
  BY TypeStep DEF TypeOK, SharedOK, ObjectsOK, ListenOK, ClientOK
<1>1. ASSUME NEW s \in Sources, Poll(s) PROVE DropInv'
  <2>1. PICK n \in {0, 1} :
          IF s \in FileSources
          THEN m_linebuffer' = [m_linebuffer EXCEPT ![s] = @ + n]
          ELSE UNCHANGED m_linebuffer
    BY <1>1 DEF Poll
  <2>2. \A x \in Sources : m_linebuffer'[x] > 0 =>
          m_linebuffer[x] > 0 \/ x \in FileSources
    BY <1>t, <2>1
  <2>3. Pointed(m_linebuffer)' \subseteq Pointed(m_linebuffer) \cup FileSources
    BY <2>2 DEF Pointed
  <2>4. UNCHANGED <<m_sources, Schedule, m_end, tasks, listen, client, history>>
    BY <1>1 DEF Poll
  <2> QED BY <1>t, <1>i, <2>3, <2>4
     DEF Schedule, listen, client, history, DropInv, Pointed,
         DroppedMeansRemoved, InGetLines
<1>2. ASSUME NEW s \in Sources, End(s) PROVE DropInv'
  BY <1>t, <1>i, <1>2
     DEF End, shared, listen, client, history, DropInv, Pointed,
         DroppedMeansRemoved, InGetLines
<1>3. ASSUME NEW s \in Sources, Add(s) PROVE DropInv'
  BY <1>t, <1>i, <1>3
     DEF Add, listen, history, DropInv, Pointed, DroppedMeansRemoved, InGetLines, locals
<1>4. ASSUME NEW s \in Sources, Remove(s) PROVE DropInv'
  <2>1. m_sourcesScheduledToRemove' \in
          {Plus(m_sourcesScheduledToRemove, {s}), m_sourcesScheduledToRemove}
    BY <1>4 DEF Remove, locals
  <2>2. \A x \in Sources :
          m_sourcesScheduledToRemove'[x] > 0 =>
            x = s \/ m_sourcesScheduledToRemove[x] > 0
    BY <1>t, <2>1, PointedPlus, {s} \in SUBSET Sources
  <2> QED BY <1>t, <1>i, <1>4, <2>2
     DEF Remove, objects, listen, DropInv, Pointed, DroppedMeansRemoved, InGetLines, locals
<1>5. CASE RemoveSources
  <2>1. PICK spared \in SUBSET pointers : ScheduleRemoval(m_sources \ spared)
    BY <1>5 DEF RemoveSources, locals
  <2>2. \A x \in Sources :
          m_sourcesScheduledToRemove'[x] > 0 =>
            x \in m_sources \ spared \/ m_sourcesScheduledToRemove[x] > 0
    BY <1>t, <2>1, PointedPlus, m_sources \ spared \in SUBSET Sources
       DEF ScheduleRemoval
  <2>3. removed' = removed \cup (m_sources \ spared)
    BY <2>1 DEF ScheduleRemoval
  <2> QED BY <1>t, <1>i, <1>5, <2>2, <2>3
     DEF RemoveSources, objects, listen, DropInv, Pointed, DroppedMeansRemoved, InGetLines,
         locals
<1>6. CASE SetEvent
  BY <1>t, <1>i, <1>6
     DEF SetEvent, Schedule, objects, listen, history, DropInv, Pointed,
         DroppedMeansRemoved, InGetLines, locals
<1>7. CASE GetLines
  <2>1. ~m_end
    BY <1>i, <1>7 DEF DropInv, GetLines
  <2>2. \A x \in Sources : m_linebuffer'[x] = 0
    BY <1>7, NothingProperties DEF GetLines
  <2> QED BY <1>t, <1>i, <1>7, <2>1, <2>2
     DEF GetLines, Schedule, objects, listen, history, DropInv, Pointed,
         DroppedMeansRemoved, InGetLines
<1>8. CASE BeginAbort
  BY <1>t, <1>i, <1>8
     DEF BeginAbort, Schedule, objects, listen, history, DropInv, Pointed,
         DroppedMeansRemoved, InGetLines, locals
<1>9. CASE AbortSources
  BY <1>t, <1>i, <1>9
     DEF AbortSources, Schedule, listen, history, DropInv, Pointed,
         DroppedMeansRemoved, InGetLines, locals
<1>10. CASE AbortRemoves
  <2>1. \A x \in Sources :
          m_sourcesScheduledToRemove'[x] > 0 =>
            x \in m_sources \/ m_sourcesScheduledToRemove[x] > 0
    BY <1>t, <1>10, PointedPlus DEF AbortRemoves, ScheduleRemoval, locals
  <2> QED BY <1>t, <1>i, <1>10, <2>1
     DEF AbortRemoves, ScheduleRemoval, objects, listen, DropInv, Pointed,
         DroppedMeansRemoved, InGetLines, locals
<1>11. CASE Synchronize
  BY <1>t, <1>i, <1>11
     DEF Synchronize, Schedule, objects, listen, history, DropInv, Pointed,
         DroppedMeansRemoved, InGetLines, locals
<1>12. CASE TakeTask
  <2>1. tasks # <<>> /\ tasks' = Tail(tasks) /\ lpc = "idle"
        /\ Head(tasks) \in {"listen", "sync", "end"}
    BY <1>t, <1>12, HeadTailProperties DEF TakeTask, ListenAt
  <2>2. ~m_end => Head(tasks) = "listen"
                  /\ \A i \in DOMAIN tasks' : tasks'[i] = "listen"
    BY <1>t, <1>i, <2>1, TailOfListens DEF DropInv
  <2>3. CASE Head(tasks) = "listen"
    <3>1. epc' = epc /\ lpc' = "swap"
      BY <1>12, <2>3 DEF TakeTask, ListenGoto
    <3> QED BY <1>i, <1>12, <2>1, <2>2, <3>1
       DEF TakeTask, Schedule, history, DropInv, Pointed, DroppedMeansRemoved,
           InGetLines, locals
  <2>4. CASE Head(tasks) # "listen"
    <3>1. m_end /\ epc' \in {"aborted", "gone"} /\ lpc' \in {"idle", "exited"}
      BY <1>t, <1>12, <2>1, <2>2, <2>4 DEF TakeTask, ListenGoto
    <3>2. batch = Nothing
      BY <1>i, <3>1 DEF DropInv, InGetLines
    <3> QED BY <1>i, <1>12, <3>1, <3>2
       DEF TakeTask, Schedule, history, DropInv, Pointed, DroppedMeansRemoved,
           InGetLines, locals
  <2> QED BY <2>3, <2>4
<1>13. CASE Swap
  <2>1. sourcesToRemove' = m_sourcesScheduledToRemove
        /\ m_sourcesScheduledToRemove' = Nothing /\ lpc' = "decide"
    BY <1>13 DEF Swap, ListenGoto
  <2>2. Pointed(sourcesToRemove)' \subseteq removed
        /\ Pointed(m_sourcesScheduledToRemove)' = {}
    <3>1. Pointed(m_sourcesScheduledToRemove) \subseteq removed
      BY <1>i DEF DropInv
    <3>2. Pointed(Nothing) = {}
      BY NothingProperties DEF Pointed
    <3>3. Pointed(sourcesToRemove)' = Pointed(m_sourcesScheduledToRemove)
          /\ Pointed(m_sourcesScheduledToRemove)' = Pointed(Nothing)
      BY <2>1 DEF Pointed
    <3> QED BY <3>1, <3>2, <3>3
  <2>3. UNCHANGED <<m_sources, m_end, m_linebuffer, tasks, removing, waited, woke,
                    epc, batch, dropped, removed>>
    BY <1>13 DEF Swap, client, history
  <2> QED BY <1>i, <2>1, <2>2, <2>3
     DEF DropInv, Pointed, DroppedMeansRemoved, InGetLines
<1>14. CASE Decide
  BY <1>t, <1>i, <1>14
     DEF Decide, ListenAt, ListenGoto, shared, objects, client, history,
         DropInv, Pointed, DroppedMeansRemoved, InGetLines
<1>15. CASE Clear
  <2>1. m_end /\ m_end' = m_end /\ lpc' = "snapshot" /\ sourcesToRemove' = Nothing
        /\ UNCHANGED <<m_sourcesScheduledToRemove, tasks, removing, epc, batch,
                       dropped, removed>>
    BY <1>15 DEF Clear, ListenGoto, Schedule, client, history
  <2>2. batch = Nothing
    BY <1>i, <2>1 DEF DropInv, InGetLines
  <2>3. Pointed(batch)' = {} /\ Pointed(sourcesToRemove)' = {}
    BY <2>1, <2>2, NothingProperties DEF Pointed
  <2> QED BY <1>i, <2>1, <2>2, <2>3
     DEF DropInv, Pointed, DroppedMeansRemoved, InGetLines
<1>16. ASSUME NEW s \in Sources, AbortOne(s) PROVE DropInv'
  <2>1. s \in removed
    BY <1>i, <1>16 DEF DropInv, AbortOne, Pointed
  <2>2. Pointed(m_linebuffer)' \subseteq Pointed(m_linebuffer) \cup {s}
    BY <1>t, <1>16, HandOverProperties, {s} \in SUBSET Sources DEF AbortOne
  <2>3. \A x \in Sources : sourcesToRemove'[x] > 0 => sourcesToRemove[x] > 0
    BY <1>t, <1>16 DEF AbortOne
  <2>4. Pointed(sourcesToRemove)' \subseteq Pointed(sourcesToRemove)
    BY <2>3 DEF Pointed
  <2>5. Pointed(m_sourcesScheduledToRemove)' = Pointed(m_sourcesScheduledToRemove)
    BY <1>16 DEF AbortOne, Schedule, Pointed
  <2> QED BY <1>t, <1>i, <1>16, <2>1, <2>2, <2>4, <2>5
     DEF AbortOne, ListenAt, ListenGoto, Schedule, client, history, DropInv,
         DroppedMeansRemoved, InGetLines
<1>17. CASE EraseOne
  BY <1>t, <1>i, <1>17, Constants
     DEF EraseOne, ListenAt, ListenGoto, Schedule, client, history, DropInv,
         Pointed, DroppedMeansRemoved, InGetLines, Update
<1>18. CASE AddAll
  BY <1>t, <1>i, <1>18
     DEF AddAll, ListenAt, ListenGoto, Schedule, objects, client, history,
         DropInv, Pointed, DroppedMeansRemoved, InGetLines, Update
<1>19. CASE Snapshot
  BY <1>t, <1>i, <1>19
     DEF Snapshot, ListenAt, ListenGoto, shared, objects, client, history,
         DropInv, Pointed, DroppedMeansRemoved, InGetLines
<1>20. CASE Loop
  BY <1>t, <1>i, <1>20
     DEF Loop, ListenAt, ListenGoto, shared, objects, client, history,
         DropInv, Pointed, DroppedMeansRemoved, InGetLines
<1>21. CASE Wait
  BY <1>t, <1>i, <1>21
     DEF Wait, ListenAt, ListenGoto, Schedule, client, history, DropInv,
         Pointed, DroppedMeansRemoved, InGetLines
<1>22. CASE Woken
  BY <1>t, <1>i, <1>22
     DEF Woken, ListenAt, ListenGoto, shared, objects, client, history,
         DropInv, Pointed, DroppedMeansRemoved, InGetLines
<1>23. CASE Notify
  <2>1. woke \in m_sources /\ woke \in Sources
    BY <1>t, <1>i, <1>23 DEF DropInv, Notify, ListenAt, Update
  <2>2. Pointed(m_linebuffer)' \subseteq Pointed(m_linebuffer) \cup {woke}
    BY <1>t, <1>23, <2>1, HandOverProperties,
       {woke} \in SUBSET Sources DEF Notify, Update
  <2>3. Pointed(m_sourcesScheduledToRemove)' = Pointed(m_sourcesScheduledToRemove)
        /\ Pointed(sourcesToRemove)' = Pointed(sourcesToRemove)
    BY <1>23 DEF Notify, Schedule, Pointed, Update
  <2> QED BY <1>t, <1>i, <1>23, <2>1, <2>2, <2>3
     DEF Notify, ListenAt, ListenGoto, Schedule, client, history, DropInv,
         DroppedMeansRemoved, InGetLines, Update
<1>24. CASE Reschedule
  <2>1. ~m_end => \A i \in DOMAIN tasks' : tasks'[i] = "listen"
    BY <1>t, <1>i, <1>24, AppendListen DEF DropInv, Reschedule
  <2> QED BY <1>t, <1>i, <1>24, <2>1
     DEF Reschedule, ListenAt, ListenGoto, Schedule, objects, client, history,
         DropInv, Pointed, DroppedMeansRemoved, InGetLines
<1>25. CASE UNCHANGED vars
  BY <1>t, <1>i, <1>25
     DEF vars, shared, objects, listen, client, history, DropInv, Pointed,
         DroppedMeansRemoved, InGetLines
<1>26. ASSUME NEW s \in Sources, Signal(s) PROVE DropInv'
  BY <1>t, <1>i, <1>26
     DEF Signal, Schedule, listen, client, DropInv, Pointed,
         DroppedMeansRemoved, InGetLines
<1>27. ASSUME NEW s \in Sources, IsRemoved(s) PROVE DropInv'
  <2>1. \A x \in Sources : batch'[x] > 0 => batch[x] > 0
    BY <1>t, <1>27 DEF IsRemoved
  <2>2. Pointed(batch)' \subseteq Pointed(batch)
    BY <2>1 DEF Pointed
  <2>3. s \in Pointed(batch)
    BY <1>27 DEF IsRemoved, Pointed
  <2>4. s \notin m_sources => s \in removed \cup FileSources
    BY <1>i, <2>3 DEF DropInv
  <2>5. dropped' \subseteq removed \cup FileSources
    <3>1. dropped \subseteq removed \cup FileSources
      BY <1>i DEF DropInv, DroppedMeansRemoved
    <3>2. \/ dropped' = dropped
          \/ s \notin m_sources /\ dropped' = dropped \cup {s}
      BY <1>27 DEF IsRemoved
    <3> QED BY <2>4, <3>1, <3>2
  <2>6. UNCHANGED <<shared, objects, listen, removed>> /\ InGetLines
        /\ epc' \in {"get lines", "preprocess"}
    BY <1>27 DEF IsRemoved, InGetLines
  <2> QED BY <1>i, <2>2, <2>5, <2>6
     DEF shared, listen, DropInv, Pointed, DroppedMeansRemoved, InGetLines
<1>28. CASE PreProcess
  BY <1>t, <1>i, <1>28
     DEF PreProcess, shared, objects, listen, DropInv, Pointed,
         DroppedMeansRemoved, InGetLines
<1>29. CASE ReturnLines
  BY <1>t, <1>i, <1>29
     DEF ReturnLines, shared, objects, listen, locals, history, DropInv, Pointed,
         DroppedMeansRemoved, InGetLines
<1> QED
  BY <1>1, <1>2, <1>3, <1>4, <1>5, <1>6, <1>7, <1>8, <1>9, <1>10, <1>11,
     <1>12, <1>13, <1>14, <1>15, <1>16, <1>17, <1>18, <1>19, <1>20, <1>21,
     <1>22, <1>23, <1>24, <1>25, <1>26, <1>27, <1>28, <1>29
     DEF Next, ListenThread, Abort, Lines

(* GetLines ignores lines of a polled source only if somebody asked to remove
   the source. *)
THEOREM OnlyRemovedSourcesAreIgnored ==
  Spec => []DroppedMeansRemoved
<1>1. TypeOK /\ DropInv /\ [Next]_vars => DropInv'
  BY DropStep
<1>2. DropInv => DroppedMeansRemoved
  BY DEF DropInv
<1> QED BY <1>1, <1>2, TypeInit, TypeStep, DropInit, PTL DEF Spec

------------------------------------------------------------------------------
LEMMA PointerInit == Init => PointerInv
  BY NothingProperties DEF Init, PointerInv, OnePointer

LEMMA PointerStep ==
  ASSUME ~ByPredicate
  PROVE  TypeOK /\ PointerInv /\ [Next]_vars => PointerInv'
<1> SUFFICES ASSUME TypeOK, PointerInv, [Next]_vars PROVE PointerInv'
  OBVIOUS
<1>i. PointerInv
  OBVIOUS
<1>t. /\ m_sources \subseteq Sources
      /\ m_sourcesScheduledToRemove \in [Sources -> Nat]
      /\ sourcesToRemove \in [Sources -> Nat]
      /\ m_linebuffer \in [Sources -> Nat] /\ lines \in [Sources -> Nat]
      /\ removing \in Sources \cup {NoSource} /\ waited \subseteq Sources
      /\ tasks \in Seq({"listen", "sync", "end"})
      /\ m_sources' \subseteq Sources /\ alive \subseteq Sources
      /\ m_sourcesScheduledToRemove' \in [Sources -> Nat]
      /\ sourcesToRemove' \in [Sources -> Nat]
      /\ m_linebuffer' \in [Sources -> Nat]
      /\ sourcesToAdd \subseteq Sources /\ m_sourcesScheduleToAdd \subseteq Sources
      /\ pointers \subseteq Sources /\ m_end \in BOOLEAN
  BY TypeStep DEF TypeOK, SharedOK, ObjectsOK, ListenOK, ClientOK
<1>1. ASSUME NEW s \in Sources, Poll(s) PROVE PointerInv'
  <2>1. UNCHANGED <<m_sources, Schedule, m_end, alive, listen, client>>
    BY <1>1 DEF Poll
  <2> QED BY <1>i, <2>1
     DEF Schedule, listen, client, PointerInv, OnePointer, Removing
<1>2. ASSUME NEW s \in Sources, End(s) PROVE PointerInv'
  BY <1>t, <1>i, <1>2
     DEF End, shared, listen, client, history, PointerInv, OnePointer, Removing
<1>3. ASSUME NEW s \in Sources, Add(s) PROVE PointerInv'
  <2>1. s \notin alive /\ pointers' = pointers \cup {s} /\ alive' = alive \cup {s}
        /\ m_end' = m_end /\ lpc' = lpc /\ removing' = removing
        /\ m_sourcesScheduledToRemove' = m_sourcesScheduledToRemove
        /\ sourcesToRemove' = sourcesToRemove
    BY <1>3 DEF Add, listen, locals
  <2>2. removing # s
    BY <1>t, <1>i, <2>1, Constants DEF PointerInv, Removing
  <2>3. ~m_end => m_sourcesScheduledToRemove[s] = 0 /\ sourcesToRemove[s] = 0
    <3>1. m_sourcesScheduledToRemove[s] \in Nat /\ sourcesToRemove[s] \in Nat
      BY <1>t
    <3>2. ~m_end => OnePointer(s)
      BY <1>i DEF PointerInv
    <3> QED BY <2>1, <3>1, <3>2 DEF OnePointer
  <2>4. ~m_end => \A x \in Sources : OnePointer(x)'
    <3> SUFFICES ASSUME ~m_end, NEW x \in Sources PROVE OnePointer(x)'
      OBVIOUS
    <3>1. OnePointer(x)
      BY <1>i DEF PointerInv
    <3> QED BY <2>1, <2>2, <2>3, <3>1 DEF OnePointer
  <2>5. lpc \in {"remove", "erase"} => \A x \in Sources : Removing(x)'
    BY <1>i, <2>1 DEF PointerInv, Removing
  <2> QED BY <1>t, <1>i, <1>3, <2>1, <2>4, <2>5
     DEF Add, listen, history, PointerInv, locals
<1>4. ASSUME NEW s \in Sources, Remove(s) PROVE PointerInv'
  <2>1. /\ pointers' = pointers \ {s} /\ s \in pointers /\ alive' = alive
        /\ m_end' = m_end /\ lpc' = lpc /\ removing' = removing
        /\ sourcesToRemove' = sourcesToRemove
        /\ m_sourcesScheduledToRemove' \in
             {Plus(m_sourcesScheduledToRemove, {s}), m_sourcesScheduledToRemove}
    BY <1>4 DEF Remove, listen, objects, locals
  <2>2. \A x \in Sources : m_sourcesScheduledToRemove'[x] \in
          {m_sourcesScheduledToRemove[x],
           IF x = s THEN m_sourcesScheduledToRemove[x] + 1
                    ELSE m_sourcesScheduledToRemove[x]}
    <3>1. \A x \in Sources : Plus(m_sourcesScheduledToRemove, {s})[x] =
            IF x = s THEN m_sourcesScheduledToRemove[x] + 1
                     ELSE m_sourcesScheduledToRemove[x]
      <4>1. m_sourcesScheduledToRemove \in [Sources -> Nat] /\ {s} \in SUBSET Sources
        BY <1>t
      <4>2. \A x \in Sources : x \in {s} <=> x = s
        OBVIOUS
      <4>3. \A x \in Sources : Plus(m_sourcesScheduledToRemove, {s})[x] =
              IF x \in {s} THEN m_sourcesScheduledToRemove[x] + 1
                           ELSE m_sourcesScheduledToRemove[x]
        BY <4>1, PlusProperties
      <4> QED BY <4>2, <4>3
    <3>2. CASE m_sourcesScheduledToRemove' = m_sourcesScheduledToRemove
      BY <3>2
    <3>3. CASE m_sourcesScheduledToRemove' = Plus(m_sourcesScheduledToRemove, {s})
      BY <3>1, <3>3
    <3> QED BY <2>1, <3>2, <3>3
  <2>4. ~m_end => \A x \in Sources : OnePointer(x)'
    <3> SUFFICES ASSUME ~m_end, NEW x \in Sources PROVE OnePointer(x)'
      OBVIOUS
    <3>1. OnePointer(x)
      BY <1>i DEF PointerInv
    <3>2. m_sourcesScheduledToRemove[x] \in Nat /\ sourcesToRemove[x] \in Nat
      BY <1>t
    <3>3. CASE x = s
      <4>1. m_sourcesScheduledToRemove[s] = 0 /\ sourcesToRemove[s] = 0
            /\ removing # s /\ s \in alive
        BY <2>1, <3>1, <3>3 DEF OnePointer
      <4>2. m_sourcesScheduledToRemove'[s] \in {0, 1}
        BY <2>2, <4>1
      <4> QED BY <2>1, <3>3, <4>1, <4>2 DEF OnePointer
    <3>4. CASE x # s
      <4>1. m_sourcesScheduledToRemove'[x] = m_sourcesScheduledToRemove[x]
        BY <2>2, <3>4
      <4> QED BY <2>1, <3>1, <3>4, <4>1 DEF OnePointer
    <3> QED BY <3>3, <3>4
  <2>5. lpc \in {"remove", "erase"} => \A x \in Sources : Removing(x)'
    BY <1>i, <2>1 DEF PointerInv, Removing
  <2> QED BY <1>t, <1>i, <1>4, <2>1, <2>4, <2>5
     DEF Remove, objects, listen, PointerInv, locals
<1>5. CASE RemoveSources
  BY <1>t, <1>i, <1>5
     DEF RemoveSources, ScheduleRemoval, objects, listen, PointerInv,
         OnePointer, Removing, locals
<1>6. CASE SetEvent
  BY <1>t, <1>i, <1>6
     DEF SetEvent, Schedule, objects, listen, history, PointerInv,
         OnePointer, Removing, locals
<1>7. CASE GetLines
  BY <1>t, <1>i, <1>7
     DEF GetLines, Schedule, objects, listen, history, PointerInv,
         OnePointer, Removing
<1>8. CASE BeginAbort
  BY <1>t, <1>i, <1>8
     DEF BeginAbort, Schedule, objects, listen, history, PointerInv,
         OnePointer, Removing, locals
<1>9. CASE AbortSources
  BY <1>t, <1>i, <1>9
     DEF AbortSources, Schedule, listen, history, PointerInv, OnePointer,
         Removing, locals
<1>10. CASE AbortRemoves
  BY <1>t, <1>i, <1>10
     DEF AbortRemoves, ScheduleRemoval, objects, listen, PointerInv,
         OnePointer, Removing, locals
<1>11. CASE Synchronize
  BY <1>t, <1>i, <1>11
     DEF Synchronize, Schedule, objects, listen, history, PointerInv,
         OnePointer, Removing, locals
<1>12. CASE TakeTask
  BY <1>t, <1>i, <1>12
     DEF TakeTask, ListenAt, ListenGoto, Schedule, objects, history,
         PointerInv, OnePointer, Removing, locals
<1>13. CASE Swap
  <2>1. /\ m_end' = m_end /\ removing' = removing /\ removing = NoSource
        /\ sourcesToRemove = Nothing /\ lpc = "swap" /\ lpc' = "decide"
        /\ sourcesToRemove' = m_sourcesScheduledToRemove
        /\ m_sourcesScheduledToRemove' = Nothing
        /\ sourcesToAdd' = m_sourcesScheduleToAdd /\ m_sourcesScheduleToAdd' = {}
        /\ pointers' = pointers /\ alive' = alive /\ m_sources' = m_sources
        /\ epc' = epc
    BY <1>i, <1>13
       DEF PointerInv, Swap, ListenAt, ListenGoto, objects, client
  <2>2. ~m_end => \A x \in Sources : OnePointer(x)'
    <3> SUFFICES ASSUME ~m_end, NEW x \in Sources PROVE OnePointer(x)'
      OBVIOUS
    <3>1. OnePointer(x) /\ Nothing[x] = 0
      BY <1>i, NothingProperties DEF PointerInv
    <3>2. m_sourcesScheduledToRemove[x] \in Nat
      BY <1>t
    <3> QED BY <2>1, <3>1, <3>2 DEF OnePointer
  <2> QED BY <1>i, <2>1, <2>2 DEF PointerInv
<1>14. CASE Decide
  <2>1. /\ ~m_end /\ m_end' = m_end /\ removing' = removing /\ removing = NoSource
        /\ sourcesToRemove' = sourcesToRemove /\ alive' = alive
        /\ pointers' = pointers
        /\ m_sourcesScheduledToRemove' = m_sourcesScheduledToRemove
    BY <1>i, <1>14 DEF PointerInv, Decide, ListenAt, shared, objects, client
  <2>2. \A x \in Sources : OnePointer(x)'
    BY <1>i, <2>1 DEF PointerInv, OnePointer
  <2>3. \A x \in Sources : Removing(x)'
    <3> SUFFICES ASSUME NEW x \in Sources PROVE Removing(x)'
      OBVIOUS
    <3>1. OnePointer(x) /\ x # NoSource
      BY <1>i, <2>1, Constants DEF PointerInv
    <3>2. m_sourcesScheduledToRemove[x] \in Nat /\ sourcesToRemove[x] \in Nat
      BY <1>t
    <3> QED BY <2>1, <3>1, <3>2 DEF OnePointer, Removing
  <2> QED BY <1>t, <1>i, <1>14, <2>1, <2>2, <2>3
     DEF Decide, ListenAt, ListenGoto, shared, objects, client, history,
         PointerInv
<1>15. CASE Clear
  BY <1>t, <1>i, <1>15
     DEF Clear, ListenAt, ListenGoto, Schedule, client, history, PointerInv,
         OnePointer, Removing
<1>16. ASSUME NEW s \in Sources, AbortOne(s) PROVE PointerInv'
  <2>1. /\ m_end' = m_end /\ removing' = s /\ removing = NoSource
        /\ lpc = "remove" /\ lpc' = "erase" /\ epc' = epc
        /\ sourcesToRemove' = [sourcesToRemove EXCEPT ![s] = @ - 1]
        /\ sourcesToRemove[s] > 0
        /\ m_sourcesScheduledToRemove' = m_sourcesScheduledToRemove
        /\ pointers' = pointers /\ alive' = alive /\ m_sources' = m_sources
        /\ sourcesToAdd' = sourcesToAdd
        /\ m_sourcesScheduleToAdd' = m_sourcesScheduleToAdd
    BY <1>i, <1>16
       DEF PointerInv, AbortOne, ListenAt, ListenGoto, Schedule, client
  <2>2. \A x \in Sources : sourcesToRemove[x] \in Nat /\ x # NoSource
          /\ m_sourcesScheduledToRemove[x] \in Nat
          /\ sourcesToRemove'[x] =
               IF x = s THEN sourcesToRemove[x] - 1 ELSE sourcesToRemove[x]
    BY <1>t, <2>1, Constants
  <2>3. ~m_end => \A x \in Sources : OnePointer(x)'
    <3> SUFFICES ASSUME ~m_end, NEW x \in Sources PROVE OnePointer(x)'
      OBVIOUS
    <3>1. OnePointer(x)
      BY <1>i DEF PointerInv
    <3> QED BY <2>1, <2>2, <3>1 DEF OnePointer
  <2>4. \A x \in Sources : Removing(x)'
    <3> SUFFICES ASSUME NEW x \in Sources PROVE Removing(x)'
      OBVIOUS
    <3>1. Removing(x)
      BY <1>i, <2>1 DEF PointerInv
    <3> QED BY <2>1, <2>2, <3>1 DEF Removing
  <2> QED BY <1>i, <2>1, <2>2, <2>3, <2>4 DEF PointerInv
<1>17. CASE EraseOne
  <2>1. /\ m_end' = m_end /\ removing' = NoSource /\ removing \in Sources
        /\ alive' = alive \ (m_sources \cap {removing})
        /\ m_sources' = m_sources \ {removing}
        /\ sourcesToRemove' = sourcesToRemove /\ lpc = "erase" /\ lpc' = "remove"
        /\ pointers' = pointers
        /\ m_sourcesScheduledToRemove' = m_sourcesScheduledToRemove
    BY <1>t, <1>i, <1>17 DEF PointerInv, EraseOne, ListenAt, ListenGoto,
       Schedule, client, Update
  <2>2. ~m_end => \A x \in Sources : OnePointer(x)'
    <3> SUFFICES ASSUME ~m_end, NEW x \in Sources PROVE OnePointer(x)'
      OBVIOUS
    <3>1. OnePointer(x) /\ x # NoSource
      BY <1>i, Constants DEF PointerInv
    <3>2. m_sourcesScheduledToRemove[x] \in Nat /\ sourcesToRemove[x] \in Nat
      BY <1>t
    <3> QED BY <2>1, <3>1, <3>2 DEF OnePointer
  <2>3. \A x \in Sources : Removing(x)'
    <3> SUFFICES ASSUME NEW x \in Sources PROVE Removing(x)'
      OBVIOUS
    <3>1. Removing(x) /\ x # NoSource
      BY <1>i, <2>1, Constants DEF PointerInv
    <3>2. sourcesToRemove[x] \in Nat
      BY <1>t
    <3> QED BY <2>1, <3>1, <3>2 DEF Removing
  <2>4. /\ epc' = epc /\ sourcesToAdd' = sourcesToAdd
        /\ m_sourcesScheduleToAdd' = m_sourcesScheduleToAdd
    BY <1>17 DEF EraseOne, Schedule, client, Update
  <2>5. /\ m_sources \cup m_sourcesScheduleToAdd \cup sourcesToAdd \subseteq alive
        /\ m_sources \cap (m_sourcesScheduleToAdd \cup sourcesToAdd) = {}
        /\ m_sourcesScheduleToAdd \cap sourcesToAdd = {}
    BY <1>i DEF PointerInv
  <2>6. /\ m_sources' \cup m_sourcesScheduleToAdd' \cup sourcesToAdd' \subseteq alive'
        /\ m_sources' \cap (m_sourcesScheduleToAdd' \cup sourcesToAdd') = {}
        /\ m_sourcesScheduleToAdd' \cap sourcesToAdd' = {}
    BY <2>1, <2>4, <2>5
  <2> QED BY <1>i, <2>1, <2>2, <2>3, <2>4, <2>6 DEF PointerInv
<1>18. CASE AddAll
  BY <1>t, <1>i, <1>18
     DEF AddAll, ListenAt, ListenGoto, Schedule, objects, client, history,
         PointerInv, OnePointer, Removing, Update
<1>19. CASE Snapshot
  BY <1>t, <1>i, <1>19
     DEF Snapshot, ListenAt, ListenGoto, shared, objects, client, history,
         PointerInv, OnePointer, Removing
<1>20. CASE Loop
  BY <1>t, <1>i, <1>20
     DEF Loop, ListenAt, ListenGoto, shared, objects, client, history,
         PointerInv, OnePointer, Removing
<1>21. CASE Wait
  BY <1>t, <1>i, <1>21
     DEF Wait, ListenAt, ListenGoto, Schedule, client, history, PointerInv,
         OnePointer, Removing
<1>22. CASE Woken
  BY <1>t, <1>i, <1>22
     DEF Woken, ListenAt, ListenGoto, shared, objects, client, history,
         PointerInv, OnePointer, Removing
<1>23. CASE Notify
  BY <1>t, <1>i, <1>23
     DEF Notify, ListenAt, ListenGoto, Schedule, client, history, PointerInv,
         OnePointer, Removing, Update
<1>24. CASE Reschedule
  BY <1>t, <1>i, <1>24
     DEF Reschedule, ListenAt, ListenGoto, Schedule, objects, client,
         history, PointerInv, OnePointer, Removing
<1>25. CASE UNCHANGED vars
  BY <1>t, <1>i, <1>25
     DEF vars, shared, objects, listen, client, history, PointerInv,
         OnePointer, Removing
<1>26. ASSUME NEW s \in Sources, Signal(s) PROVE PointerInv'
  BY <1>t, <1>i, <1>26
     DEF Signal, Schedule, listen, client, PointerInv,
         OnePointer, Removing
<1>27. ASSUME NEW s \in Sources, IsRemoved(s) PROVE PointerInv'
  BY <1>t, <1>i, <1>27
     DEF IsRemoved, shared, objects, listen, PointerInv,
         OnePointer, Removing
<1>28. CASE PreProcess
  BY <1>t, <1>i, <1>28
     DEF PreProcess, shared, objects, listen, PointerInv,
         OnePointer, Removing
<1>29. CASE ReturnLines
  BY <1>t, <1>i, <1>29
     DEF ReturnLines, shared, objects, listen, locals, history, PointerInv,
         OnePointer, Removing
<1> QED
  BY <1>1, <1>2, <1>3, <1>4, <1>5, <1>6, <1>7, <1>8, <1>9, <1>10, <1>11,
     <1>12, <1>13, <1>14, <1>15, <1>16, <1>17, <1>18, <1>19, <1>20, <1>21,
     <1>22, <1>23, <1>24, <1>25, <1>26, <1>27, <1>28, <1>29
     DEF Next, ListenThread, Abort, Lines

(* When clients only call Remove, the listen thread uses no pointer to a source
   that it has destroyed. *)
THEOREM NoPointerDangles ==
  ASSUME ~ByPredicate
  PROVE  Spec => []ListenUsesAlive
<1>1. TypeOK /\ PointerInv /\ [Next]_vars => PointerInv'
  BY PointerStep
<1>2. TypeOK /\ PointerInv => ListenUsesAlive
  BY DEF TypeOK, ListenOK, PointerInv, Removing, ListenUsesAlive, Pointed
<1> QED BY <1>1, <1>2, TypeInit, TypeStep, PointerInit, PTL DEF Spec

=============================================================================
