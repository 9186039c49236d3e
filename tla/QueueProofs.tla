---------------------------- MODULE QueueProofs ----------------------------
(***************************************************************************)
(* Proofs about ConversationQueue, for any number of queue rows, clients,  *)
(* dispatching threads and any limits.                                     *)
(*                                                                         *)
(* The argument rests on one idea: a row's revision grows with every       *)
(* change of its status, so a client that still holds the current revision *)
(* (SeenBounded, StaleClientRefused) saw the row as it is.  Deleting a row *)
(* therefore only moves a queued row aside, which keeps its position       *)
(* reserved for the undo (PositionsDistinct).                              *)
(***************************************************************************)
EXTENDS ConversationQueue, FiniteSetTheorems, TLAPS

\* No client has received a revision the row has not reached yet; a row that is
\* not inserted yet has none.
SeenBounded ==
  /\ \A c \in Clients, i \in Items : seen[c][i] <= rev[i]
  /\ \A i \in Items : status[i] = "none" => rev[i] = 0

QueueInv ==
  /\ TypeOK
  /\ SeenBounded
  /\ StaleClientRefused
  /\ PositionsDistinct
  /\ OneActiveTurn

LEMMA QueueInit == Init => QueueInv
  BY QueueAssumption
  DEF Init, QueueInv, TypeOK, SeenBounded, StaleClientRefused, PositionsDistinct,
      OneActiveTurn, Held, Exists, LiveStatus, ArchivedStatus, Status

\* Every action keeps every variable in its type.
LEMMA QueueTypes == TypeOK /\ [Next]_vars => TypeOK'
<1> SUFFICES ASSUME TypeOK, [Next]_vars PROVE TypeOK'
  OBVIOUS
<1> USE QueueAssumption DEF TypeOK, Status, LiveStatus, ArchivedStatus, Bump,
                            SetStatus, Spend
<1>1. ASSUME NEW i \in Items, Enqueue(i) PROVE TypeOK'
  BY <1>1 DEF Enqueue, InsertRow, Held
<1>2. ASSUME NEW i \in Items, UndoDelete(i) PROVE TypeOK'
  BY <1>2 DEF UndoDelete, RestoreRow
<1>3. ASSUME NEW i \in Items, WindowPasses(i) PROVE TypeOK'
  BY <1>3 DEF WindowPasses
<1>4. ASSUME NEW i \in Items, InjectQueueItem(i) PROVE TypeOK'
  BY <1>4 DEF InjectQueueItem, PrepareSteering
<1>5. ASSUME NEW c \in Clients, Refresh(c) PROVE TypeOK'
  BY <1>5 DEF Refresh, Live
<1>6. ASSUME NEW c \in Clients, NEW i \in Items, EditQueueItem(c, i) PROVE TypeOK'
  BY <1>6 DEF EditQueueItem, CompareAndBump
<1>7. ASSUME NEW c \in Clients, NEW i \in Items, DeleteQueueItem(c, i) PROVE TypeOK'
  BY <1>7 DEF DeleteQueueItem, CompareAndBump
<1>8. ASSUME NEW i \in Items, NEW j \in Items, MoveQueueItem(i, j) PROVE TypeOK'
  BY <1>8 DEF MoveQueueItem, SwapPositions
<1>9. ASSUME NEW S \in SUBSET Items, RegisterSteering(S) PROVE TypeOK'
  BY <1>9 DEF RegisterSteering, PrepareSteering
<1>10. CASE Cleanup
  BY <1>10 DEF Cleanup
<1>11. CASE ClearWaiting
  BY <1>11 DEF ClearWaiting, DeleteWaiting
<1>12. CASE ClearHistory
  BY <1>12 DEF ClearHistory, DeleteRows, Exists
<1>13. ASSUME NEW t \in Dispatchers, SendNextRead(t) PROVE TypeOK'
  BY <1>13 DEF SendNextRead
<1>14. ASSUME NEW t \in Dispatchers, SendNextCommit(t) PROVE TypeOK'
  <2>1. /\ pick' \in [Dispatchers -> Items \cup {NoItem}]
        /\ pickText' \in [Dispatchers -> Nat]
        /\ pick[t] \in Items
        /\ UNCHANGED <<pos, text, expired, seen, steer, ops>>
    BY <1>14 DEF SendNextCommit
  <2>2. /\ status' \in [Items -> Status]
        /\ rev' \in [Items -> Nat]
        /\ active' \in Nat
        /\ steered' \in Nat
        /\ handed' \in [Items -> Nat]
        /\ handedText' \in [Items -> Nat]
    <3>1. CASE /\ CreateTurn
               /\ HandOver(pick[t])
               /\ handedText' = [handedText EXCEPT ![pick[t]] = pickText[t]]
      BY <3>1, <2>1 DEF CreateTurn, HandOver
    <3>2. CASE UNCHANGED <<status, rev, active, steered, handed, handedText>>
      BY <3>2
    <3>3. QED
      BY <1>14, <3>1, <3>2 DEF SendNextCommit
  <2>3. QED
    BY <2>1, <2>2
<1>15. CASE StartTurn
  BY <1>15 DEF StartTurn, CreateTurn
<1>16. CASE CompleteTurn
  BY <1>16 DEF CompleteTurn
<1>17. ASSUME NEW S \in SUBSET Items, CommitSteering(S), steer' \in SUBSET Items,
              ops' \in Nat
       PROVE  TypeOK'
  <2>1. Cardinality({i \in S : status[i] = "waiting_for_steering"}) \in Nat
    BY FS_Subset, FS_CardinalityType
  <2>2. QED
    BY <1>17, <2>1 DEF CommitSteering, CommitWithoutTurn, CommitIntoTurn, InjectRows
<1>18. CASE ResumeAfterSteering
  BY <1>18, <1>17 DEF ResumeAfterSteering
<1>19. CASE ClientCommitSteering
  BY <1>19, <1>17 DEF ClientCommitSteering
<1>20. CASE AbortSteering
  BY <1>20 DEF AbortSteering
<1>21. CASE Restart
  BY <1>21 DEF Restart, ResetInterrupted
<1>22. CASE UNCHANGED vars
  BY <1>22 DEF vars
<1>23. QED
  BY <1>1, <1>2, <1>3, <1>4, <1>5, <1>6, <1>7, <1>8, <1>9, <1>10, <1>11, <1>12,
     <1>13, <1>14, <1>15, <1>16, <1>18, <1>19, <1>20, <1>21, <1>22 DEF Next

\* A status changes only together with the revision, so a client's revision is
\* current only while the row is as the client saw it.
LEMMA SeenStep ==
  TypeOK /\ SeenBounded /\ StaleClientRefused /\ [Next]_vars
    => SeenBounded' /\ StaleClientRefused'
<1> SUFFICES ASSUME TypeOK, SeenBounded, StaleClientRefused, [Next]_vars
             PROVE  SeenBounded' /\ StaleClientRefused'
  OBVIOUS
<1> USE DEF TypeOK, SeenBounded, StaleClientRefused, Held, Exists, LiveStatus,
            Status, ArchivedStatus, Bump, SetStatus
<1> DEFINE Goal == SeenBounded' /\ StaleClientRefused'
<1>1. ASSUME NEW i \in Items, Enqueue(i) PROVE Goal
  <2>1. status[i] = "none" /\ rev' = [rev EXCEPT ![i] = 1]
        /\ status' = [status EXCEPT ![i] = "waiting"] /\ seen' = seen
    BY <1>1 DEF Enqueue, InsertRow
  <2>2. QED
    BY <2>1
<1>2. ASSUME NEW i \in Items, UndoDelete(i) PROVE Goal
  BY <1>2 DEF UndoDelete, RestoreRow
<1>3. ASSUME NEW i \in Items, WindowPasses(i) PROVE Goal
  BY <1>3 DEF WindowPasses
<1>4. ASSUME NEW i \in Items, InjectQueueItem(i) PROVE Goal
  BY <1>4 DEF InjectQueueItem, PrepareSteering
<1>5. ASSUME NEW c \in Clients, Refresh(c) PROVE Goal
  BY <1>5 DEF Refresh, Live
<1>6. ASSUME NEW c \in Clients, NEW i \in Items, EditQueueItem(c, i) PROVE Goal
  BY <1>6 DEF EditQueueItem, CompareAndBump
<1>7. ASSUME NEW c \in Clients, NEW i \in Items, DeleteQueueItem(c, i) PROVE Goal
  BY <1>7 DEF DeleteQueueItem, CompareAndBump
<1>8. ASSUME NEW i \in Items, NEW j \in Items, MoveQueueItem(i, j) PROVE Goal
  BY <1>8 DEF MoveQueueItem, SwapPositions, Live
<1>9. ASSUME NEW S \in SUBSET Items, RegisterSteering(S) PROVE Goal
  BY <1>9 DEF RegisterSteering, PrepareSteering
<1>10. CASE Cleanup
  BY <1>10 DEF Cleanup
<1>11. CASE ClearWaiting
  BY <1>11 DEF ClearWaiting, DeleteWaiting
<1>12. CASE ClearHistory
  BY <1>12 DEF ClearHistory, DeleteRows
<1>13. ASSUME NEW t \in Dispatchers, SendNextRead(t) PROVE Goal
  BY <1>13 DEF SendNextRead
<1>14. ASSUME NEW t \in Dispatchers, SendNextCommit(t) PROVE Goal
  <2>1. CASE /\ Exists(pick[t])
             /\ HandOver(pick[t])
             /\ seen' = seen
    <3>1. pick[t] \in Items
      BY <1>14, QueueAssumption DEF SendNextCommit
    <3>2. QED
      BY <2>1, <3>1 DEF HandOver
  <2>2. CASE UNCHANGED <<status, rev, seen>>
    BY <2>2
  <2>3. QED
    BY <1>14, <2>1, <2>2 DEF SendNextCommit
<1>15. CASE StartTurn
  BY <1>15 DEF StartTurn
<1>16. CASE CompleteTurn
  BY <1>16 DEF CompleteTurn
<1>17. ASSUME NEW S \in SUBSET Items, CommitSteering(S) PROVE Goal
  BY <1>17, SMTT(20) DEF CommitSteering, CommitWithoutTurn, CommitIntoTurn, InjectRows
<1>18. CASE ResumeAfterSteering
  BY <1>18, <1>17 DEF ResumeAfterSteering
<1>19. CASE ClientCommitSteering
  BY <1>19, <1>17 DEF ClientCommitSteering
<1>20. CASE AbortSteering
  BY <1>20 DEF AbortSteering
<1>21. CASE Restart
  BY <1>21 DEF Restart, ResetInterrupted
<1>22. CASE UNCHANGED vars
  BY <1>22 DEF vars
<1>23. QED
  BY <1>1, <1>2, <1>3, <1>4, <1>5, <1>6, <1>7, <1>8, <1>9, <1>10, <1>11, <1>12,
     <1>13, <1>14, <1>15, <1>16, <1>18, <1>19, <1>20, <1>21, <1>22 DEF Next

\* Held rows keep different positions: rows leave, a new one goes behind them,
\* a move swaps two, and no archived row comes back.
LEMMA PositionStep ==
  ~ClientCommits /\ TypeOK /\ StaleClientRefused /\ PositionsDistinct
    /\ [Next]_vars => PositionsDistinct'
<1> SUFFICES ASSUME ~ClientCommits, TypeOK, StaleClientRefused, PositionsDistinct,
                    [Next]_vars
             PROVE  PositionsDistinct'
  OBVIOUS
<1>1. ASSUME Held' \subseteq Held, pos' = pos PROVE PositionsDistinct'
  BY <1>1 DEF PositionsDistinct
<1> USE DEF TypeOK, Held, Exists, LiveStatus, Status, ArchivedStatus, SetStatus
<1>2. ASSUME NEW i \in Items, Enqueue(i) PROVE PositionsDistinct'
  <2>1. PICK p \in Nat : /\ \A j \in Held : pos[j] < p
                         /\ pos' = [pos EXCEPT ![i] = p]
    <3>1. {1} \cup {pos[j] + 1 : j \in Held} \subseteq Nat
      OBVIOUS
    <3>2. QED
      BY <1>2, <3>1 DEF Enqueue, InsertRow
  <2>2. Held' = Held \cup {i} /\ i \notin Held
    BY <1>2 DEF Enqueue, InsertRow
  <2>3. QED
    BY <2>1, <2>2 DEF PositionsDistinct
<1>3. ASSUME NEW i \in Items, UndoDelete(i) PROVE PositionsDistinct'
  BY <1>1, <1>3 DEF UndoDelete, RestoreRow
<1>4. ASSUME NEW i \in Items, WindowPasses(i) PROVE PositionsDistinct'
  BY <1>1, <1>4 DEF WindowPasses
<1>5. ASSUME NEW i \in Items, InjectQueueItem(i) PROVE PositionsDistinct'
  BY <1>1, <1>5 DEF InjectQueueItem, PrepareSteering
<1>6. ASSUME NEW c \in Clients, Refresh(c) PROVE PositionsDistinct'
  BY <1>1, <1>6 DEF Refresh
<1>7. ASSUME NEW c \in Clients, NEW i \in Items, EditQueueItem(c, i)
      PROVE  PositionsDistinct'
  BY <1>1, <1>7 DEF EditQueueItem
<1>8. ASSUME NEW c \in Clients, NEW i \in Items, DeleteQueueItem(c, i)
      PROVE  PositionsDistinct'
  <2>1. i \in Held
    BY <1>8 DEF DeleteQueueItem, CompareAndBump, StaleClientRefused
  <2>2. QED
    BY <1>1, <1>8, <2>1 DEF DeleteQueueItem
<1>9. ASSUME NEW i \in Items, NEW j \in Items, MoveQueueItem(i, j)
      PROVE  PositionsDistinct'
  <2>1. i \in Held /\ j \in Held /\ Held' = Held
    BY <1>9 DEF MoveQueueItem, SwapPositions, Live
  <2>2. pos' = [pos EXCEPT ![i] = pos[j], ![j] = pos[i]]
    BY <1>9 DEF MoveQueueItem, SwapPositions
  <2>3. QED
    BY <2>1, <2>2 DEF PositionsDistinct
<1>10. ASSUME NEW S \in SUBSET Items, RegisterSteering(S) PROVE PositionsDistinct'
  BY <1>1, <1>10 DEF RegisterSteering, PrepareSteering
<1>11. CASE Cleanup
  BY <1>1, <1>11 DEF Cleanup, Expired
<1>12. CASE ClearWaiting
  BY <1>1, <1>12 DEF ClearWaiting, DeleteWaiting
<1>13. CASE ClearHistory
  BY <1>1, <1>13 DEF ClearHistory, DeleteRows
<1>14. ASSUME NEW t \in Dispatchers, SendNextRead(t) PROVE PositionsDistinct'
  BY <1>1, <1>14 DEF SendNextRead
<1>15. ASSUME NEW t \in Dispatchers, SendNextCommit(t) PROVE PositionsDistinct'
  BY <1>1, <1>15 DEF SendNextCommit, HandOver
<1>16. CASE StartTurn
  BY <1>1, <1>16 DEF StartTurn
<1>17. CASE CompleteTurn
  BY <1>1, <1>17 DEF CompleteTurn
<1>18. CASE ResumeAfterSteering
  BY <1>1, <1>18 DEF ResumeAfterSteering, CommitSteering, CommitWithoutTurn,
                     CommitIntoTurn, InjectRows
<1>19. CASE ClientCommitSteering
  BY <1>19 DEF ClientCommitSteering
<1>20. CASE AbortSteering
  BY <1>1, <1>20 DEF AbortSteering
<1>21. CASE Restart
  BY <1>1, <1>21 DEF Restart, ResetInterrupted
<1>22. CASE UNCHANGED vars
  BY <1>1, <1>22 DEF vars
<1>23. QED
  BY <1>2, <1>3, <1>4, <1>5, <1>6, <1>7, <1>8, <1>9, <1>10, <1>11, <1>12,
     <1>13, <1>14, <1>15, <1>16, <1>17, <1>18, <1>19, <1>20, <1>21, <1>22 DEF Next

\* Only CreateTurn adds an active turn, and only when there is none.
LEMMA ActiveStep == TypeOK /\ OneActiveTurn /\ [Next]_vars => OneActiveTurn'
<1> SUFFICES ASSUME TypeOK, OneActiveTurn, [Next]_vars PROVE OneActiveTurn'
  OBVIOUS
<1>1. \/ active' = active
      \/ active' = 0
      \/ active = 0 /\ active' = active + 1
      \/ active > 0 /\ active' = active - 1
  <2>1. ASSUME NEW i \in Items,
               Enqueue(i) \/ UndoDelete(i) \/ WindowPasses(i) \/ InjectQueueItem(i)
        PROVE  active' = active
    BY <2>1 DEF Enqueue, UndoDelete, WindowPasses, InjectQueueItem, PrepareSteering
  <2>2. ASSUME NEW c \in Clients, Refresh(c) PROVE active' = active
    BY <2>2 DEF Refresh
  <2>3. ASSUME NEW c \in Clients, NEW i \in Items,
               EditQueueItem(c, i) \/ DeleteQueueItem(c, i)
        PROVE  active' = active
    BY <2>3 DEF EditQueueItem, DeleteQueueItem
  <2>4. ASSUME NEW i \in Items, NEW j \in Items, MoveQueueItem(i, j)
        PROVE  active' = active
    BY <2>4 DEF MoveQueueItem
  <2>5. ASSUME NEW S \in SUBSET Items, RegisterSteering(S) PROVE active' = active
    BY <2>5 DEF RegisterSteering, PrepareSteering
  <2>6. CASE Cleanup \/ ClearWaiting \/ UNCHANGED vars
    BY <2>6 DEF Cleanup, ClearWaiting, vars
  <2>7. CASE ClearHistory \/ Restart
    BY <2>7 DEF ClearHistory, DeleteRows, Restart
  <2>8. ASSUME NEW t \in Dispatchers, SendNextRead(t) \/ SendNextCommit(t)
        PROVE  active' = active \/ (active = 0 /\ active' = active + 1)
    BY <2>8 DEF SendNextRead, SendNextCommit, CreateTurn
  <2>9. CASE StartTurn \/ CompleteTurn
    BY <2>9 DEF StartTurn, CreateTurn, CompleteTurn
  <2>10. CASE ResumeAfterSteering \/ ClientCommitSteering \/ AbortSteering
    BY <2>10 DEF ResumeAfterSteering, ClientCommitSteering, CommitSteering,
                 AbortSteering
  <2>11. QED
    BY <2>1, <2>2, <2>3, <2>4, <2>5, <2>6, <2>7, <2>8, <2>9, <2>10 DEF Next
<1>2. QED
  BY <1>1 DEF TypeOK, OneActiveTurn

\* The inductive invariant for clients that leave the commit to the runner.
LEMMA QueueStep == ~ClientCommits /\ QueueInv /\ [Next]_vars => QueueInv'
<1> SUFFICES ASSUME ~ClientCommits, QueueInv, [Next]_vars PROVE QueueInv'
  OBVIOUS
<1>1. TypeOK'
  BY QueueTypes DEF QueueInv
<1>2. SeenBounded' /\ StaleClientRefused'
  BY SeenStep DEF QueueInv
<1>3. PositionsDistinct'
  BY PositionStep DEF QueueInv
<1>4. OneActiveTurn'
  BY ActiveStep DEF QueueInv
<1>5. QED
  BY <1>1, <1>2, <1>3, <1>4 DEF QueueInv

\* Theorem: the state of the queue always has its type, for every interleaving
\* of the event loop, the agent threads, clients and restarts.
THEOREM TypeCorrect == Spec => []TypeOK
<1>1. Init => TypeOK
  BY QueueInit DEF QueueInv
<1>2. QED
  BY <1>1, QueueTypes, PTL DEF Spec

\* Theorem: create_turn_if_no_active keeps one non-terminal turn per
\* conversation, whatever number of threads calls send_next and start_turn.
THEOREM OneActiveTurnAlways == Spec => []OneActiveTurn
<1>1. Init => TypeOK /\ OneActiveTurn
  BY QueueInit DEF QueueInv
<1>2. TypeOK /\ OneActiveTurn /\ [Next]_vars => (TypeOK /\ OneActiveTurn)'
  BY QueueTypes, ActiveStep
<1>3. QED
  BY <1>1, <1>2, PTL DEF Spec

\* Theorem: an edit or delete with a stale revision never reaches a row that was
\* sent, injected or deleted; commits by clients included.
THEOREM StaleClientRefusedAlways == Spec => []StaleClientRefused
<1> DEFINE Inv == TypeOK /\ SeenBounded /\ StaleClientRefused
<1>1. Init => Inv
  BY QueueInit DEF QueueInv
<1>2. Inv /\ [Next]_vars => Inv'
  BY QueueTypes, SeenStep
<1>3. QED
  BY <1>1, <1>2, PTL DEF Spec

\* Theorem: if only the runner commits steering, the rows of the queue and the
\* rows an undo can restore have different positions.
THEOREM PositionsDistinctAlways ==
  ASSUME ~ClientCommits PROVE Spec => []PositionsDistinct
<1>1. Init => QueueInv
  BY QueueInit
<1>2. QueueInv /\ [Next]_vars => QueueInv'
  BY QueueStep
<1>3. QueueInv => PositionsDistinct
  BY DEF QueueInv
<1>4. QED
  BY <1>1, <1>2, <1>3, PTL DEF Spec

\* Every way a status changes starts from a queued row, given that a client's
\* delete does (StaleClientRefused).
LEMMA ArchivedStep ==
  ~ClientCommits /\ TypeOK /\ StaleClientRefused /\ [Next]_vars
    => [ArchivedStays]_vars
<1> SUFFICES ASSUME ~ClientCommits, TypeOK, StaleClientRefused, Next
             PROVE  ArchivedStays
  OBVIOUS
<1>1. ASSUME status' = status PROVE ArchivedStays
  BY <1>1 DEF ArchivedStays
<1> USE DEF ArchivedStays, TypeOK, Held, Exists, LiveStatus, Status, ArchivedStatus,
            SetStatus
<1>2. ASSUME NEW i \in Items,
             Enqueue(i) \/ UndoDelete(i) \/ WindowPasses(i) \/ InjectQueueItem(i)
      PROVE  ArchivedStays
  BY <1>2 DEF Enqueue, InsertRow, UndoDelete, RestoreRow, WindowPasses,
              InjectQueueItem, PrepareSteering
<1>3. ASSUME NEW c \in Clients, Refresh(c) PROVE ArchivedStays
  BY <1>1, <1>3 DEF Refresh
<1>4. ASSUME NEW c \in Clients, NEW i \in Items, EditQueueItem(c, i)
      PROVE  ArchivedStays
  BY <1>1, <1>4 DEF EditQueueItem
<1>5. ASSUME NEW c \in Clients, NEW i \in Items, DeleteQueueItem(c, i)
      PROVE  ArchivedStays
  <2>1. i \in Held
    BY <1>5 DEF DeleteQueueItem, CompareAndBump, StaleClientRefused
  <2>2. QED
    BY <1>5, <2>1 DEF DeleteQueueItem
<1>6. ASSUME NEW i \in Items, NEW j \in Items, MoveQueueItem(i, j)
      PROVE  ArchivedStays
  BY <1>1, <1>6 DEF MoveQueueItem
<1>7. ASSUME NEW S \in SUBSET Items, RegisterSteering(S) PROVE ArchivedStays
  BY <1>7 DEF RegisterSteering, PrepareSteering
<1>8. CASE Cleanup \/ ClearWaiting \/ ClearHistory
  BY <1>8 DEF Cleanup, Expired, ClearWaiting, DeleteWaiting, ClearHistory, DeleteRows
<1>9. ASSUME NEW t \in Dispatchers, SendNextRead(t) \/ SendNextCommit(t)
      PROVE  ArchivedStays
  BY <1>1, <1>9 DEF SendNextRead, SendNextCommit, HandOver
<1>10. CASE StartTurn \/ CompleteTurn
  BY <1>1, <1>10 DEF StartTurn, CompleteTurn
<1>11. CASE ResumeAfterSteering
  BY <1>11 DEF ResumeAfterSteering, CommitSteering, CommitWithoutTurn,
               CommitIntoTurn, InjectRows
<1>12. CASE ClientCommitSteering
  BY <1>12 DEF ClientCommitSteering
<1>13. CASE AbortSteering \/ Restart
  BY <1>13 DEF AbortSteering, Restart, ResetInterrupted
<1>14. QED
  BY <1>2, <1>3, <1>4, <1>5, <1>6, <1>7, <1>8, <1>9, <1>10, <1>11, <1>12, <1>13
     DEF Next

\* Theorem: if only the runner commits steering, what was sent, injected or
\* deleted never returns to the queue.
THEOREM ArchivedIsFinalAlways == ASSUME ~ClientCommits PROVE Spec => ArchivedIsFinal
<1> DEFINE Inv == TypeOK /\ SeenBounded /\ StaleClientRefused
<1>1. Init => Inv
  BY QueueInit DEF QueueInv
<1>2. Inv /\ [Next]_vars => Inv'
  BY QueueTypes, SeenStep
<1>3. Inv /\ [Next]_vars => [ArchivedStays]_vars
  BY ArchivedStep
<1>4. QED
  BY <1>1, <1>2, <1>3, PTL DEF Spec, ArchivedIsFinal

-----------------------------------------------------------------------------
(* One dispatching thread: what a message's text goes through.             *)

\* A queued row has not been handed over; a row that was, was handed over once,
\* with its present text; the loop's send_next holds a live row and its text.
HandInv ==
  /\ \A i \in Items : i \in Held \/ status[i] = "none" => handed[i] = 0
  /\ HandedOnce
  /\ HandedIsLatest
  /\ pick["loop"] # NoItem => /\ pick["loop"] \in Live
                              /\ pickText["loop"] = text[pick["loop"]]

LEMMA HandStep ==
  ASSUME Dispatchers = {"loop"}, ~ClientCommits
  PROVE  TypeOK /\ StaleClientRefused /\ HandInv /\ [Next]_vars => HandInv'
<1> SUFFICES ASSUME TypeOK, StaleClientRefused, HandInv, [Next]_vars
             PROVE  HandInv'
  OBVIOUS
<1> USE QueueAssumption
    DEF TypeOK, HandInv, HandedOnce, HandedIsLatest, Held, Live, Exists, LiveStatus,
        Status, ArchivedStatus, SetStatus, LoopIdle
<1>1. ASSUME NEW i \in Items, Enqueue(i) PROVE HandInv'
  <2>1. /\ status[i] = "none" /\ status' = [status EXCEPT ![i] = "waiting"]
        /\ pick["loop"] = NoItem
        /\ UNCHANGED <<text, pick, pickText, handed, handedText>>
    BY <1>1 DEF Enqueue, InsertRow
  <2>2. QED
    BY <2>1
<1>2. ASSUME NEW i \in Items, UndoDelete(i) \/ WindowPasses(i) \/ InjectQueueItem(i)
      PROVE  HandInv'
  BY <1>2 DEF UndoDelete, RestoreRow, WindowPasses, InjectQueueItem, PrepareSteering
<1>3. ASSUME NEW c \in Clients, Refresh(c) PROVE HandInv'
  BY <1>3 DEF Refresh
<1>4. ASSUME NEW c \in Clients, NEW i \in Items, EditQueueItem(c, i) PROVE HandInv'
  <2>1. i \in Held
    BY <1>4 DEF EditQueueItem, CompareAndBump, StaleClientRefused
  <2>2. QED
    BY <1>4, <2>1 DEF EditQueueItem
<1>5. ASSUME NEW c \in Clients, NEW i \in Items, DeleteQueueItem(c, i)
      PROVE  HandInv'
  <2>1. i \in Held
    BY <1>5 DEF DeleteQueueItem, CompareAndBump, StaleClientRefused
  <2>2. QED
    BY <1>5, <2>1 DEF DeleteQueueItem
<1>6. ASSUME NEW i \in Items, NEW j \in Items, MoveQueueItem(i, j) PROVE HandInv'
  BY <1>6 DEF MoveQueueItem
<1>7. ASSUME NEW S \in SUBSET Items, RegisterSteering(S) PROVE HandInv'
  BY <1>7 DEF RegisterSteering, PrepareSteering
<1>8. CASE Cleanup \/ ClearWaiting
  BY <1>8 DEF Cleanup, Expired, ClearWaiting, DeleteWaiting
<1>9. CASE ClearHistory
  BY <1>9 DEF ClearHistory, DeleteRows
<1>10. ASSUME NEW t \in Dispatchers, SendNextRead(t) PROVE HandInv'
  BY <1>10 DEF SendNextRead, IsHead
<1>11. ASSUME NEW t \in Dispatchers, SendNextCommit(t) PROVE HandInv'
  BY <1>11 DEF SendNextCommit, HandOver
<1>12. CASE StartTurn \/ CompleteTurn
  BY <1>12 DEF StartTurn, CompleteTurn
<1>13. CASE ResumeAfterSteering
  <2> DEFINE I == {i \in steer : status[i] = "waiting_for_steering"}
  <2>1. InjectRows(I) /\ UNCHANGED <<text, pick, pickText>> /\ LoopIdle
    BY <1>13 DEF ResumeAfterSteering, CommitSteering, CommitWithoutTurn,
                 CommitIntoTurn
  <2>2. \A i \in I : i \in Held /\ handed[i] = 0
    OBVIOUS
  <2>3. \A i \in Items :
          /\ status'[i] = IF i \in I THEN "injected" ELSE status[i]
          /\ handed'[i] = IF i \in I THEN handed[i] + 1 ELSE handed[i]
          /\ handedText'[i] = IF i \in I THEN text[i] ELSE handedText[i]
    BY <2>1 DEF InjectRows
  <2>4. pick'["loop"] = NoItem
    BY <2>1
  <2> HIDE DEF I
  <2>5. QED
    BY <2>1, <2>2, <2>3, <2>4
<1>14. CASE ClientCommitSteering
  BY <1>14 DEF ClientCommitSteering
<1>15. CASE AbortSteering \/ Restart
  BY <1>15 DEF AbortSteering, Restart, ResetInterrupted
<1>16. CASE UNCHANGED vars
  BY <1>16 DEF vars
<1>17. QED
  BY <1>1, <1>2, <1>3, <1>4, <1>5, <1>6, <1>7, <1>8, <1>9, <1>10, <1>11, <1>12,
     <1>13, <1>14, <1>15, <1>16 DEF Next

\* What one dispatching thread keeps.
HandsInv == TypeOK /\ SeenBounded /\ StaleClientRefused /\ HandInv

LEMMA HandsInductive ==
  ASSUME Dispatchers = {"loop"}, ~ClientCommits
  PROVE  Spec => []HandsInv
<1>1. Init => HandsInv
  <2>1. Init => HandInv
    BY QueueAssumption DEF Init, HandInv, HandedOnce, HandedIsLatest
  <2>2. QED
    BY <2>1, QueueInit DEF QueueInv, HandsInv
<1>2. HandsInv /\ [Next]_vars => HandsInv'
  BY QueueTypes, SeenStep, HandStep DEF HandsInv
<1>3. QED
  BY <1>1, <1>2, PTL DEF Spec

\* Theorem: with the event loop as the only dispatcher, no message reaches an
\* agent twice.
THEOREM HandedOnceAlways ==
  ASSUME Dispatchers = {"loop"}, ~ClientCommits
  PROVE  Spec => []HandedOnce
<1>1. HandsInv => HandedOnce
  BY DEF HandsInv, HandInv
<1>2. QED
  BY <1>1, HandsInductive, PTL

\* Theorem: with the event loop as the only dispatcher, a message that reaches an
\* agent has the text of its last accepted edit: none is accepted after it has left.
THEOREM HandedIsLatestAlways ==
  ASSUME Dispatchers = {"loop"}, ~ClientCommits
  PROVE  Spec => []HandedIsLatest
<1>1. HandsInv => HandedIsLatest
  BY DEF HandsInv, HandInv
<1>2. QED
  BY <1>1, HandsInductive, PTL

-----------------------------------------------------------------------------
(* The queue implements Mailbox.                                           *)

\* Every step moves rows the way one action of Mailbox moves messages, or leaves
\* them where their writer sees them.
LEMMA BoxStep ==
  ASSUME Dispatchers = {"loop"}, ~ClientCommits,
         TypeOK, StaleClientRefused, HandInv, [Next]_vars
  PROVE  [Box!Next]_(Box!boxVars)
<1> DEFINE Goal == [Box!Next]_(Box!boxVars)
<1>1. ASSUME UNCHANGED <<text, handed, handedText>>,
             \A i \in Items : Place(i)' = Place(i)
      PROVE  Goal
  BY <1>1 DEF Box!boxVars
<1>2. ASSUME NEW S \in SUBSET Items, UNCHANGED <<text, handed, handedText>>,
             \A i \in S : Place(i) = "box",
             \A i \in Items : Place(i)' = IF i \in S THEN "dropped" ELSE Place(i)
      PROVE  Goal
  <2>1. Box!Drop(S)
    BY <1>2 DEF Box!Drop, Box!InBox, Box!Moved
  <2>2. QED
    BY <2>1 DEF Box!Next
<1>3. ASSUME NEW S \in SUBSET Items, UNCHANGED text,
             \A i \in S : Place(i) = "box",
             \A i \in Items : Place(i)' = IF i \in S THEN "given" ELSE Place(i),
             handed' = [i \in Items |-> IF i \in S THEN handed[i] + 1 ELSE handed[i]],
             handedText' = [i \in Items |-> IF i \in S THEN text[i] ELSE handedText[i]]
      PROVE  Goal
  <2>1. Box!Give(S)
    BY <1>3 DEF Box!Give, Box!InBox, Box!Moved
  <2>2. QED
    BY <2>1 DEF Box!Next
<1> USE QueueAssumption
    DEF TypeOK, HandInv, Held, Live, Exists, LiveStatus, Status, ArchivedStatus,
        SetStatus, Place
<1>4. ASSUME NEW i \in Items, Enqueue(i) PROVE Goal
  <2>1. /\ status[i] = "none" /\ status' = [status EXCEPT ![i] = "waiting"]
        /\ UNCHANGED <<text, handed, handedText>>
    BY <1>4 DEF Enqueue, InsertRow
  <2>2. Box!Post(i)
    BY <2>1 DEF Box!Post
  <2>3. QED
    BY <2>2 DEF Box!Next
<1>5. ASSUME NEW i \in Items, UndoDelete(i) \/ WindowPasses(i) \/ InjectQueueItem(i)
      PROVE  Goal
  BY <1>1, <1>5 DEF UndoDelete, RestoreRow, WindowPasses, InjectQueueItem,
                    PrepareSteering
<1>6. ASSUME NEW c \in Clients, Refresh(c) PROVE Goal
  BY <1>1, <1>6 DEF Refresh
<1>7. ASSUME NEW c \in Clients, NEW i \in Items, EditQueueItem(c, i) PROVE Goal
  <2>1. i \in Held
    BY <1>7 DEF EditQueueItem, CompareAndBump, StaleClientRefused
  <2>2. Box!Reword(i)
    BY <1>7, <2>1 DEF EditQueueItem, Box!Reword, Box!InBox
  <2>3. QED
    BY <2>2 DEF Box!Next
<1>8. ASSUME NEW c \in Clients, NEW i \in Items, DeleteQueueItem(c, i) PROVE Goal
  <2>1. i \in Held
    BY <1>8 DEF DeleteQueueItem, CompareAndBump, StaleClientRefused
  <2>2. QED
    BY <1>1, <1>8, <2>1 DEF DeleteQueueItem
<1>9. ASSUME NEW i \in Items, NEW j \in Items, MoveQueueItem(i, j) PROVE Goal
  BY <1>1, <1>9 DEF MoveQueueItem
<1>10. ASSUME NEW S \in SUBSET Items, RegisterSteering(S) PROVE Goal
  BY <1>1, <1>10 DEF RegisterSteering, PrepareSteering
<1>11. CASE Cleanup
  <2>1. /\ \A i \in Expired : Place(i) = "box"
        /\ \A i \in Items : Place(i)' = IF i \in Expired THEN "dropped" ELSE Place(i)
    BY <1>11 DEF Cleanup, Expired
  <2>2. UNCHANGED <<text, handed, handedText>> /\ Expired \in SUBSET Items
    BY <1>11 DEF Cleanup, Expired
  <2>3. QED
    BY <1>2, <2>1, <2>2
<1>12. CASE ClearWaiting
  <2> DEFINE W == {i \in Items : status[i] = "waiting"}
  <2>1. /\ \A i \in W : Place(i) = "box"
        /\ \A i \in Items : Place(i)' = IF i \in W THEN "dropped" ELSE Place(i)
    BY <1>12 DEF ClearWaiting, DeleteWaiting
  <2>2. UNCHANGED <<text, handed, handedText>> /\ W \in SUBSET Items
    BY <1>12 DEF ClearWaiting
  <2>3. QED
    BY <1>2, <2>1, <2>2
<1>13. CASE ClearHistory
  <2>1. /\ \A i \in Held : Place(i) = "box"
        /\ \A i \in Items : Place(i)' = IF i \in Held THEN "dropped" ELSE Place(i)
    BY <1>13 DEF ClearHistory, DeleteRows
  <2>2. UNCHANGED <<text, handed, handedText>> /\ Held \in SUBSET Items
    BY <1>13 DEF ClearHistory
  <2>3. QED
    BY <1>2, <2>1, <2>2
<1>14. ASSUME NEW t \in Dispatchers, SendNextRead(t) PROVE Goal
  BY <1>1, <1>14 DEF SendNextRead
<1>15. ASSUME NEW t \in Dispatchers, SendNextCommit(t) PROVE Goal
  <2> DEFINE i == pick["loop"]
  <2>1. t = "loop" /\ i \in Live /\ pickText["loop"] = text[i] /\ UNCHANGED text
    BY <1>15 DEF SendNextCommit
  <2>2. CASE HandOver(i) /\ handedText' = [handedText EXCEPT ![i] = text[i]]
    <3>1. /\ \A k \in {i} : Place(k) = "box"
          /\ \A k \in Items : Place(k)' = IF k \in {i} THEN "given" ELSE Place(k)
      BY <2>1, <2>2 DEF HandOver
    <3>2. /\ handed' = [k \in Items |-> IF k \in {i} THEN handed[k] + 1 ELSE handed[k]]
          /\ handedText' = [k \in Items |-> IF k \in {i} THEN text[k] ELSE handedText[k]]
          /\ {i} \in SUBSET Items
      BY <2>1, <2>2 DEF HandOver
    <3>3. QED
      BY <1>3, <2>1, <3>1, <3>2
  <2>3. CASE UNCHANGED <<status, handed, handedText>>
    BY <1>1, <2>1, <2>3
  <2>4. QED
    BY <1>15, <2>1, <2>2, <2>3 DEF SendNextCommit
<1>16. CASE StartTurn \/ CompleteTurn
  BY <1>1, <1>16 DEF StartTurn, CompleteTurn
<1>17. CASE ResumeAfterSteering
  <2> DEFINE I == {i \in steer : status[i] = "waiting_for_steering"}
  <2>1. InjectRows(I) /\ UNCHANGED text
    BY <1>17 DEF ResumeAfterSteering, CommitSteering, CommitWithoutTurn,
                 CommitIntoTurn
  <2>2. I \in SUBSET Items
    OBVIOUS
  <2>3. /\ \A i \in I : Place(i) = "box"
        /\ \A i \in Items : Place(i)' = IF i \in I THEN "given" ELSE Place(i)
    BY <2>1, <2>2 DEF InjectRows
  <2>4. /\ handed' = [i \in Items |-> IF i \in I THEN handed[i] + 1 ELSE handed[i]]
        /\ handedText' = [i \in Items |-> IF i \in I THEN text[i] ELSE handedText[i]]
    BY <2>1 DEF InjectRows
  <2> HIDE DEF I
  <2>5. QED
    BY <1>3, <2>1, <2>2, <2>3, <2>4
<1>18. CASE ClientCommitSteering
  BY <1>18 DEF ClientCommitSteering
<1>19. CASE AbortSteering \/ Restart
  BY <1>1, <1>19 DEF AbortSteering, Restart, ResetInterrupted
<1>20. CASE UNCHANGED vars
  BY <1>1, <1>20 DEF vars
<1>21. QED
  BY <1>4, <1>5, <1>6, <1>7, <1>8, <1>9, <1>10, <1>11, <1>12, <1>13, <1>14, <1>15,
     <1>16, <1>17, <1>18, <1>19, <1>20 DEF Next

\* Theorem: with the event loop as the only dispatcher and commits by the runner
\* only, the queue of store.py and service.py implements the abstract mailbox,
\* for any number of rows and clients and through every restart.
THEOREM QueueImplementsMailbox ==
  ASSUME Dispatchers = {"loop"}, ~ClientCommits
  PROVE  Spec => QueueIsMailbox
<1>1. Init => Box!Init
  BY DEF Init, Box!Init, Place, Held, LiveStatus
<1>2. HandsInv /\ [Next]_vars => [Box!Next]_(Box!boxVars)
  BY BoxStep DEF HandsInv
<1>3. QED
  BY <1>1, <1>2, HandsInductive, PTL DEF Spec, QueueIsMailbox, Box!Spec
=============================================================================
