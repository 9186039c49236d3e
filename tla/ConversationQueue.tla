------------------------- MODULE ConversationQueue -------------------------
(***************************************************************************)
(* The message queue of one conversation: gateway/conversation/store.py    *)
(* (the SQLite rows) and gateway/conversation/service.py (one transaction  *)
(* per operation), as they are driven by                                   *)
(*                                                                         *)
(*   - the gateway's asyncio loop, whose HTTP handlers, channel callbacks  *)
(*     and turn runner call the service synchronously: they run one at a   *)
(*     time;                                                               *)
(*   - the agent's executor threads, whose late events make                *)
(*     ConversationBridge.ensure_turn call send_next on their own thread.  *)
(*                                                                         *)
(* A transaction holds SQLite's write lock from its first write on, so an  *)
(* operation is one step, except send_next: it picks the queue's head with *)
(* autocommitted reads, before the first write, and writes afterwards.     *)
(* SendNextRead and SendNextCommit are these two halves.                   *)
(*                                                                         *)
(* Turns are counted, not named: `active` is the number of rows of `turns` *)
(* in a non-terminal status.  What happens inside a turn is TurnExecution. *)
(***************************************************************************)
EXTENDS Naturals, FiniteSets

CONSTANTS
  Items,          \* ids of queue_items rows
  Clients,        \* browsers that edit the queue with an expected_revision
  Dispatchers,    \* threads that call send_next; "loop" is the asyncio loop
  NoItem,         \* the thread is not inside send_next
  MaxActive,      \* MAX_ACTIVE_QUEUE_ITEMS
  MaxSteering,    \* MAX_STEERING_PER_TURN
  MaxOps,         \* bound on the operations a user or a crash starts
  ClientCommits   \* clients call POST steering/commit themselves

ASSUME QueueAssumption ==
  /\ IsFiniteSet(Items)
  /\ "loop" \in Dispatchers
  /\ NoItem \notin Items
  /\ MaxActive \in Nat /\ MaxSteering \in Nat /\ MaxOps \in Nat
  /\ ClientCommits \in BOOLEAN

VARIABLES
  status,      \* queue_items.status; "none" = not inserted, "gone" = row deleted
  pos,         \* queue_items.position
  rev,         \* queue_items.revision
  text,        \* queue_items.text, as the number of edits accepted so far
  expired,     \* the 5 s undo window of a pending_delete row is over
  seen,        \* seen[c][i]: the revision of i that client c last received
  active,      \* number of non-terminal turns
  steered,     \* user_steering nodes of the active turn
  steer,       \* _steering_pending: items registered for injection
  pick,        \* pick[t]: the head that thread t's send_next has read
  pickText,    \* its text when it was read
  handed,      \* handed[i]: how often i's text was given to an agent
  handedText,  \* the text given the last time
  ops          \* operations left of MaxOps

vars == <<status, pos, rev, text, expired, seen, active, steered, steer, pick,
          pickText, handed, handedText, ops>>

LiveStatus == {"waiting", "waiting_for_steering"}
ArchivedStatus == {"sent", "injected", "deleted"}
Status == LiveStatus \cup ArchivedStatus \cup {"none", "gone", "pending_delete"}

\* list_active_queue: the rows that count, are ordered and can be sent.
Live == {i \in Items : status[i] \in LiveStatus}

\* The rows enqueue_item looks at for the next position: not archived.
Held == {i \in Items : status[i] \in LiveStatus \cup {"pending_delete"}}

Exists(i) == status[i] \notin {"none", "gone"}

LoopIdle == pick["loop"] = NoItem

\* Every write of a row bumps its revision.
Bump(S) == rev' = [i \in Items |-> IF i \in S THEN rev[i] + 1 ELSE rev[i]]

SetStatus(S, st) ==
  status' = [i \in Items |-> IF i \in S THEN st ELSE status[i]]

Spend == ops > 0 /\ ops' = ops - 1

TypeOK ==
  /\ status \in [Items -> Status]
  /\ pos \in [Items -> Nat]
  /\ rev \in [Items -> Nat]
  /\ text \in [Items -> Nat]
  /\ expired \in [Items -> BOOLEAN]
  /\ seen \in [Clients -> [Items -> Nat]]
  /\ active \in Nat
  /\ steered \in Nat
  /\ steer \in SUBSET Items
  /\ pick \in [Dispatchers -> Items \cup {NoItem}]
  /\ pickText \in [Dispatchers -> Nat]
  /\ handed \in [Items -> Nat]
  /\ handedText \in [Items -> Nat]
  /\ ops \in Nat

Init ==
  /\ status = [i \in Items |-> "none"]
  /\ pos = [i \in Items |-> 0]
  /\ rev = [i \in Items |-> 0]
  /\ text = [i \in Items |-> 0]
  /\ expired = [i \in Items |-> FALSE]
  /\ seen = [c \in Clients |-> [i \in Items |-> 0]]
  /\ active = 0
  /\ steered = 0
  /\ steer = {}
  /\ pick = [t \in Dispatchers |-> NoItem]
  /\ pickText = [t \in Dispatchers |-> 0]
  /\ handed = [i \in Items |-> 0]
  /\ handedText = [i \in Items |-> 0]
  /\ ops = MaxOps

-----------------------------------------------------------------------------
(* Queue editing: the queue endpoints of api_conversation.py.              *)

\* Mutant: the next position ignores rows that an undo can bring back.
InsertRowBehindLive(i) ==
  /\ status[i] = "none"
  /\ Cardinality(Live) < MaxActive
  /\ \E p \in {1} \cup {pos[j] + 1 : j \in Live} :
       /\ \A j \in Live : pos[j] < p
       /\ pos' = [pos EXCEPT ![i] = p]
  /\ status' = [status EXCEPT ![i] = "waiting"]
  /\ rev' = [rev EXCEPT ![i] = 1]

\* enqueue_item: refused when MaxActive rows are live; the new row goes behind
\* every row that is not archived, a row awaiting its undo included.
InsertRow(i) ==
  /\ status[i] = "none"
  /\ Cardinality(Live) < MaxActive
  /\ \E p \in {1} \cup {pos[j] + 1 : j \in Held} :
       /\ \A j \in Held : pos[j] < p
       /\ pos' = [pos EXCEPT ![i] = p]
  /\ status' = [status EXCEPT ![i] = "waiting"]
  /\ rev' = [rev EXCEPT ![i] = 1]

Enqueue(i) ==
  /\ LoopIdle
  /\ InsertRow(i)
  /\ UNCHANGED <<text, expired, seen, active, steered, steer, pick, pickText, handed,
                 handedText, ops>>

\* A client receives the live rows (snapshot, or the queue of queue.updated).
Refresh(c) ==
  /\ seen' = [seen EXCEPT ![c] =
                [i \in Items |-> IF i \in Live THEN rev[i] ELSE seen[c][i]]]
  /\ seen' # seen
  /\ UNCHANGED <<status, pos, rev, text, expired, active, steered, steer, pick, pickText,
                 handed, handedText, ops>>

\* update_queue_item: UPDATE ... WHERE queue_item_id=? AND revision=?.  The
\* response carries the row back, so the client learns the new revision.
CompareAndBump(c, i) ==
  /\ Exists(i)
  /\ seen[c][i] = rev[i]
  /\ Bump({i})
  /\ seen' = [seen EXCEPT ![c][i] = rev[i] + 1]

\* Mutant: the edit runs in a thread, beside the loop's send_next.
EditQueueItemInThread(c, i) ==
  /\ Spend
  /\ CompareAndBump(c, i)
  /\ text' = [text EXCEPT ![i] = @ + 1]
  /\ expired' = [expired EXCEPT ![i] = FALSE]
  /\ UNCHANGED <<status, pos, active, steered, steer, pick, pickText, handed, handedText>>

EditQueueItem(c, i) ==
  /\ LoopIdle
  /\ Spend
  /\ CompareAndBump(c, i)
  /\ text' = [text EXCEPT ![i] = @ + 1]
  /\ expired' = [expired EXCEPT ![i] = FALSE]      \* updated_at = now
  /\ UNCHANGED <<status, pos, active, steered, steer, pick, pickText, handed, handedText>>

DeleteQueueItem(c, i) ==
  /\ LoopIdle
  /\ Spend
  /\ CompareAndBump(c, i)
  /\ status' = [status EXCEPT ![i] = "pending_delete"]
  /\ expired' = [expired EXCEPT ![i] = FALSE]
  /\ UNCHANGED <<pos, text, active, steered, steer, pick, pickText, handed, handedText>>

\* undo_delete: only a pending_delete row, only within the window.
RestoreRow(i) ==
  /\ status[i] = "pending_delete"
  /\ ~expired[i]
  /\ status' = [status EXCEPT ![i] = "waiting"]
  /\ Bump({i})

UndoDelete(i) ==
  /\ LoopIdle
  /\ RestoreRow(i)
  /\ UNCHANGED <<pos, text, expired, seen, active, steered, steer, pick, pickText, handed,
                 handedText, ops>>

WindowPasses(i) ==
  /\ status[i] = "pending_delete"
  /\ ~expired[i]
  /\ expired' = [expired EXCEPT ![i] = TRUE]
  /\ UNCHANGED <<status, pos, rev, text, seen, active, steered, steer, pick, pickText,
                 handed, handedText, ops>>

Expired == {i \in Items : status[i] = "pending_delete" /\ expired[i]}

\* archive_expired_pending_deletes, run by the periodic cleanup.
Cleanup ==
  /\ LoopIdle
  /\ Expired # {}
  /\ SetStatus(Expired, "deleted")
  /\ Bump(Expired)
  /\ UNCHANGED <<pos, text, expired, seen, active, steered, steer, pick, pickText, handed,
                 handedText, ops>>

\* move_queue_item: swaps the positions of i and its neighbour j in the live
\* list.  Up is (i, j), down is the same swap seen from the other row.
SwapPositions(i, j) ==
  /\ i \in Live /\ j \in Live
  /\ pos[j] < pos[i]
  /\ \A k \in Live : ~(pos[j] < pos[k] /\ pos[k] < pos[i])
  /\ pos' = [pos EXCEPT ![i] = pos[j], ![j] = pos[i]]
  /\ Bump({i, j})

MoveQueueItem(i, j) ==
  /\ LoopIdle
  /\ Spend
  /\ SwapPositions(i, j)
  /\ UNCHANGED <<status, text, expired, seen, active, steered, steer, pick, pickText,
                 handed, handedText>>

\* clear_waiting_queue: every waiting row is deleted, without undo.
DeleteWaiting ==
  LET W == {i \in Items : status[i] = "waiting"} IN
  /\ SetStatus(W, "deleted")
  /\ Bump(W)

ClearWaiting ==
  /\ LoopIdle
  /\ Spend
  /\ DeleteWaiting
  /\ UNCHANGED <<pos, text, expired, seen, active, steered, steer, pick, pickText, handed,
                 handedText>>

\* clear_history: deletes the turns and the queue rows, whatever their status.
\* The steering registration is memory of the service and stays.
DeleteRows ==
  /\ status' = [i \in Items |-> IF Exists(i) THEN "gone" ELSE status[i]]
  /\ active' = 0
  /\ steered' = 0

ClearHistory ==
  /\ LoopIdle
  /\ Spend
  /\ DeleteRows
  /\ UNCHANGED <<pos, rev, text, expired, seen, steer, pick, pickText, handed, handedText>>

-----------------------------------------------------------------------------
(* Dispatch.                                                               *)

\* Mutant: only waiting rows are dispatched, stale steering rows are not healed.
IsWaitingHead(i) ==
  /\ status[i] = "waiting"
  /\ \A j \in Live : status[j] = "waiting" => pos[i] <= pos[j]

\* list_active_queue, ordered by position; send_next takes the first row, also
\* one left in waiting_for_steering by a turn that is over.
IsHead(i) == i \in Live /\ \A j \in Live : pos[i] <= pos[j]

\* send_next up to its first write: no active turn, and the first live row.
SendNextRead(t) ==
  /\ pick[t] = NoItem
  /\ active = 0
  /\ \E i \in Items :
       /\ IsHead(i)
       /\ pick' = [pick EXCEPT ![t] = i]
       /\ pickText' = [pickText EXCEPT ![t] = text[i]]
  /\ UNCHANGED <<status, pos, rev, text, expired, seen, active, steered, steer,
                 handed, handedText, ops>>

\* Mutant: the turn is inserted without the NOT EXISTS condition.
CreateTurnUnchecked ==
  /\ active' = active + 1
  /\ steered' = 0

\* create_turn_if_no_active: the insert happens only if no turn is active.
CreateTurn ==
  /\ active = 0
  /\ active' = active + 1
  /\ steered' = 0

\* Mutant: sending a row leaves its revision alone.
HandOverSameRevision(i) ==
  /\ status' = [status EXCEPT ![i] = "sent"]
  /\ rev' = rev
  /\ handed' = [handed EXCEPT ![i] = @ + 1]

\* mark_queue_sent: does not look at the row's status or revision again.
HandOver(i) ==
  /\ status' = [status EXCEPT ![i] = "sent"]
  /\ Bump({i})
  /\ handed' = [handed EXCEPT ![i] = @ + 1]

\* send_next from its first write to its commit.  The user node carries the
\* text of the row as it was read; a row deleted since makes the transaction
\* fail and roll back.
SendNextCommit(t) ==
  /\ pick[t] # NoItem
  /\ pick' = [pick EXCEPT ![t] = NoItem]
  /\ pickText' = [pickText EXCEPT ![t] = 0]
  /\ \/ /\ Exists(pick[t])
        /\ CreateTurn
        /\ HandOver(pick[t])
        /\ handedText' = [handedText EXCEPT ![pick[t]] = pickText[t]]
     \/ /\ active > 0 \/ ~Exists(pick[t])
        /\ UNCHANGED <<status, rev, active, steered, handed, handedText>>
  /\ UNCHANGED <<pos, text, expired, seen, steer, ops>>

\* start_turn: a turn without a queue row (plan and goal events, ensure_turn).
StartTurn ==
  /\ Spend
  /\ CreateTurn
  /\ UNCHANGED <<status, pos, rev, text, expired, seen, steer, pick, pickText, handed,
                 handedText>>

\* Mutant: completing is not idempotent.
CompleteTurnTwice ==
  /\ LoopIdle
  /\ active' = active - 1
  /\ UNCHANGED <<status, pos, rev, text, expired, seen, steered, steer, pick,
                 pickText, handed, handedText, ops>>

\* complete_turn of an active turn, by the runner.
CompleteTurn ==
  /\ LoopIdle
  /\ active > 0
  /\ active' = active - 1
  /\ UNCHANGED <<status, pos, rev, text, expired, seen, steered, steer, pick, pickText,
                 handed, handedText, ops>>

-----------------------------------------------------------------------------
(* Steering: inserting queued messages into the active turn.               *)

\* prepare_steering: one row that is not waiting refuses all of them.
PrepareSteering(S) ==
  /\ LoopIdle
  /\ Spend
  /\ active > 0
  /\ steered < MaxSteering
  /\ \A i \in S : status[i] = "waiting"
  /\ SetStatus(S, "waiting_for_steering")
  /\ Bump(S)
  /\ UNCHANGED <<pos, text, expired, seen, active, steered, pick, pickText, handed,
                 handedText>>

\* POST steering/prepare: also register_steering_wait, which replaces an earlier
\* registration.
RegisterSteering(S) ==
  /\ PrepareSteering(S)
  /\ steer' = S

\* POST queue/{id}/inject: prepares one row and registers nothing.
InjectQueueItem(i) ==
  /\ PrepareSteering({i})
  /\ UNCHANGED steer

\* commit_steering without an active turn: every named row becomes waiting.
CommitWithoutTurn(S) ==
  /\ active = 0
  /\ \A i \in S : Exists(i)
  /\ SetStatus(S, "waiting")
  /\ Bump(S)
  /\ UNCHANGED <<steered, handed, handedText>>

\* mark_queue_injected, with the user_steering node that carries the text.
InjectRows(I) ==
  /\ SetStatus(I, "injected")
  /\ Bump(I)
  /\ handed' = [i \in Items |-> IF i \in I THEN handed[i] + 1 ELSE handed[i]]
  /\ handedText' = [i \in Items |-> IF i \in I THEN text[i] ELSE handedText[i]]

\* Mutant: rows are injected whatever became of them since the prepare.
CommitAllIntoTurn(S) ==
  /\ active > 0
  /\ \A i \in S : Exists(i)
  /\ InjectRows(S)
  /\ steered' = steered + Cardinality(S)

\* commit_steering with an active turn: rows still waiting for it are injected.
CommitIntoTurn(S) ==
  LET I == {i \in S : status[i] = "waiting_for_steering"} IN
  /\ active > 0
  /\ \A i \in S : Exists(i)
  /\ InjectRows(I)
  /\ steered' = steered + Cardinality(I)

CommitSteering(S) ==
  /\ CommitWithoutTurn(S) \/ CommitIntoTurn(S)
  /\ UNCHANGED <<pos, text, expired, seen, active, pick, pickText>>

\* _resume_after_steering: the agent stopped at a checkpoint of its turn, the
\* runner commits what is registered and forgets the registration.
ResumeAfterSteering ==
  /\ LoopIdle
  /\ active > 0
  /\ steer # {}
  /\ CommitSteering(steer)
  /\ steer' = {}
  /\ UNCHANGED ops

\* POST steering/commit: a client commits the rows it prepared before.
ClientCommitSteering ==
  /\ ClientCommits
  /\ LoopIdle
  /\ Spend
  /\ steer # {}
  /\ CommitSteering(steer)
  /\ UNCHANGED steer

\* Mutant: the abort restores every registered row.
AbortAllSteering ==
  /\ LoopIdle
  /\ steer # {}
  /\ SetStatus({i \in steer : Exists(i)}, "waiting")
  /\ Bump(steer)
  /\ steer' = {}
  /\ UNCHANGED <<pos, text, expired, seen, active, steered, pick, pickText, handed,
                 handedText, ops>>

\* abort_steering and conclude_steering, when the 10 s window is over.
AbortSteering ==
  LET A == {i \in steer : status[i] = "waiting_for_steering"} IN
  /\ LoopIdle
  /\ steer # {}
  /\ SetStatus(A, "waiting")
  /\ Bump(A)
  /\ steer' = {}
  /\ UNCHANGED <<pos, text, expired, seen, active, steered, pick, pickText, handed,
                 handedText, ops>>

\* The process dies and starts again: memory is lost, recover_after_restart
\* interrupts the active turns and puts the rows waiting for steering back.
ResetInterrupted ==
  LET W == {i \in Items : status[i] = "waiting_for_steering"} IN
  /\ SetStatus(W, "waiting")
  /\ Bump(W)

Restart ==
  /\ Spend
  /\ active' = 0
  /\ ResetInterrupted
  /\ steer' = {}
  /\ pick' = [t \in Dispatchers |-> NoItem]
  /\ pickText' = [t \in Dispatchers |-> 0]
  /\ UNCHANGED <<pos, text, expired, seen, steered, handed, handedText>>

-----------------------------------------------------------------------------
Next ==
  \/ \E i \in Items : Enqueue(i) \/ UndoDelete(i) \/ WindowPasses(i)
                     \/ InjectQueueItem(i)
  \/ \E c \in Clients : Refresh(c)
  \/ \E c \in Clients, i \in Items : EditQueueItem(c, i) \/ DeleteQueueItem(c, i)
  \/ \E i, j \in Items : MoveQueueItem(i, j)
  \/ \E S \in SUBSET Items \ {{}} : RegisterSteering(S)
  \/ Cleanup \/ ClearWaiting \/ ClearHistory
  \/ \E t \in Dispatchers : SendNextRead(t) \/ SendNextCommit(t)
  \/ StartTurn \/ CompleteTurn
  \/ ResumeAfterSteering \/ ClientCommitSteering \/ AbortSteering
  \/ Restart

Spec == Init /\ [][Next]_vars

\* What the queue needs to drain: the WebUI's countdown (or the next channel
\* message) calls send_next again, a call that began ends, and the runner
\* completes every turn it starts.
FairSpec ==
  /\ Spec
  /\ WF_vars(SendNextRead("loop"))
  /\ WF_vars(SendNextCommit("loop"))
  /\ WF_vars(CompleteTurn)

-----------------------------------------------------------------------------
(* The promise the queue keeps.                                            *)

\* Where a message is for its writer: a row that an undo can restore is still
\* in the box; a row that is archived or deleted was given away or dropped.
Place(i) ==
  CASE status[i] = "none" -> "new"
    [] i \in Held -> "box"
    [] OTHER -> IF handed[i] > 0 THEN "given" ELSE "dropped"

Box == INSTANCE Mailbox WITH
  Messages <- Items,
  place <- [i \in Items |-> Place(i)],
  words <- text,
  copies <- handed,
  got <- handedText

\* With send_next on the event loop only and commits by the runner only, the
\* rows of queue_items, their revisions, undo windows, steering registrations
\* and restarts implement Mailbox: service.py gives each message away once, as
\* it was last edited, or drops it, and no row that left comes back.
QueueIsMailbox == Box!Spec

-----------------------------------------------------------------------------
(* Properties.                                                             *)

\* create_turn_if_no_active: however two threads' send_next and start_turn
\* interleave, a conversation has at most one non-terminal turn.
OneActiveTurn == active <= 1

\* Rows that are live or can become live again by an undo have different
\* positions, so the order of list_active_queue is total and survives deletes,
\* undos, moves and new rows.
PositionsDistinct == \A i, j \in Held : i # j => pos[i] # pos[j]

\* The revision check of update_queue_item: a client that still holds the
\* current revision of a row saw it before it was archived and nothing happened
\* since, so an edit or a delete never touches a sent, injected or deleted row.
StaleClientRefused ==
  \A c \in Clients, i \in Items :
    Exists(i) /\ seen[c][i] = rev[i] => i \in Held

\* send_next and commit_steering archive what they hand over: a sent, injected
\* or deleted row never becomes a queue row again.
ArchivedStays ==
  \A i \in Items : status[i] \in ArchivedStatus
                      => status'[i] \in ArchivedStatus \cup {"gone"}

ArchivedIsFinal == [][ArchivedStays]_vars

\* A message reaches an agent once: as the user message of a turn or as a
\* steering message, never as both and never twice.
HandedOnce == \A i \in Items : handed[i] <= 1

\* What reached the agent is the text of the last edit the client was told was
\* accepted.
HandedIsLatest == \A i \in Items : handed[i] > 0 => handedText[i] = text[i]

\* A message does not stay in the queue for ever: it is handed over, or the
\* user deletes it or clears the queue.
QueueDrains ==
  \A i \in Items : i \in Live ~> i \notin Live

\* store.py, MAX_ACTIVE_QUEUE_ITEMS: at most MaxActive live messages.
ActiveWithinLimit == Cardinality(Live) <= MaxActive

\* store.py, MAX_STEERING_PER_TURN: at most MaxSteering steerings per turn.
SteeringWithinLimit == steered <= MaxSteering
=============================================================================
