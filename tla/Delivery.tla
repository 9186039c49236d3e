------------------------------ MODULE Delivery -------------------------------
(* From an inbound message to what its channel is told                        *)
(* (gateway/dispatcher.py).  A message of an external channel is remembered   *)
(* in a receipt and queued in its conversation (gateway/conversation); one    *)
(* that runs through the TaskRuntime has a task and a channel_delivery row    *)
(* (core/runtime/sqlite_store.py).  A process may end at any step and start   *)
(* again.  The scheduling of tasks is modelled in TaskRuntime, that of turns  *)
(* in TurnExecution.                                                          *)
EXTENDS Naturals, Sequences, FiniteSets

CONSTANTS
  External,      \* messages of external channels, which may come again
  Direct,        \* messages executed by the TaskRuntime
  DedupCap,      \* capacity of _LRUDedup
  SendTries,     \* DELIVERY_MAX_ATTEMPTS
  TaskTries,     \* max_attempts of a task
  ReplayTries,   \* channel_replay_max_attempts
  MaxArrivals,   \* bound: arrivals of an external message
  MaxFailures,   \* bound: failed sends and agents
  MaxRestarts,   \* bound: restarts of the process
  Timeouts       \* whether a task may run into its time-out while its reply is sent

VARIABLES
  dedup,         \* _LRUDedup._seen
  inbound,       \* per external message: its receipt, where it is, how often it was queued
  job,           \* per direct message: its task, its executor and its row
  ctx,           \* _runtime_messages
  watcher,       \* _terminal_watchers: per message waiting, sending or none
  replay,        \* messages recover_channel_deliveries has still to look at
  endTold,          \* what the channel was sent, per message
  process,       \* whether the process runs
  deliveryOps    \* counters of the bounds

deliveryVars == <<dedup, inbound, job, ctx, watcher, replay, endTold, process, deliveryOps>>

ASSUME DeliveryAssumption ==
  /\ External \cap Direct = {}
  /\ DedupCap \in Nat /\ SendTries \in Nat /\ TaskTries \in Nat \ {0} /\ ReplayTries \in Nat

Mail == External \cup Direct
Over == {"completed", "failed", "blocked", "cancelled", "timed_out"}
Replayed == {"accepted", "retry_pending"}
Tell(m, what) == endTold' = [endTold EXCEPT ![m] = Append(@, what)]
Failure == deliveryOps.failures < MaxFailures
             /\ deliveryOps' = [deliveryOps EXCEPT !.failures = @ + 1]
-----------------------------------------------------------------------------
(* Inbound                                                                    *)

\* is_dup: the oldest id is forgotten over the capacity.
Seen(m) == \E i \in DOMAIN dedup : dedup[i] = m
Remember(m) ==
  dedup' = LET d == Append(dedup, m) IN IF Len(d) > DedupCap THEN Tail(d) ELSE d

\* A plausible slip: the memory of the process is trusted and no receipt is looked at.
ReceiptNever(m) == FALSE

\* check_and_record_receipt: one statement, committed before the message is queued
HasReceipt(m) == inbound[m].receipt

\* on_inbound of dispatcher and bridge, up to the receipt
Arrives(m) ==
  /\ process = "up" /\ deliveryOps.arrivals[m] < MaxArrivals
  /\ inbound[m].at = "none"
  /\ deliveryOps' = [deliveryOps EXCEPT !.arrivals[m] = @ + 1]
  /\ IF Seen(m) THEN UNCHANGED <<dedup, inbound>>
     ELSE /\ Remember(m)
          /\ inbound' = IF HasReceipt(m) THEN inbound
                        ELSE [inbound EXCEPT ![m].receipt = TRUE, ![m].at = "received"]
  /\ UNCHANGED <<job, ctx, watcher, replay, endTold, process>>

\* ... and enqueue with ensure_turn and run_turn, or its failure: on_inbound returns None
Queued(m, ok) ==
  /\ process = "up" /\ inbound[m].at = "received"
  /\ inbound' = [inbound EXCEPT ![m].at = IF ok THEN "queued" ELSE "none", ![m].queued = IF ok THEN @ + 1 ELSE @]
  /\ IF ok THEN UNCHANGED deliveryOps ELSE Failure
  /\ UNCHANGED <<dedup, job, ctx, watcher, replay, endTold, process>>

\* The turn of the message replies: record_channel_delivery, then _deliver_channel_reply.
TurnReplies(m) ==
  /\ process = "up" /\ inbound[m].at = "queued"
  /\ inbound' = [inbound EXCEPT ![m].at = "sending", ![m].state = "pending_delivery", ![m].tries = 0]
  /\ UNCHANGED <<dedup, job, ctx, watcher, replay, endTold, process, deliveryOps>>

TurnSends(m, ok) ==
  /\ process = "up" /\ inbound[m].at = "sending"
  /\ IF ok
     THEN /\ Tell(m, "reply") /\ UNCHANGED deliveryOps
          /\ inbound' = [inbound EXCEPT ![m].at = "none", ![m].state = "delivered"]
     ELSE /\ Failure /\ UNCHANGED endTold
          /\ inbound' = IF inbound[m].tries + 1 < SendTries
                        THEN [inbound EXCEPT ![m].tries = @ + 1]
                        ELSE [inbound EXCEPT ![m].at = "none", ![m].state = "delivery_failed"]
  /\ UNCHANGED <<dedup, job, ctx, watcher, replay, process>>
-----------------------------------------------------------------------------
(* Direct messages                                                            *)

\* save_channel_delivery
Row(m, state) == [job EXCEPT ![m].row = state]

\* _on_inbound_task_runtime: the context before the task, the row after it, then the watcher
Submit(m) ==
  /\ process = "up" /\ job[m].task = "none"
  /\ job' = [job EXCEPT ![m].task = "queued", ![m].row = "accepted"]
  /\ ctx' = ctx \cup {m}
  /\ watcher' = [watcher EXCEPT ![m] = "waits"]
  /\ UNCHANGED <<dedup, inbound, replay, endTold, process, deliveryOps>>

\* A worker takes the task; without its context it is blocked.
TaskRuns(m) ==
  /\ process = "up" /\ job[m].task = "queued" /\ job[m].loaded
  /\ job' = IF m \in ctx
            THEN [job EXCEPT ![m].task = "running", ![m].attempt = @ + 1, ![m].exec = "agent", ![m].tries = 0]
            ELSE [job EXCEPT ![m].task = "blocked"]
  /\ UNCHANGED <<dedup, inbound, ctx, watcher, replay, endTold, process, deliveryOps>>

\* _execute_agent has returned a reply.
AgentReturns(m) ==
  /\ process = "up" /\ job[m].exec = "agent"
  /\ job' = [job EXCEPT ![m].exec = "sending"]
  /\ UNCHANGED <<dedup, inbound, ctx, watcher, replay, endTold, process, deliveryOps>>

\* A plausible slip: the last attempt is followed by one more.
ExecutorRaisesOnceMore(m) ==
  [job EXCEPT ![m].exec = "none", ![m].task =
     IF @ # "running" THEN @ ELSE IF job[m].attempt <= TaskTries THEN "retry_wait" ELSE "failed"]
\* An exception of the executor: a retry while attempts are left
ExecutorRaises(m) ==
  [job EXCEPT ![m].exec = "none", ![m].task =
     IF @ # "running" THEN @ ELSE IF job[m].attempt < TaskTries THEN "retry_wait" ELSE "failed"]

AgentRaises(m) ==
  /\ process = "up" /\ job[m].exec = "agent" /\ Failure
  /\ job' = ExecutorRaises(m)
  /\ UNCHANGED <<dedup, inbound, ctx, watcher, replay, endTold, process>>

\* _deliver_channel_reply, and on_reply with the row of the delivery once it was sent
TaskSends(m, ok) ==
  /\ process = "up" /\ job[m].exec = "sending"
  /\ IF ok
     THEN Tell(m, "reply") /\ UNCHANGED deliveryOps /\ job' = [job EXCEPT ![m].exec = "sent"]
     ELSE /\ Failure /\ UNCHANGED endTold
          /\ job' = IF job[m].tries + 1 < SendTries THEN [job EXCEPT ![m].tries = @ + 1] ELSE ExecutorRaises(m)
  /\ UNCHANGED <<dedup, inbound, ctx, watcher, replay, process>>

\* A plausible slip: the executor leaves the row to the watcher.
RowLater(m) == job

\* The executor saves the row before its result becomes the task's.
RowCompleted(m) == Row(m, "completed")

TaskSaves(m) ==
  /\ process = "up" /\ job[m].exec = "sent"
  /\ job' = [RowCompleted(m) EXCEPT ![m].exec = "saved"]
  /\ UNCHANGED <<dedup, inbound, ctx, watcher, replay, endTold, process, deliveryOps>>

TaskCompletes(m) ==
  /\ process = "up" /\ job[m].exec = "saved"
  /\ job' = [job EXCEPT ![m].exec = "none", ![m].task = IF @ = "running" THEN "completed" ELSE @]
  /\ UNCHANGED <<dedup, inbound, ctx, watcher, replay, endTold, process, deliveryOps>>

\* A queued task is cancelled, a running one before its agent returns (checkpoint), or it runs into
\* its time-out while its executor goes on.
TaskStops(m, status) ==
  /\ process = "up"
  /\ \/ status = "cancelled" /\ job[m].task \in {"queued", "retry_wait"}
     \/ status = "cancelled" /\ job[m].task = "running" /\ job[m].exec = "agent"
     \/ Timeouts /\ status = "timed_out" /\ job[m].task = "running"
  /\ Failure
  /\ job' = [job EXCEPT ![m].task = status, ![m].exec = IF status = "timed_out" THEN @ ELSE "none"]
  /\ UNCHANGED <<dedup, inbound, ctx, watcher, replay, endTold, process>>

\* _retry_after
RetryComes(m) ==
  /\ process = "up" /\ job[m].task = "retry_wait" /\ job[m].loaded
  /\ job' = [job EXCEPT ![m].task = "queued"]
  /\ UNCHANGED <<dedup, inbound, ctx, watcher, replay, endTold, process, deliveryOps>>
-----------------------------------------------------------------------------
(* What the channel is told of a task's end                                   *)

\* _deliver_runtime_terminal: a completed task needs no word, another one gets one try;
\* whatever came of it the row has the status of the task.
WatcherSees(m) ==
  /\ process = "up" /\ watcher[m] = "waits" /\ job[m].task \in Over
  /\ IF job[m].task = "completed"
     THEN /\ job' = Row(m, "completed") /\ ctx' = ctx \ {m}
          /\ watcher' = [watcher EXCEPT ![m] = "none"]
     ELSE watcher' = [watcher EXCEPT ![m] = "sends"] /\ UNCHANGED <<job, ctx>>
  /\ UNCHANGED <<dedup, inbound, replay, endTold, process, deliveryOps>>

WatcherSends(m, ok) ==
  /\ process = "up" /\ watcher[m] = "sends"
  /\ IF ok THEN Tell(m, "notice") /\ UNCHANGED deliveryOps ELSE Failure /\ UNCHANGED endTold
  /\ watcher' = [watcher EXCEPT ![m] = "tells"]
  /\ UNCHANGED <<dedup, inbound, job, ctx, replay, process>>

WatcherSaves(m) ==
  /\ process = "up" /\ watcher[m] = "tells"
  /\ job' = Row(m, job[m].task) /\ ctx' = ctx \ {m}
  /\ watcher' = [watcher EXCEPT ![m] = "none"]
  /\ UNCHANGED <<dedup, inbound, replay, endTold, process, deliveryOps>>

\* It gives up after zombie_max_seconds; the context stays.
WatcherGivesUp(m) ==
  /\ process = "up" /\ watcher[m] = "waits" /\ job[m].task \notin Over
  /\ watcher' = [watcher EXCEPT ![m] = "none"]
  /\ Failure /\ UNCHANGED <<dedup, inbound, job, ctx, replay, endTold, process>>

\* recover_channel_deliveries: one delivery at a time, tasks that are not over are left alone
ReplayRow(m, ok) ==
  /\ process = "up" /\ m \in replay
  /\ replay' = replay \ {m}
  /\ IF job[m].row \notin Replayed \/ job[m].task \notin Over
     THEN ok /\ UNCHANGED <<job, endTold, deliveryOps>>
     ELSE IF job[m].replays >= ReplayTries
     THEN ok /\ job' = Row(m, "delivery_failed") /\ UNCHANGED <<endTold, deliveryOps>>
     ELSE IF ok
     THEN Tell(m, "summary") /\ job' = Row(m, "delivered") /\ UNCHANGED deliveryOps
     ELSE /\ Failure /\ UNCHANGED endTold
          /\ job' = [job EXCEPT ![m].row = "retry_pending", ![m].replays = @ + 1]
  /\ UNCHANGED <<dedup, inbound, ctx, watcher, process>>

\* resume_persisted_tasks: contexts are rebuilt; a task whose session finds no place is blocked.
ResumeTask(m, ok) ==
  /\ process = "up" /\ replay = {} /\ ~job[m].loaded /\ job[m].task \in {"queued", "retry_wait"}
  /\ IF ok THEN UNCHANGED deliveryOps ELSE Failure
  /\ ctx' = IF ok THEN ctx \cup {m} ELSE ctx
  /\ job' = [job EXCEPT ![m].loaded = TRUE, ![m].task = IF ~ok /\ @ = "queued" THEN "blocked" ELSE @]
  /\ UNCHANGED <<dedup, inbound, watcher, replay, endTold, process>>
-----------------------------------------------------------------------------
\* The process ends; what ran is interrupted at the next start (recover_interrupted) and user
\* tasks are not taken up again.
ProcessEnds ==
  /\ process = "up" /\ deliveryOps.restarts < MaxRestarts
  /\ process' = "down" /\ dedup' = <<>> /\ ctx' = {} /\ replay' = {}
  /\ watcher' = [m \in Direct |-> "none"]
  /\ inbound' = [m \in External |-> [inbound[m] EXCEPT !.at = IF @ = "queued" THEN @ ELSE "none"]]
  /\ job' = [m \in Direct |-> [job[m] EXCEPT !.exec = "none", !.loaded = job[m].task = "none"]]
  /\ deliveryOps' = [deliveryOps EXCEPT !.restarts = @ + 1]
  /\ UNCHANGED endTold

\* start: tasks that ran are interrupted, then the rows are replayed.
ProcessStarts ==
  /\ process = "down" /\ process' = "up"
  /\ job' = [m \in Direct |-> [job[m] EXCEPT !.task = IF @ = "running" THEN "interrupted" ELSE @]]
  /\ replay' = {m \in Direct : job[m].row # "none"}
  /\ UNCHANGED <<dedup, inbound, ctx, watcher, endTold, deliveryOps>>

DeliveryInit ==
  /\ dedup = <<>> /\ ctx = {} /\ replay = {} /\ process = "up"
  /\ inbound = [m \in External |-> [receipt |-> FALSE, at |-> "none", queued |-> 0, state |-> "none", tries |-> 0]]
  /\ job = [m \in Direct |-> [task |-> "none", attempt |-> 0, exec |-> "none", tries |-> 0, row |-> "none",
                              replays |-> 0, loaded |-> TRUE]]
  /\ watcher = [m \in Direct |-> "none"]
  /\ endTold = [m \in Mail |-> <<>>]
  /\ deliveryOps = [arrivals |-> [m \in External |-> 0], failures |-> 0, restarts |-> 0]

DeliveryNext ==
  \/ \E m \in External :
       \/ Arrives(m) \/ TurnReplies(m)
       \/ \E ok \in BOOLEAN : Queued(m, ok) \/ TurnSends(m, ok)
  \/ \E m \in Direct :
       \/ Submit(m) \/ TaskRuns(m) \/ AgentReturns(m) \/ AgentRaises(m) \/ TaskSaves(m) \/ TaskCompletes(m)
       \/ RetryComes(m) \/ WatcherSees(m) \/ WatcherSaves(m) \/ WatcherGivesUp(m)
       \/ \E ok \in BOOLEAN : TaskSends(m, ok) \/ WatcherSends(m, ok) \/ ReplayRow(m, ok) \/ ResumeTask(m, ok)
       \/ \E status \in {"cancelled", "timed_out"} : TaskStops(m, status)
  \/ ProcessEnds \/ ProcessStarts

DeliverySpec == DeliveryInit /\ [][DeliveryNext]_deliveryVars
-----------------------------------------------------------------------------
Inbound ==
  [receipt : BOOLEAN, at : {"none", "received", "queued", "sending"}, queued : Nat,
   state : {"none", "pending_delivery", "delivered", "delivery_failed"}, tries : Nat]
Job ==
  [task : Over \cup {"none", "queued", "running", "retry_wait", "interrupted"}, attempt : 0 .. TaskTries,
   exec : {"none", "agent", "sending", "sent", "saved"}, tries : Nat,
   row : Over \cup Replayed \cup {"none", "delivered", "delivery_failed"}, replays : Nat, loaded : BOOLEAN]
\* Types of messages, tasks, rows and watchers.
DeliveryTypeOK ==
  /\ dedup \in Seq(External) /\ Len(dedup) <= DedupCap /\ ctx \subseteq Direct /\ replay \subseteq Direct
  /\ inbound \in [External -> Inbound] /\ job \in [Direct -> Job]
  /\ watcher \in [Direct -> {"none", "waits", "sends", "tells"}]
  /\ endTold \in [Mail -> Seq({"reply", "notice", "summary"})] /\ process \in {"up", "down"}
  /\ deliveryOps \in [arrivals : [External -> Nat], failures : Nat, restarts : Nat]

\* However often an external message comes, before and after restarts and with an id the
\* memory has forgotten, it is queued and answered once at most.
EnqueuedOnce == \A m \in External : inbound[m].queued <= 1 /\ Len(endTold[m]) <= 1

\* A message that has its answer is told nothing else: no notice of a failure, no summary
\* after a restart, no second answer of a retry.
AnswerStandsAlone ==
  \A m \in Direct : (\E i \in DOMAIN endTold[m] : endTold[m][i] = "reply") => Len(endTold[m]) = 1

\* Deviations of the code (see the README): each is violated.
\* A received message gets into the queue.
ReceivedIsQueued == \A m \in External : inbound[m].receipt /\ inbound[m].at = "none" => inbound[m].queued > 0
\* A task that is over and no longer watched was told of, or is told of at the next start.
EndIsTold ==
  \A m \in Direct : job[m].task \in Over /\ watcher[m] = "none" /\ process = "up" =>
    endTold[m] # <<>> \/ job[m].row \in Replayed
=============================================================================
