--------------------------- MODULE TurnExecution ---------------------------
(***************************************************************************)
(* The execution of the turns of one conversation:                         *)
(*                                                                         *)
(*   - gateway/conversation/runner.py: run_turn, _execute, the stop and    *)
(*     steering watchdogs, _resume_after_steering.  It runs on the asyncio *)
(*     loop, so what lies between two awaits is one step;                  *)
(*   - gateway/conversation/bridge.py: ensure_turn, on_agent_event,        *)
(*     on_reply, on_error, the stop flag and the cache of the active turn; *)
(*   - gateway/dispatcher.py: the executor thread that runs agent.run, its *)
(*     event sink, retirement, the hard timeout;                           *)
(*   - the stop, steering and send-next endpoints.                         *)
(*                                                                         *)
(* The rows of the queue are ConversationQueue's; here they are counted,   *)
(* and send_next takes any of them.  A steering names one row.  Every run  *)
(* of the agent is a worker of its own; a worker whose turn was given up   *)
(* keeps running until it ends by itself.                                  *)
(***************************************************************************)
EXTENDS Naturals, FiniteSets

CONSTANTS
  MaxTurns,     \* bound on the turns of the conversation
  MaxRuns,      \* bound on the runs of the agent
  MaxMsgs,      \* bound on the messages that arrive
  MaxOps,       \* bound on stop and steering requests
  Channels,     \* kinds of conversation: TRUE an external channel's, FALSE the WebUI's
  Steering,     \* the user steers running turns
  SlowThreads   \* executor threads are slow: a loop step can fall between the
                \* steps of an event, a run can be given up before it has an id

ASSUME ExecutionAssumption ==
  /\ MaxTurns \in Nat /\ MaxRuns \in Nat /\ MaxMsgs \in Nat /\ MaxOps \in Nat
  /\ Channels \subseteq BOOLEAN /\ Steering \in BOOLEAN /\ SlowThreads \in BOOLEAN

Turns == 1 .. MaxTurns
Runs == 1 .. MaxRuns
Sink == MaxTurns + 1

VARIABLES
  turn,       \* turns.status, with the error code as the status of an error
  cache,      \* bridge._active_turn; 0 = no entry
  arrived,    \* messages enqueued so far
  waiting,    \* queue rows in status waiting
  parked,     \* rows waiting_for_steering that no wait record names
  reg,        \* service._steering_pending: its row is held, gone, or no record
  regLate,    \* its 10 s window is over
  stopAt,     \* runner._stop_requested_at has an entry
  watch,      \* the watchdog's copy of it: none, fresh, late (10 s have passed)
  stopFlag,   \* bridge._stop_requested
  agentStop,  \* agent._stop_requested of the agent in the entry
  hasAgent,   \* entry.agent is not None
  run,        \* the runner: idle, waiting for the reply, for the reply of a
              \* resumed run, for the end of a run it gave up, or delivering
  rturn,      \* the turn it executes
  rwork,      \* the worker whose reply it waits for
  reply,      \* that reply task's result
  kick,       \* a run_turn task is scheduled
  worker,     \* worker[w]: where the run w of the agent is
  wturn,      \* the turn it was started for
  ev,         \* ev[w]: 0, Sink = past the retirement check, or the turn that
              \* the event is about to be written to
  retired,    \* dispatcher._retired_run_ids
  ops,        \* requests left of MaxOps
  channel,    \* the kind of this conversation, given when it is created
  asked,      \* turns that a stop was requested for while they were active
  since,      \* a stop was requested since the runner began to wait
  strayed     \* some worker wrote to a turn that is not its own

turnVars  == <<turn, cache>>
queueVars == <<arrived, waiting, parked, reg, regLate>>
stopVars  == <<stopAt, watch, stopFlag, agentStop, asked, since>>
runVars   == <<run, rturn, rwork, reply, kick, hasAgent>>
workVars  == <<worker, wturn, ev, retired, strayed>>
givenVars == <<ops, channel>>
vars == <<turnVars, queueVars, stopVars, runVars, workVars, givenVars>>

LiveStatus == {"queued", "running", "stopping"}
Terminal == {"done", "stopped", "error", "busy", "stop_timeout", "steer_timeout"}
WorkerState == {"none", "pending", "started", "working", "ended"}
Alive == {"started", "working"}

TypeOK ==
  /\ turn \in [Turns -> LiveStatus \cup Terminal \cup {"none"}]
  /\ cache \in 0 .. MaxTurns
  /\ arrived \in Nat /\ waiting \in Nat /\ parked \in Nat
  /\ reg \in {"none", "held", "gone"} /\ regLate \in BOOLEAN
  /\ stopAt \in BOOLEAN /\ watch \in {"none", "fresh", "late"}
  /\ stopFlag \in BOOLEAN /\ agentStop \in BOOLEAN /\ hasAgent \in BOOLEAN
  /\ run \in {"idle", "wait", "rewait", "grace", "deliver"}
  /\ rturn \in 0 .. MaxTurns /\ rwork \in 0 .. MaxRuns
  /\ reply \in {"none", "ok", "halted", "busy", "fail"}
  /\ kick \in BOOLEAN
  /\ worker \in [Runs -> WorkerState] /\ wturn \in [Runs -> 0 .. MaxTurns]
  /\ ev \in [Runs -> 0 .. Sink]
  /\ retired \in SUBSET Runs
  /\ ops \in Nat /\ channel \in Channels /\ asked \in SUBSET Turns /\ since \in BOOLEAN
  /\ strayed \in BOOLEAN

Init ==
  /\ turn = [t \in Turns |-> "none"] /\ cache = 0
  /\ arrived = 0 /\ waiting = 0 /\ parked = 0 /\ reg = "none" /\ regLate = FALSE
  /\ stopAt = FALSE /\ watch = "none" /\ stopFlag = FALSE
  /\ agentStop = FALSE /\ hasAgent = FALSE
  /\ run = "idle" /\ rturn = 0 /\ rwork = 0 /\ reply = "none" /\ kick = FALSE
  /\ worker = [w \in Runs |-> "none"] /\ wturn = [w \in Runs |-> 0]
  /\ ev = [w \in Runs |-> 0] /\ retired = {}
  /\ ops = MaxOps /\ channel \in Channels /\ asked = {} /\ since = FALSE /\ strayed = FALSE

-----------------------------------------------------------------------------
(* Reads and helpers.                                                      *)

Active == {t \in Turns : turn[t] \in LiveStatus}

\* get_active_turn: the newest of them.
ActiveTurn == CHOOSE t \in Active : \A u \in Active : u <= t

\* The turn that create_turn_if_no_active inserts next.
FreshTurns == {t \in Turns : turn[t] = "none" /\ \A u \in 1 .. t - 1 : turn[u] # "none"}

FreshRuns == {w \in Runs : worker[w] = "none" /\ \A v \in 1 .. w - 1 : worker[v] # "none"}

LiveRows == waiting + parked + (IF reg = "held" THEN 1 ELSE 0)

\* The loop runs while a thread is inside an event only if threads are slow.
LoopRuns == SlowThreads \/ \A w \in Runs : ev[w] = 0

Spend == ops > 0 /\ ops' = ops - 1 /\ UNCHANGED channel

\* Mutant: the row's status is not looked at.
TakeRowUnchecked ==
  /\ waiting' = waiting - 1
  /\ UNCHANGED <<arrived, parked, reg, regLate>>

\* send_next archives one live row, a row left waiting_for_steering included.
TakeRow ==
  /\ \/ /\ waiting > 0 /\ waiting' = waiting - 1
        /\ UNCHANGED <<parked, reg>>
     \/ /\ parked > 0 /\ parked' = parked - 1
        /\ UNCHANGED <<waiting, reg>>
     \/ /\ reg = "held" /\ reg' = "gone"
        /\ UNCHANGED <<waiting, parked>>
  /\ UNCHANGED <<arrived, regLate>>

\* ensure_turn returns t.  The cached turn is returned unread; without an active
\* turn the head of the queue, or an empty turn, becomes one.  The callers give
\* the new turn its status and drop the stop flag from before.
EnsureTurn(t) ==
  \/ cache # 0 /\ t = cache /\ UNCHANGED queueVars
  \/ cache = 0 /\ Active # {} /\ t = ActiveTurn /\ UNCHANGED queueVars
  \/ /\ cache = 0 /\ Active = {} /\ t \in FreshTurns
     /\ IF LiveRows > 0 THEN TakeRow ELSE UNCHANGED queueVars

\* complete_turn: a turn in a terminal status is left alone.
CompleteTurn(t, s) ==
  turn' = [turn EXCEPT ![t] = IF @ \in Terminal THEN @ ELSE s]

\* conclude_steering after abort_steering: a row still waiting_for_steering is a
\* waiting row again.
AbortSteering ==
  /\ waiting' = IF reg = "held" THEN waiting + 1 ELSE waiting
  /\ reg' = "none" /\ regLate' = FALSE
  /\ UNCHANGED <<arrived, parked>>

\* conclude_steering alone: the row keeps its status.
ConcludeSteering ==
  /\ parked' = IF reg = "held" THEN parked + 1 ELSE parked
  /\ reg' = "none" /\ regLate' = FALSE
  /\ UNCHANGED <<arrived, waiting>>

\* The same, then ensure_turn takes a row if there is one.
ConcludeAndTakeRow ==
  LET p == IF reg = "held" THEN parked + 1 ELSE parked IN
  /\ \/ waiting > 0 /\ waiting' = waiting - 1 /\ parked' = p
     \/ p > 0 /\ parked' = p - 1 /\ UNCHANGED waiting
     \/ waiting + p = 0 /\ UNCHANGED <<waiting, parked>>
  /\ reg' = "none" /\ regLate' = FALSE
  /\ UNCHANGED arrived

\* retire_agent of the agent in the entry: it registers the id of the agent's
\* current run, which a run that has not started does not have yet.
RetireAgent ==
  retired' = IF hasAgent /\ worker[rwork] \in Alive THEN retired \cup {rwork}
             ELSE retired

\* _discard_agent_with_cleanup: the stop flag goes with the instance.
DiscardAgent == hasAgent' = FALSE /\ agentStop' = FALSE

-----------------------------------------------------------------------------
(* Messages and requests: HTTP handlers and channel callbacks.             *)

Enqueue ==
  /\ ~channel /\ LoopRuns
  /\ arrived < MaxMsgs
  /\ arrived' = arrived + 1 /\ waiting' = waiting + 1
  /\ UNCHANGED <<turnVars, parked, reg, regLate, stopVars, runVars, workVars, givenVars>>

\* Mutant: the turn is inserted without the condition on active turns.
HandleSendNextUnchecked ==
  /\ ~channel /\ LoopRuns
  /\ LiveRows > 0
  /\ \E t \in FreshTurns : turn' = [turn EXCEPT ![t] = "queued"]
  /\ TakeRow
  /\ kick' = TRUE
  /\ UNCHANGED <<cache, stopVars, run, rturn, rwork, reply, hasAgent, workVars, givenVars>>

\* handle_send_next: one row becomes a queued turn and run_turn is scheduled.
HandleSendNext ==
  /\ ~channel /\ LoopRuns
  /\ Active = {} /\ LiveRows > 0
  /\ \E t \in FreshTurns : turn' = [turn EXCEPT ![t] = "queued"]
  /\ TakeRow
  /\ kick' = TRUE
  /\ UNCHANGED <<cache, stopVars, run, rturn, rwork, reply, hasAgent, workVars, givenVars>>

\* on_inbound: the message is enqueued, ensure_turn makes the head a turn if
\* there is none, and run_turn is called.  Both see the row that was added.
OnInbound ==
  /\ channel /\ LoopRuns
  /\ arrived < MaxMsgs
  /\ arrived' = arrived + 1
  /\ IF cache = 0 /\ Active = {}
     THEN \E t \in FreshTurns :
            /\ turn' = [turn EXCEPT ![t] = "queued"]
            /\ cache' = t
            /\ stopFlag' = FALSE
            /\ \/ UNCHANGED <<waiting, parked, reg>>  \* the new row, or another one
               \/ waiting' = waiting + 1 /\ parked > 0 /\ parked' = parked - 1
                  /\ UNCHANGED reg
               \/ waiting' = waiting + 1 /\ reg = "held" /\ reg' = "gone"
                  /\ UNCHANGED parked
     ELSE /\ waiting' = waiting + 1
          /\ cache' = IF cache = 0 THEN ActiveTurn ELSE cache
          /\ UNCHANGED <<turn, stopFlag, parked, reg>>
  /\ kick' = TRUE
  /\ UNCHANGED <<regLate, stopAt, watch, agentStop, asked, since, run, rturn, rwork,
                 reply, hasAgent, workVars, givenVars>>

\* runner.request_stop: the time of the request, the watchdog woken so that it
\* copies it, and the flag of the agent in the entry.
RunnerRequestStop ==
  /\ stopAt' = TRUE
  /\ watch' = IF run \in {"wait", "rewait"} THEN "fresh" ELSE watch
  /\ agentStop' = (hasAgent \/ agentStop)
  /\ since' = (since \/ run \in {"wait", "rewait"})

\* Mutant: the turn that ran last is stopping, active or not.
MarkStoppingLast ==
  IF rturn = 0 THEN UNCHANGED <<turn, asked>>
  ELSE /\ turn' = [turn EXCEPT ![rturn] = "stopping"]
       /\ asked' = asked \cup {rturn}

\* service.request_stop: the active turn is stopping.
MarkStopping ==
  IF Active = {} THEN UNCHANGED <<turn, asked>>
  ELSE /\ turn' = [turn EXCEPT ![ActiveTurn] = "stopping"]
       /\ asked' = asked \cup {ActiveTurn}

\* handle_stop, and a channel's /stop, which returns without an active turn.
HandleStop ==
  /\ LoopRuns /\ Spend
  /\ channel => Active # {}
  /\ MarkStopping
  /\ stopFlag' = (stopFlag \/ Active # {})
  /\ RunnerRequestStop
  /\ UNCHANGED <<cache, queueVars, runVars, workVars>>

\* api_chat's stop: refused without an agent; the bridge's flag is set whether
\* or not there is an active turn.
HandleChatStop ==
  /\ ~channel /\ LoopRuns /\ Spend
  /\ hasAgent
  /\ MarkStopping
  /\ stopFlag' = TRUE
  /\ RunnerRequestStop
  /\ UNCHANGED <<cache, queueVars, runVars, workVars>>

\* handle_steering_prepare: a waiting row is held, the wait record names it (and
\* forgets the row of an earlier one), and the agent is asked to stop.
HandleSteeringPrepare ==
  /\ Steering /\ LoopRuns /\ Spend
  /\ Active # {} /\ waiting > 0
  /\ waiting' = waiting - 1
  /\ parked' = IF reg = "held" THEN parked + 1 ELSE parked
  /\ reg' = "held" /\ regLate' = FALSE
  /\ RunnerRequestStop
  /\ UNCHANGED <<turnVars, arrived, stopFlag, asked, runVars, workVars>>

\* The user deletes the row, or takes the steering back, while it is held.
WithdrawSteering ==
  /\ Steering /\ LoopRuns /\ Spend
  /\ reg = "held" /\ reg' = "gone"
  /\ \/ UNCHANGED waiting                 \* handle_delete_queue
     \/ waiting' = waiting + 1            \* handle_steering_abort
  /\ UNCHANGED <<turnVars, arrived, parked, regLate, stopVars, runVars, workVars>>

-----------------------------------------------------------------------------
(* The runner.                                                             *)

\* A reply task for turn t: the run is pending until the thread starts it.
StartReplyTask(t) ==
  \E w \in FreshRuns :
    /\ worker' = [worker EXCEPT ![w] = "pending"]
    /\ wturn' = [wturn EXCEPT ![w] = t]
    /\ rwork' = w /\ rturn' = t /\ reply' = "none"
    /\ since' = FALSE

\* Mutant: the time of an earlier stop request survives.
RunTurnKeepsStop ==
  /\ kick /\ LoopRuns
  /\ kick' = FALSE
  /\ IF run = "idle" /\ Active # {} /\ turn[ActiveTurn] = "queued"
     THEN /\ run' = "wait"
          /\ StartReplyTask(ActiveTurn)
          /\ watch' = IF stopAt THEN "fresh" ELSE "none"
          /\ IF regLate THEN AbortSteering ELSE UNCHANGED queueVars
     ELSE UNCHANGED <<queueVars, worker, wturn, rwork, rturn, reply, since, run, watch>>
  /\ UNCHANGED <<turnVars, stopAt, stopFlag, agentStop, asked, hasAgent, ev, retired,
                 strayed, givenVars>>

\* run_turn and _execute up to the first wait: nothing happens unless the active
\* turn is queued and no other run_turn is inside; the time of an earlier stop
\* request is dropped, a steering record that is already late is aborted.
RunTurn ==
  /\ kick /\ LoopRuns
  /\ kick' = FALSE
  /\ stopAt' = FALSE
  /\ IF run = "idle" /\ Active # {} /\ turn[ActiveTurn] = "queued"
     THEN /\ run' = "wait"
          /\ StartReplyTask(ActiveTurn)
          /\ watch' = "none"
          /\ IF regLate THEN AbortSteering ELSE UNCHANGED queueVars
     ELSE UNCHANGED <<queueVars, worker, wturn, rwork, rturn, reply, since, run, watch>>
  /\ UNCHANGED <<turnVars, stopFlag, agentStop, asked, hasAgent, ev, retired, strayed, givenVars>>

\* _await_with_watchdogs returns the reply r: the stop time is consumed.
Replied(phase, r) ==
  /\ LoopRuns
  /\ run = phase /\ reply = r
  /\ stopAt' = FALSE /\ watch' = "none"

\* bridge.on_reply: the turn that ensure_turn names, which need not be the
\* runner's, is stopped if a stop was requested and done otherwise.
OnReply ==
  /\ \E t \in Turns :
       /\ EnsureTurn(t)
       /\ CompleteTurn(t, IF stopFlag /\ turn[t] # "none" THEN "stopped" ELSE "done")
  /\ cache' = 0 /\ stopFlag' = FALSE

\* _execute after a reply, nothing to inject: on_reply, then for a channel the
\* delivery of the reply, which the runner awaits.
FinishReply ==
  /\ \E r \in {"ok", "halted"} : Replied("wait", r)
  /\ reg = "none"
  /\ OnReply
  /\ run' = IF channel THEN "deliver" ELSE "idle"
  /\ UNCHANGED <<agentStop, asked, since, rturn, rwork, reply, kick, hasAgent, workVars, givenVars>>

\* Another path holds the session's lock: the turn ends without an answer.
FinishBusy ==
  /\ Replied("wait", "busy")
  /\ reg = "none"
  /\ CompleteTurn(rturn, "busy")
  /\ cache' = 0
  /\ run' = "idle"
  /\ UNCHANGED <<queueVars, stopFlag, agentStop, asked, since, rturn, rwork, reply, kick,
                 hasAgent, workVars, givenVars>>

\* Delivered or not, the channel's FIFO goes on: run_turn is scheduled if rows
\* are waiting and no turn is active.
FinishDelivery ==
  /\ LoopRuns
  /\ run = "deliver"
  /\ run' = "idle"
  /\ kick' = (kick \/ (Active = {} /\ LiveRows > 0))
  /\ UNCHANGED <<turnVars, queueVars, stopVars, rturn, rwork, reply, hasAgent, workVars, givenVars>>

\* _resume_after_steering: the held row is injected into the active turn and the
\* agent runs again, for the same turn, with its text.
ResumeAfterSteering ==
  /\ \E r \in {"ok", "halted", "busy"} : Replied("wait", r)
  /\ reg = "held" /\ Active # {}
  /\ reg' = "none" /\ regLate' = FALSE
  /\ run' = "rewait"
  /\ StartReplyTask(rturn)
  /\ UNCHANGED <<turnVars, arrived, waiting, parked, stopFlag, agentStop, asked, kick,
                 hasAgent, ev, retired, strayed, givenVars>>

\* The same when commit_steering injects nothing: the row was withdrawn, or no
\* turn is active and it is a waiting row again.  The turn is left as it is.
ResumeWithNothing ==
  /\ \E r \in {"ok", "halted", "busy"} : Replied("wait", r)
  /\ \/ reg = "gone" /\ Active # {} /\ UNCHANGED waiting
     \/ reg # "none" /\ Active = {} /\ waiting' = waiting + 1
  /\ reg' = "none" /\ regLate' = FALSE
  /\ run' = "idle"
  /\ UNCHANGED <<turnVars, arrived, parked, stopFlag, agentStop, asked, since, rturn,
                 rwork, reply, kick, hasAgent, workVars, givenVars>>

\* The resumed run's reply ends the turn, a busy reply as its text; a steering
\* prepared meanwhile stays registered.
FinishResumed ==
  /\ \E r \in {"ok", "halted", "busy"} : Replied("rewait", r)
  /\ OnReply
  /\ run' = "idle"
  /\ UNCHANGED <<agentStop, asked, since, rturn, rwork, reply, kick, hasAgent, workVars, givenVars>>

\* The exception paths: the wait record goes (its row keeps its status), on_error
\* ends the turn that ensure_turn names; only _execute drops the agent.
FinishFailed ==
  /\ \/ Replied("wait", "fail") /\ DiscardAgent
     \/ Replied("rewait", "fail") /\ UNCHANGED <<hasAgent, agentStop>>
  /\ \/ /\ ConcludeSteering
        /\ \/ cache # 0 /\ CompleteTurn(cache, "error")
           \/ cache = 0 /\ Active # {} /\ CompleteTurn(ActiveTurn, "error")
     \/ /\ cache = 0 /\ Active = {}
        /\ \E t \in FreshTurns : CompleteTurn(t, "error")
        /\ ConcludeAndTakeRow
  /\ cache' = 0 /\ stopFlag' = FALSE
  /\ run' = "idle"
  /\ UNCHANGED <<asked, since, rturn, rwork, reply, kick, workVars, givenVars>>

\* Mutant: the cache of the active turn is kept.
GiveUpKeepsCache(phase) ==
  /\ LoopRuns
  /\ run = phase /\ reply = "none"
  /\ SlowThreads \/ worker[rwork] # "pending"
  /\ RetireAgent /\ DiscardAgent
  /\ watch' = "none"
  /\ UNCHANGED <<cache, asked, since, rturn, rwork, reply, kick, worker, wturn, ev, strayed, givenVars>>

\* A watchdog gives the run up: its events are retired, its agent discarded.
GiveUp(phase) ==
  /\ LoopRuns
  /\ run = phase /\ reply = "none"
  /\ SlowThreads \/ worker[rwork] # "pending"
  /\ RetireAgent /\ DiscardAgent
  /\ cache' = 0
  /\ watch' = "none"
  /\ UNCHANGED <<asked, since, rturn, rwork, reply, kick, worker, wturn, ev, strayed, givenVars>>

\* 10 s after the stop request: the turn is error(stop_timeout), held rows wait
\* again, every trace of the request is consumed, and the run gets 30 s to end.
StopTimeout ==
  /\ watch = "late"
  /\ GiveUp("wait")
  /\ AbortSteering
  /\ CompleteTurn(rturn, "stop_timeout")
  /\ stopFlag' = FALSE /\ stopAt' = FALSE
  /\ run' = "grace"

\* The same in a resumed run: no steering is cleaned up and no 30 s are waited.
ResumedStopTimeout ==
  /\ watch = "late"
  /\ GiveUp("rewait")
  /\ CompleteTurn(rturn, "stop_timeout")
  /\ stopFlag' = FALSE
  /\ run' = "idle"
  /\ UNCHANGED <<queueVars, stopAt>>

\* 10 s after the steering was registered: error(steering_interrupt_timeout).
SteeringTimeout ==
  /\ watch # "late" /\ reg # "none" /\ regLate
  /\ \/ /\ GiveUp("wait") /\ stopAt' = FALSE /\ run' = "grace"
     \/ /\ GiveUp("rewait") /\ run' = "idle" /\ UNCHANGED stopAt
  /\ AbortSteering
  /\ CompleteTurn(rturn, "steer_timeout")
  /\ UNCHANGED stopFlag

\* The given-up run ends or its 30 s are over and the reply task is cancelled; a
\* run still waiting for its agent never starts then.
GraceEnds ==
  /\ LoopRuns
  /\ run = "grace"
  /\ run' = "idle"
  /\ \/ UNCHANGED worker
     \/ worker[rwork] = "pending" /\ worker' = [worker EXCEPT ![rwork] = "ended"]
  /\ UNCHANGED <<turnVars, queueVars, stopVars, rturn, rwork, reply, kick, hasAgent,
                 wturn, ev, retired, strayed, givenVars>>

\* Ten seconds pass.
StopLate ==
  /\ watch = "fresh" /\ watch' = "late"
  /\ UNCHANGED <<turnVars, queueVars, stopAt, stopFlag, agentStop, asked, since, runVars,
                 workVars, givenVars>>

SteeringLate ==
  /\ reg # "none" /\ ~regLate /\ regLate' = TRUE
  /\ UNCHANGED <<turnVars, arrived, waiting, parked, reg, stopVars, runVars, workVars, givenVars>>

-----------------------------------------------------------------------------
(* The executor thread that runs the agent.                                *)

\* The runner still waits for w's reply.
Awaited(w) == w = rwork /\ run \in {"wait", "rewait"} /\ reply = "none"

\* w's agent is the one in the session's entry.
Attached(w) == w = rwork /\ hasAgent

\* _execute_agent finds the session's lock taken by another path.
SessionBusy(w) ==
  /\ LoopRuns
  /\ Awaited(w) /\ worker[w] = "pending"
  /\ reply' = "busy"
  /\ worker' = [worker EXCEPT ![w] = "ended"]
  /\ UNCHANGED <<turnVars, queueVars, stopVars, run, rturn, rwork, kick, hasAgent, wturn,
                 ev, retired, strayed, givenVars>>

\* The agent is created if the entry has none, and agent.run begins: the run has
\* an id.  A task given up meanwhile may still put its agent into the entry.
WorkerStarts(w) ==
  /\ worker[w] = "pending"
  /\ worker' = [worker EXCEPT ![w] = "started"]
  /\ \/ Awaited(w) /\ hasAgent' = TRUE
     \/ w = rwork /\ run = "grace" /\ hasAgent' = TRUE
     \/ ~Awaited(w) /\ UNCHANGED hasAgent
  /\ UNCHANGED <<turnVars, queueVars, stopVars, run, rturn, rwork, reply, kick, wturn, ev,
                 retired, strayed, givenVars>>

\* Agent._run_native_loop reaches a step and no stop is requested.
WorkerStep(w) ==
  /\ worker[w] = "started"
  /\ ~(Attached(w) /\ agentStop)
  /\ worker' = [worker EXCEPT ![w] = "working"]
  /\ UNCHANGED <<turnVars, queueVars, stopVars, runVars, wturn, ev, retired, strayed, givenVars>>

\* It reaches a step and consumes a stop request.
WorkerHalts(w) ==
  /\ worker[w] \in Alive /\ ev[w] = 0
  /\ Attached(w) /\ agentStop
  /\ agentStop' = FALSE
  /\ worker' = [worker EXCEPT ![w] = "ended"]
  /\ reply' = IF Awaited(w) THEN "halted" ELSE reply
  /\ UNCHANGED <<turnVars, queueVars, stopAt, watch, stopFlag, asked, since, run, rturn,
                 rwork, kick, hasAgent, wturn, ev, retired, strayed, givenVars>>

\* The run ends with an answer; a stop requested during the last model call is
\* not looked at any more.  A run that was given up ends somehow.
WorkerAnswers(w) ==
  /\ worker[w] = "working" \/ (worker[w] = "started" /\ ~Attached(w))
  /\ ev[w] = 0
  /\ worker' = [worker EXCEPT ![w] = "ended"]
  /\ reply' = IF Awaited(w) THEN "ok" ELSE reply
  /\ UNCHANGED <<turnVars, queueVars, stopVars, run, rturn, rwork, kick, hasAgent, wturn,
                 ev, retired, strayed, givenVars>>

\* The agent cannot be created, or agent.run raises.
WorkerFails(w) ==
  /\ worker[w] \in Alive \cup {"pending"} /\ ev[w] = 0
  /\ Awaited(w)
  /\ worker' = [worker EXCEPT ![w] = "ended"]
  /\ reply' = "fail"
  /\ UNCHANGED <<turnVars, queueVars, stopVars, run, rturn, rwork, kick, hasAgent, wturn,
                 ev, retired, strayed, givenVars>>

\* Mutant: the run is quarantined but its awaiter gets no reply.
HardTimeoutSilent(w) ==
  /\ LoopRuns
  /\ Awaited(w)
  /\ worker[w] \in Alive \/ (SlowThreads /\ worker[w] = "pending")
  /\ RetireAgent /\ DiscardAgent
  /\ UNCHANGED <<turnVars, queueVars, stopAt, watch, stopFlag, asked, since, run, rturn,
                 rwork, reply, kick, worker, wturn, ev, strayed, givenVars>>

\* _await_agent_future's hard timeout: the run is quarantined, a text that says so
\* is the reply.
HardTimeout(w) ==
  /\ LoopRuns
  /\ Awaited(w)
  /\ worker[w] \in Alive \/ (SlowThreads /\ worker[w] = "pending")
  /\ RetireAgent /\ DiscardAgent
  /\ reply' = "ok"
  /\ UNCHANGED <<turnVars, queueVars, stopAt, watch, stopFlag, asked, since, run, rturn,
                 rwork, kick, worker, wturn, ev, strayed, givenVars>>

\* event_sink: the events of a retired run are dropped.
SinkCheck(w) ==
  /\ worker[w] \in Alive /\ ev[w] = 0
  /\ w \notin retired
  /\ ev' = [ev EXCEPT ![w] = Sink]
  /\ UNCHANGED <<turnVars, queueVars, stopVars, runVars, worker, wturn, retired, strayed, givenVars>>

\* on_agent_event: ensure_turn, on the executor thread.
EventTurn(w) ==
  /\ ev[w] = Sink
  /\ \E t \in Turns :
       /\ EnsureTurn(t)
       /\ ev' = [ev EXCEPT ![w] = t]
       /\ cache' = t
       /\ turn' = IF turn[t] = "none" THEN [turn EXCEPT ![t] = "queued"] ELSE turn
       /\ stopFlag' = (stopFlag /\ turn[t] # "none")
       /\ strayed' = (strayed \/ t # wturn[w])
  /\ UNCHANGED <<stopAt, watch, agentStop, asked, since, runVars, worker, wturn, retired, givenVars>>

\* _set_turn_stage: the turn's status is written, whatever it is by now, unless
\* the stage is the one written last.
EventStage(w) ==
  /\ ev[w] \in Turns
  /\ turn' \in {turn, [turn EXCEPT ![ev[w]] = "running"]}
  /\ ev' = [ev EXCEPT ![w] = 0]
  /\ UNCHANGED <<cache, queueVars, stopVars, runVars, worker, wturn, retired, strayed, givenVars>>

-----------------------------------------------------------------------------
Runner ==
  \/ RunTurn \/ FinishReply \/ FinishBusy \/ FinishDelivery \/ FinishResumed
  \/ ResumeAfterSteering \/ ResumeWithNothing \/ FinishFailed
  \/ StopTimeout \/ ResumedStopTimeout \/ SteeringTimeout \/ GraceEnds

Worker(w) ==
  \/ SessionBusy(w) \/ WorkerStarts(w) \/ WorkerStep(w) \/ WorkerHalts(w)
  \/ WorkerAnswers(w) \/ WorkerFails(w) \/ HardTimeout(w)
  \/ SinkCheck(w) \/ EventTurn(w) \/ EventStage(w)

Next ==
  \/ Enqueue \/ HandleSendNext \/ OnInbound
  \/ HandleStop \/ HandleChatStop \/ HandleSteeringPrepare \/ WithdrawSteering
  \/ Runner
  \/ StopLate \/ SteeringLate
  \/ \E w \in Runs : Worker(w)

Spec == Init /\ [][Next]_vars

\* The loop runs what is ready, its timers fire, a thread finishes the event it
\* is in, and a submitted run starts or hits the hard timeout.  That an agent's
\* run ends, or reaches another step, is not assumed.  The fairness of the loop's
\* steps is strong because LoopRuns, which stands for fast threads, disables them
\* during an event.
Fairness ==
  /\ SF_vars(Runner)
  /\ WF_vars(StopLate) /\ WF_vars(SteeringLate)
  /\ \A w \in Runs :
       /\ WF_vars(WorkerStarts(w)) /\ SF_vars(HardTimeout(w))
       /\ WF_vars(EventTurn(w)) /\ WF_vars(EventStage(w))

FairSpec == Spec /\ Fairness

-----------------------------------------------------------------------------
(* Properties.                                                             *)

\* store.get_active_turn: a conversation has at most one non-terminal turn.
OneLiveTurn == Cardinality(Active) <= 1

\* complete_turn's terminal statuses are final.
EndedStaysEnded == \A t \in Turns : turn[t] \in Terminal => turn'[t] = turn[t]

TerminalIsFinal == [][EndedStaysEnded]_vars

\* An agent's events are written to the turn it runs for, never to the turn of a
\* later message: what retire_agent is for.
EventsStayHome == ~strayed

\* run_turn: the stop watchdog ends a run only if a stop was requested since the
\* runner began to wait for it; a request that an earlier turn left behind never
\* kills a healthy one.
WatchdogWasAsked ==
  [][\A t \in Turns : turn[t] # "stop_timeout" /\ turn'[t] = "stop_timeout" => since]_vars

\* bridge: a stop request acts on the turn that was active when it was made; no
\* other turn is recorded as stopped (and loses its reply).
StoppedWasAsked == \A t \in Turns : turn[t] = "stopped" => t \in asked

\* The agent's flag likewise: a run halts only if a stop was requested since the
\* runner began to wait for it.
HaltWasAsked == [][reply = "none" /\ reply' = "halted" => since]_vars

\* A turn that the runner waits for ends, whatever the agent does.
TurnEnds ==
  \A t \in Turns : (run \in {"wait", "rewait"} /\ rturn = t) ~> turn[t] \in Terminal

\* handle_send_next: a turn that it created is executed and ends, or is stopped.
QueuedTurnRuns ==
  \A t \in Turns : turn[t] = "queued" ~> (turn[t] \in Terminal \/ t \in asked)

\* The stop watchdog: a turn that was asked to stop ends, in time or by error.
StopConcludes == \A t \in Turns : t \in asked ~> turn[t] \in Terminal

\* A channel's queue advances by itself: if messages wait when a reply has been
\* delivered and no turn is active, the next one becomes a turn.
ChannelAdvances ==
  (run = "deliver" /\ LiveRows > 0 /\ Active = {}) ~> (LiveRows = 0 \/ Active # {})
=============================================================================
