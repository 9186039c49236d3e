--------------------------- MODULE ExecutionProofs ---------------------------
(* Theorems about TurnExecution, for any number of turns, runs, messages and      *)
(* requests.  Executor threads are fast in most of them (SlowThreads is FALSE):   *)
(* the loop makes no step while a thread is inside an event.  The invariant is    *)
(* that an agent which may still write is the one the runner waits for: whoever   *)
(* gives a run up retires it in the same step, so the turn an event finds is the  *)
(* one live turn, the runner's.                                                   *)
EXTENDS TurnExecution, FiniteSetTheorems, TLAPS

Live(t) == t \in Turns /\ turn[t] \in LiveStatus
Waits == run \in {"wait", "rewait"}

\* Turns: the cached turn, the turn an event is about to be written to and the runner's turn
\* are live, and there is one live turn only.
CacheIsLive == cache # 0 => Live(cache)
EventIsLive == \A w \in Runs : ev[w] \in Turns => Live(ev[w])
OneActive == \A t, u \in Turns : Live(t) /\ Live(u) => t = u
RunnerHasTurn == Waits => Live(rturn)

\* Runs: one that is pending, or may write, is awaited, and its agent is in the entry.
RunnerHasWork == (Waits \/ run = "grace" => rwork \in Runs) /\ (Waits => wturn[rwork] = rturn)
WorkIsAwaited ==
  \A w \in Runs : worker[w] = "pending" \/ (worker[w] \in Alive /\ w \notin retired) => Awaited(w)
AgentIsThere == \A w \in Runs : worker[w] \in Alive /\ w \notin retired => hasAgent
EventRuns == \A w \in Runs : ev[w] # 0 => worker[w] \in Alive /\ w \notin retired

\* The watchdog has a time only if a stop was requested since the runner began to wait.
WatchWasAsked == watch # "none" => since

\* Types, in groups: numbers, flags and places need different provers.
Status == LiveStatus \cup Terminal \cup {"none"}
TurnTypes == turn \in [Turns -> Status] /\ cache \in 0 .. MaxTurns /\ asked \in SUBSET Turns
CountTypes ==
  /\ arrived \in Nat /\ waiting \in Nat /\ parked \in Nat /\ ops \in Nat
  /\ reg \in {"none", "held", "gone"}
FlagTypes ==
  /\ regLate \in BOOLEAN /\ stopAt \in BOOLEAN /\ stopFlag \in BOOLEAN /\ agentStop \in BOOLEAN
  /\ hasAgent \in BOOLEAN /\ kick \in BOOLEAN /\ since \in BOOLEAN /\ strayed \in BOOLEAN
PlaceTypes ==
  /\ watch \in {"none", "fresh", "late"}
  /\ run \in {"idle", "wait", "rewait", "grace", "deliver"}
  /\ rturn \in 0 .. MaxTurns /\ rwork \in 0 .. MaxRuns
  /\ reply \in {"none", "ok", "halted", "busy", "fail"}
  /\ worker \in [Runs -> WorkerState] /\ wturn \in [Runs -> 0 .. MaxTurns]
  /\ ev \in [Runs -> 0 .. Sink] /\ retired \in SUBSET Runs
  /\ channel \in Channels

Types == TurnTypes /\ CountTypes /\ FlagTypes /\ PlaceTypes
TurnInv == CacheIsLive /\ EventIsLive /\ OneActive /\ RunnerHasTurn
WorkInv == RunnerHasWork /\ WorkIsAwaited /\ AgentIsThere /\ EventRuns
ExecInv == Types /\ TurnInv /\ WorkInv /\ EventsStayHome

-----------------------------------------------------------------------------
(* What the helpers of the model do.                                         *)

\* The bounds are numbers.
LEMMA NumbersAreNat == MaxTurns \in Nat /\ MaxRuns \in Nat /\ MaxMsgs \in Nat /\ MaxOps \in Nat
BY ExecutionAssumption

\* The groups together are the type invariant of the model.
LEMMA TypesAreTypeOK == TypeOK <=> Types
BY DEF TypeOK, Types, TurnTypes, CountTypes, FlagTypes, PlaceTypes, Status

\* Rows are counted in numbers, whatever is done to the queue.
LEMMA QueueSteps ==
  ASSUME CountTypes, ops' \in Nat, TakeRow \/ AbortSteering \/ ConcludeSteering \/ ConcludeAndTakeRow \/ UNCHANGED queueVars
  PROVE  CountTypes'
<1>1. CASE TakeRow BY <1>1 DEF CountTypes, TakeRow
<1>2. CASE AbortSteering BY <1>2 DEF CountTypes, AbortSteering
<1>3. CASE ConcludeSteering BY <1>3 DEF CountTypes, ConcludeSteering
<1>4. CASE ConcludeAndTakeRow BY <1>4 DEF CountTypes, ConcludeAndTakeRow
<1>5. CASE UNCHANGED queueVars BY <1>5 DEF CountTypes, queueVars
<1> QED BY <1>1, <1>2, <1>3, <1>4, <1>5

\* ensure_turn takes at most one row.
LEMMA EnsureTurnQueue ==
  ASSUME CountTypes, ops' \in Nat, NEW t, EnsureTurn(t)
  PROVE  CountTypes'
BY QueueSteps DEF EnsureTurn

\* get_active_turn finds the only live turn, if there is one.
LEMMA ActiveTurnIsIt ==
  ASSUME OneActive, Active # {}
  PROVE  Live(ActiveTurn) /\ \A t : Live(t) => t = ActiveTurn
<1>1. PICK a \in Active : TRUE
  OBVIOUS
<1>2. Live(a) /\ \A u \in Active : u = a
  BY <1>1 DEF OneActive, Active, Live
<1>3. \A u \in Active : u <= a
  BY <1>1, <1>2, NumbersAreNat DEF Active, Turns
<1>4. ActiveTurn \in Active
  BY <1>1, <1>3 DEF ActiveTurn
<1> QED BY <1>2, <1>4 DEF Active, Live

\* The window of a steering is over or not.
LEMMA QueueFlag ==
  ASSUME regLate \in BOOLEAN,
         TakeRow \/ AbortSteering \/ ConcludeSteering \/ ConcludeAndTakeRow \/ UNCHANGED queueVars
  PROVE  regLate' \in BOOLEAN
BY Zenon DEF TakeRow, AbortSteering, ConcludeSteering, ConcludeAndTakeRow, queueVars

\* The same for ensure_turn.
LEMMA EnsureTurnFlag ==
  ASSUME regLate \in BOOLEAN, NEW t, EnsureTurn(t)
  PROVE  regLate' \in BOOLEAN
BY QueueFlag, Zenon DEF EnsureTurn

\* complete_turn makes no turn live.
LEMMA CompleteEnds ==
  ASSUME turn \in [Turns -> Status], NEW t, NEW s \in Terminal, CompleteTurn(t, s)
  PROVE  /\ turn' \in [Turns -> Status]
         /\ \A u \in Turns : turn'[u] \in LiveStatus => turn[u] \in LiveStatus
BY DEF CompleteTurn, Status, LiveStatus, Terminal

\* A runner that ends a turn, drops the cache and does not wait leaves nothing to write to.
LEMMA RunnerLeaves ==
  ASSUME ~SlowThreads, LoopRuns, turn \in [Turns -> Status], OneActive,
         NEW t, NEW s \in Terminal, CompleteTurn(t, s),
         cache' = 0, ev' = ev, run' \notin {"wait", "rewait"}
  PROVE  TurnInv'
<1>1. \A w \in Runs : ev[w] = 0 /\ ev[w] \notin Turns
  BY NumbersAreNat DEF LoopRuns, Turns
<1>2. OneActive'
  BY CompleteEnds DEF OneActive, Live
<1> QED BY <1>1, <1>2 DEF TurnInv, CacheIsLive, EventIsLive, RunnerHasTurn, Waits

\* ensure_turn on an executor thread returns the turn that the agent was started for.
LEMMA EventAtHome ==
  ASSUME ExecInv, NEW w \in Runs, ev[w] # 0, NEW t, EnsureTurn(t)
  PROVE  Live(t) /\ t = wturn[w]
<1>1. Waits /\ w = rwork
  BY DEF ExecInv, WorkInv, EventRuns, WorkIsAwaited, Awaited, Waits
<1>2. Live(rturn) /\ rturn = wturn[w]
  BY <1>1 DEF ExecInv, TurnInv, WorkInv, RunnerHasTurn, RunnerHasWork
<1>3. Active # {} /\ ActiveTurn = rturn
  BY <1>2, ActiveTurnIsIt DEF Active, Live, ExecInv, TurnInv
<1>4. cache # 0 => cache = rturn
  BY <1>2 DEF ExecInv, TurnInv, CacheIsLive, OneActive, Live
<1> QED BY <1>2, <1>3, <1>4 DEF EnsureTurn

\* A reply task is a new run for an existing turn.
LEMMA ReplyTaskPlaces ==
  ASSUME PlaceTypes, NEW t \in 0 .. MaxTurns, StartReplyTask(t)
  PROVE  /\ worker' \in [Runs -> WorkerState] /\ wturn' \in [Runs -> 0 .. MaxTurns]
         /\ rwork' \in 0 .. MaxRuns /\ rturn' \in 0 .. MaxTurns /\ reply' = "none"
<1>1. PICK w \in FreshRuns : /\ worker' = [worker EXCEPT ![w] = "pending"]
                            /\ wturn' = [wturn EXCEPT ![w] = t]
                            /\ rwork' = w /\ rturn' = t /\ reply' = "none"
  BY Zenon DEF StartReplyTask
<1>2. w \in Runs /\ w \in 0 .. MaxRuns
  BY NumbersAreNat DEF FreshRuns, Runs
<1> QED BY <1>1, <1>2 DEF PlaceTypes, WorkerState

\* The invariant holds at the start.
LEMMA InitInv == Init => ExecInv
<1> SUFFICES ASSUME Init PROVE ExecInv
  OBVIOUS
<1>1. TurnTypes
  BY NumbersAreNat DEF Init, TurnTypes, Status
<1>2. CountTypes
  BY NumbersAreNat DEF Init, CountTypes
<1>3. FlagTypes
  BY Zenon DEF Init, FlagTypes
<1>4. PlaceTypes
  BY NumbersAreNat DEF Init, PlaceTypes, WorkerState, Sink
<1>5. TurnInv
  BY DEF Init, TurnInv, CacheIsLive, EventIsLive, OneActive, RunnerHasTurn, Live, Waits, LiveStatus, Turns
<1>6. WorkInv
  BY DEF Init, WorkInv, RunnerHasWork, WorkIsAwaited, AgentIsThere, EventRuns, Waits, Alive
<1>7. EventsStayHome
  BY DEF Init, EventsStayHome
<1> QED BY <1>1, <1>2, <1>3, <1>4, <1>5, <1>6, <1>7 DEF ExecInv, Types

\* A message is queued: turns and runs are untouched.
LEMMA EnqueueInv ==
  ASSUME ~SlowThreads, ExecInv, Enqueue
  PROVE  ExecInv'
<1> USE NumbersAreNat
<1>1. TurnTypes'
  BY DEF ExecInv, Types, TurnTypes, Enqueue, turnVars, stopVars
<1>2. CountTypes'
  BY DEF ExecInv, Types, CountTypes, Enqueue, givenVars
<1>3. FlagTypes'
  BY Zenon DEF ExecInv, Types, FlagTypes, Enqueue, stopVars, runVars, workVars
<1>4. PlaceTypes'
  BY DEF ExecInv, Types, PlaceTypes, Enqueue, stopVars, runVars, workVars, givenVars
<1>5. TurnInv'
  BY DEF ExecInv, TurnInv, CacheIsLive, EventIsLive, OneActive, RunnerHasTurn, Live, Waits,
     Enqueue, turnVars, runVars, workVars
<1>6. WorkInv'
  BY DEF ExecInv, WorkInv, RunnerHasWork, WorkIsAwaited, AgentIsThere, EventRuns, Waits,
     Awaited, Enqueue, runVars, workVars
<1>7. EventsStayHome'
  BY DEF ExecInv, EventsStayHome, Enqueue, workVars
<1> QED BY <1>1, <1>2, <1>3, <1>4, <1>5, <1>6, <1>7 DEF ExecInv, Types

\* send_next makes a turn live when none is.
LEMMA HandleSendNextInv ==
  ASSUME ~SlowThreads, ExecInv, HandleSendNext
  PROVE  ExecInv'
<1> USE NumbersAreNat
<1>1. TurnTypes'
  BY ActiveTurnIsIt DEF ExecInv, Types, TurnTypes, Status, TurnInv, CacheIsLive, RunnerHasTurn,
     Live, Turns, HandleSendNext, FreshTurns, stopVars, LiveStatus, Terminal
<1>2. CountTypes'
  BY QueueSteps DEF ExecInv, Types, CountTypes, HandleSendNext, FreshTurns, givenVars
<1>3. FlagTypes'
  BY QueueFlag, Zenon DEF ExecInv, Types, FlagTypes, HandleSendNext, FreshTurns, stopVars,
     workVars
<1>4. PlaceTypes'
  BY DEF ExecInv, Types, PlaceTypes, HandleSendNext, FreshTurns, stopVars, workVars, givenVars
<1>5. TurnInv'
  BY ActiveTurnIsIt DEF ExecInv, Types, TurnTypes, PlaceTypes, TurnInv, CacheIsLive,
     EventIsLive, OneActive, RunnerHasTurn, Live, Waits, LiveStatus, Terminal, Active, LoopRuns,
     Sink, HandleSendNext, FreshTurns, workVars
<1>6. WorkInv'
  BY DEF ExecInv, WorkInv, RunnerHasWork, WorkIsAwaited, AgentIsThere, EventRuns, Waits,
     Awaited, HandleSendNext, FreshTurns, workVars
<1>7. EventsStayHome'
  BY DEF ExecInv, EventsStayHome, HandleSendNext, FreshTurns, workVars
<1> QED BY <1>1, <1>2, <1>3, <1>4, <1>5, <1>6, <1>7 DEF ExecInv, Types

\* A channel's message makes one live when none is, or joins the live one.
LEMMA OnInboundInv ==
  ASSUME ~SlowThreads, ExecInv, OnInbound
  PROVE  ExecInv'
<1> USE NumbersAreNat
<1>1. TurnTypes'
  BY ActiveTurnIsIt DEF ExecInv, Types, TurnTypes, Status, TurnInv, CacheIsLive, RunnerHasTurn,
     Live, Turns, OnInbound, FreshTurns, LiveStatus, Terminal
<1>2. CountTypes'
  BY DEF ExecInv, Types, CountTypes, OnInbound, FreshTurns, givenVars
<1>3. FlagTypes'
  BY Zenon DEF ExecInv, Types, FlagTypes, OnInbound, FreshTurns, workVars
<1>4. PlaceTypes'
  BY DEF ExecInv, Types, PlaceTypes, OnInbound, FreshTurns, workVars, givenVars
<1>5. TurnInv'
  BY ActiveTurnIsIt DEF ExecInv, Types, TurnTypes, PlaceTypes, TurnInv, CacheIsLive,
     EventIsLive, OneActive, RunnerHasTurn, Live, Waits, LiveStatus, Terminal, Active, LoopRuns,
     Sink, OnInbound, FreshTurns, workVars
<1>6. WorkInv'
  BY DEF ExecInv, WorkInv, RunnerHasWork, WorkIsAwaited, AgentIsThere, EventRuns, Waits,
     Awaited, OnInbound, FreshTurns, workVars
<1>7. EventsStayHome'
  BY DEF ExecInv, EventsStayHome, OnInbound, FreshTurns, workVars
<1> QED BY <1>1, <1>2, <1>3, <1>4, <1>5, <1>6, <1>7 DEF ExecInv, Types

\* A stop request marks the live turn.
LEMMA HandleStopInv ==
  ASSUME ~SlowThreads, ExecInv, HandleStop
  PROVE  ExecInv'
<1> USE NumbersAreNat
<1>1. TurnTypes'
  BY ActiveTurnIsIt DEF ExecInv, Types, TurnTypes, Status, TurnInv, CacheIsLive, RunnerHasTurn,
     Live, Turns, HandleStop, Spend, MarkStopping, LiveStatus, Terminal
<1>2. CountTypes'
  BY DEF ExecInv, Types, CountTypes, HandleStop, Spend, queueVars
<1>3. FlagTypes'
  BY Zenon DEF ExecInv, Types, FlagTypes, HandleStop, Spend, RunnerRequestStop, queueVars,
     runVars, workVars
<1>4. PlaceTypes'
  BY ActiveTurnIsIt DEF ExecInv, Types, PlaceTypes, WorkerState, Sink, Runs, Turns, Alive, Live,
     TurnInv, WorkInv, RunnerHasTurn, RunnerHasWork, Waits, Awaited, HandleStop, Spend,
     RunnerRequestStop, runVars, workVars
<1>5. TurnInv'
  BY ActiveTurnIsIt DEF ExecInv, Types, TurnTypes, PlaceTypes, TurnInv, CacheIsLive,
     EventIsLive, OneActive, RunnerHasTurn, Live, Waits, LiveStatus, Terminal, Active, LoopRuns,
     Sink, HandleStop, Spend, MarkStopping, runVars, workVars
<1>6. WorkInv'
  BY DEF ExecInv, WorkInv, RunnerHasWork, WorkIsAwaited, AgentIsThere, EventRuns, Waits,
     Awaited, HandleStop, Spend, runVars, workVars
<1>7. EventsStayHome'
  BY DEF ExecInv, EventsStayHome, HandleStop, Spend, workVars
<1> QED BY <1>1, <1>2, <1>3, <1>4, <1>5, <1>6, <1>7 DEF ExecInv, Types

\* The stop of the chat page likewise.
LEMMA HandleChatStopInv ==
  ASSUME ~SlowThreads, ExecInv, HandleChatStop
  PROVE  ExecInv'
<1> USE NumbersAreNat
<1>1. TurnTypes'
  BY ActiveTurnIsIt DEF ExecInv, Types, TurnTypes, Status, TurnInv, CacheIsLive, RunnerHasTurn,
     Live, Turns, HandleChatStop, Spend, MarkStopping, LiveStatus, Terminal
<1>2. CountTypes'
  BY DEF ExecInv, Types, CountTypes, HandleChatStop, Spend, queueVars
<1>3. FlagTypes'
  BY Zenon DEF ExecInv, Types, FlagTypes, HandleChatStop, Spend, RunnerRequestStop, queueVars,
     runVars, workVars
<1>4. PlaceTypes'
  BY ActiveTurnIsIt DEF ExecInv, Types, PlaceTypes, WorkerState, Sink, Runs, Turns, Alive, Live,
     TurnInv, WorkInv, RunnerHasTurn, RunnerHasWork, Waits, Awaited, HandleChatStop, Spend,
     RunnerRequestStop, runVars, workVars
<1>5. TurnInv'
  BY ActiveTurnIsIt DEF ExecInv, Types, TurnTypes, PlaceTypes, TurnInv, CacheIsLive,
     EventIsLive, OneActive, RunnerHasTurn, Live, Waits, LiveStatus, Terminal, Active, LoopRuns,
     Sink, HandleChatStop, Spend, MarkStopping, runVars, workVars
<1>6. WorkInv'
  BY DEF ExecInv, WorkInv, RunnerHasWork, WorkIsAwaited, AgentIsThere, EventRuns, Waits,
     Awaited, HandleChatStop, Spend, runVars, workVars
<1>7. EventsStayHome'
  BY DEF ExecInv, EventsStayHome, HandleChatStop, Spend, workVars
<1> QED BY <1>1, <1>2, <1>3, <1>4, <1>5, <1>6, <1>7 DEF ExecInv, Types

\* A steering holds a row.
LEMMA HandleSteeringPrepareInv ==
  ASSUME ~SlowThreads, ExecInv, HandleSteeringPrepare
  PROVE  ExecInv'
<1> USE NumbersAreNat
<1>1. TurnTypes'
  BY DEF ExecInv, Types, TurnTypes, HandleSteeringPrepare, Spend, turnVars
<1>2. CountTypes'
  BY DEF ExecInv, Types, CountTypes, HandleSteeringPrepare, Spend
<1>3. FlagTypes'
  BY Zenon DEF ExecInv, Types, FlagTypes, HandleSteeringPrepare, Spend, RunnerRequestStop,
     runVars, workVars
<1>4. PlaceTypes'
  BY ActiveTurnIsIt DEF ExecInv, Types, PlaceTypes, WorkerState, Sink, Runs, Turns, Alive, Live,
     TurnInv, WorkInv, RunnerHasTurn, RunnerHasWork, Waits, Awaited, HandleSteeringPrepare,
     Spend, RunnerRequestStop, runVars, workVars
<1>5. TurnInv'
  BY DEF ExecInv, TurnInv, CacheIsLive, EventIsLive, OneActive, RunnerHasTurn, Live, Waits,
     HandleSteeringPrepare, Spend, turnVars, runVars, workVars
<1>6. WorkInv'
  BY DEF ExecInv, WorkInv, RunnerHasWork, WorkIsAwaited, AgentIsThere, EventRuns, Waits,
     Awaited, HandleSteeringPrepare, Spend, runVars, workVars
<1>7. EventsStayHome'
  BY DEF ExecInv, EventsStayHome, HandleSteeringPrepare, Spend, workVars
<1> QED BY <1>1, <1>2, <1>3, <1>4, <1>5, <1>6, <1>7 DEF ExecInv, Types

\* It is taken back.
LEMMA WithdrawSteeringInv ==
  ASSUME ~SlowThreads, ExecInv, WithdrawSteering
  PROVE  ExecInv'
<1> USE NumbersAreNat
<1>1. TurnTypes'
  BY DEF ExecInv, Types, TurnTypes, WithdrawSteering, Spend, turnVars, stopVars
<1>2. CountTypes'
  BY DEF ExecInv, Types, CountTypes, WithdrawSteering, Spend
<1>3. FlagTypes'
  BY Zenon DEF ExecInv, Types, FlagTypes, WithdrawSteering, Spend, stopVars, runVars, workVars
<1>4. PlaceTypes'
  BY DEF ExecInv, Types, PlaceTypes, WithdrawSteering, Spend, stopVars, runVars, workVars
<1>5. TurnInv'
  BY DEF ExecInv, TurnInv, CacheIsLive, EventIsLive, OneActive, RunnerHasTurn, Live, Waits,
     WithdrawSteering, Spend, turnVars, runVars, workVars
<1>6. WorkInv'
  BY DEF ExecInv, WorkInv, RunnerHasWork, WorkIsAwaited, AgentIsThere, EventRuns, Waits,
     Awaited, WithdrawSteering, Spend, runVars, workVars
<1>7. EventsStayHome'
  BY DEF ExecInv, EventsStayHome, WithdrawSteering, Spend, workVars
<1> QED BY <1>1, <1>2, <1>3, <1>4, <1>5, <1>6, <1>7 DEF ExecInv, Types

\* The runner starts a run for the live turn; nobody else can write, for it was idle.
LEMMA RunTurnInv ==
  ASSUME ~SlowThreads, ExecInv, RunTurn
  PROVE  ExecInv'
<1> USE NumbersAreNat
<1>1. TurnTypes'
  BY DEF ExecInv, Types, TurnTypes, RunTurn, StartReplyTask, FreshRuns, turnVars
<1>2. CountTypes'
  BY QueueSteps DEF ExecInv, Types, CountTypes, RunTurn, StartReplyTask, FreshRuns, queueVars,
     givenVars
<1>3. FlagTypes'
  BY QueueFlag, Zenon DEF ExecInv, Types, FlagTypes, RunTurn, StartReplyTask, FreshRuns,
     queueVars
<1>4. PlaceTypes'
  <2>1. CASE Active = {}
    BY <2>1 DEF ExecInv, Types, PlaceTypes, RunTurn, givenVars
  <2>2. CASE Active # {}
    <3>1. ActiveTurn \in 0 .. MaxTurns
      BY <2>2, ActiveTurnIsIt DEF ExecInv, TurnInv, Live, Turns
    <3> QED
      BY <3>1, ReplyTaskPlaces DEF ExecInv, Types, PlaceTypes, RunTurn, givenVars
  <2> QED BY <2>1, <2>2
<1>5. TurnInv'
  BY ActiveTurnIsIt DEF ExecInv, Types, TurnTypes, PlaceTypes, TurnInv, CacheIsLive,
     EventIsLive, OneActive, RunnerHasTurn, Live, Waits, LiveStatus, Terminal, Active, LoopRuns,
     Sink, RunTurn, StartReplyTask, FreshRuns, turnVars
<1>6. WorkInv'
  BY DEF ExecInv, Types, PlaceTypes, WorkInv, RunnerHasWork, WorkIsAwaited, AgentIsThere,
     EventRuns, Waits, Awaited, Alive, LoopRuns, Attached, WorkerState, RunTurn, StartReplyTask,
     FreshRuns
<1>7. EventsStayHome'
  BY DEF ExecInv, EventsStayHome, RunTurn, StartReplyTask, FreshRuns
<1> QED BY <1>1, <1>2, <1>3, <1>4, <1>5, <1>6, <1>7 DEF ExecInv, Types

\* A reply ends the turn; nobody is awaited any more, so nobody may write.
LEMMA FinishReplyInv ==
  ASSUME ~SlowThreads, ExecInv, FinishReply
  PROVE  ExecInv'
<1> USE NumbersAreNat
<1>1. TurnTypes'
  BY CompleteEnds DEF ExecInv, Types, TurnTypes, Terminal, FinishReply, Replied, OnReply
<1>2. CountTypes'
  BY EnsureTurnQueue DEF ExecInv, Types, CountTypes, FinishReply, Replied, OnReply, FreshTurns,
     givenVars
<1>3. FlagTypes'
  BY EnsureTurnFlag, Zenon DEF ExecInv, Types, FlagTypes, FinishReply, Replied, OnReply,
     FreshTurns, workVars
<1>4. PlaceTypes'
  BY ActiveTurnIsIt DEF ExecInv, Types, PlaceTypes, WorkerState, Sink, Runs, Turns, Alive, Live,
     TurnInv, WorkInv, RunnerHasTurn, RunnerHasWork, Waits, Awaited, FinishReply, Replied,
     OnReply, EnsureTurn, FreshTurns, workVars, givenVars
<1>5. TurnInv'
  BY RunnerLeaves DEF ExecInv, Types, TurnTypes, TurnInv, Terminal, FinishReply, Replied,
     OnReply, workVars
<1>6. WorkInv'
  BY DEF ExecInv, Types, PlaceTypes, WorkInv, RunnerHasWork, WorkIsAwaited, AgentIsThere,
     EventRuns, Waits, Awaited, Alive, LoopRuns, Attached, WorkerState, FinishReply, Replied,
     OnReply, EnsureTurn, FreshTurns, workVars
<1>7. EventsStayHome'
  BY DEF ExecInv, EventsStayHome, FinishReply, Replied, OnReply, EnsureTurn, FreshTurns,
     workVars
<1> QED BY <1>1, <1>2, <1>3, <1>4, <1>5, <1>6, <1>7 DEF ExecInv, Types

\* A busy reply likewise.
LEMMA FinishBusyInv ==
  ASSUME ~SlowThreads, ExecInv, FinishBusy
  PROVE  ExecInv'
<1> USE NumbersAreNat
<1>1. TurnTypes'
  BY CompleteEnds DEF ExecInv, Types, TurnTypes, Terminal, FinishBusy, Replied
<1>2. CountTypes'
  BY DEF ExecInv, Types, CountTypes, FinishBusy, Replied, queueVars, givenVars
<1>3. FlagTypes'
  BY Zenon DEF ExecInv, Types, FlagTypes, FinishBusy, Replied, queueVars, workVars
<1>4. PlaceTypes'
  BY ActiveTurnIsIt DEF ExecInv, Types, PlaceTypes, WorkerState, Sink, Runs, Turns, Alive, Live,
     TurnInv, WorkInv, RunnerHasTurn, RunnerHasWork, Waits, Awaited, FinishBusy, Replied,
     workVars, givenVars
<1>5. TurnInv'
  BY RunnerLeaves DEF ExecInv, Types, TurnTypes, TurnInv, Terminal, FinishBusy, Replied,
     workVars
<1>6. WorkInv'
  BY DEF ExecInv, Types, PlaceTypes, WorkInv, RunnerHasWork, WorkIsAwaited, AgentIsThere,
     EventRuns, Waits, Awaited, Alive, LoopRuns, Attached, WorkerState, FinishBusy, Replied,
     workVars
<1>7. EventsStayHome'
  BY DEF ExecInv, EventsStayHome, FinishBusy, Replied, workVars
<1> QED BY <1>1, <1>2, <1>3, <1>4, <1>5, <1>6, <1>7 DEF ExecInv, Types

\* A delivered reply changes no turn.
LEMMA FinishDeliveryInv ==
  ASSUME ~SlowThreads, ExecInv, FinishDelivery
  PROVE  ExecInv'
<1> USE NumbersAreNat
<1>1. TurnTypes'
  BY DEF ExecInv, Types, TurnTypes, FinishDelivery, turnVars, stopVars
<1>2. CountTypes'
  BY DEF ExecInv, Types, CountTypes, FinishDelivery, queueVars, givenVars
<1>3. FlagTypes'
  BY Zenon DEF ExecInv, Types, FlagTypes, FinishDelivery, queueVars, stopVars, workVars
<1>4. PlaceTypes'
  BY ActiveTurnIsIt DEF ExecInv, Types, PlaceTypes, WorkerState, Sink, Runs, Turns, Alive, Live,
     TurnInv, WorkInv, RunnerHasTurn, RunnerHasWork, Waits, Awaited, FinishDelivery, stopVars,
     workVars, givenVars
<1>5. TurnInv'
  BY ActiveTurnIsIt DEF ExecInv, Types, TurnTypes, PlaceTypes, TurnInv, CacheIsLive,
     EventIsLive, OneActive, RunnerHasTurn, Live, Waits, LiveStatus, Terminal, Active, LoopRuns,
     Sink, FinishDelivery, turnVars, workVars
<1>6. WorkInv'
  BY DEF ExecInv, Types, PlaceTypes, WorkInv, RunnerHasWork, WorkIsAwaited, AgentIsThere,
     EventRuns, Waits, Awaited, Alive, LoopRuns, Attached, WorkerState, FinishDelivery, workVars
<1>7. EventsStayHome'
  BY DEF ExecInv, EventsStayHome, FinishDelivery, workVars
<1> QED BY <1>1, <1>2, <1>3, <1>4, <1>5, <1>6, <1>7 DEF ExecInv, Types

\* The resumed run is for the same live turn.
LEMMA ResumeAfterSteeringInv ==
  ASSUME ~SlowThreads, ExecInv, ResumeAfterSteering
  PROVE  ExecInv'
<1> USE NumbersAreNat
<1>1. TurnTypes'
  BY DEF ExecInv, Types, TurnTypes, ResumeAfterSteering, Replied, StartReplyTask, FreshRuns,
     turnVars
<1>2. CountTypes'
  BY DEF ExecInv, Types, CountTypes, ResumeAfterSteering, Replied, StartReplyTask, FreshRuns,
     givenVars
<1>3. FlagTypes'
  BY Zenon DEF ExecInv, Types, FlagTypes, ResumeAfterSteering, Replied, StartReplyTask,
     FreshRuns
<1>4. PlaceTypes'
  BY ReplyTaskPlaces DEF ExecInv, Types, PlaceTypes, ResumeAfterSteering, Replied, givenVars
<1>5. TurnInv'
  BY ActiveTurnIsIt DEF ExecInv, Types, TurnTypes, PlaceTypes, TurnInv, CacheIsLive,
     EventIsLive, OneActive, RunnerHasTurn, Live, Waits, LiveStatus, Terminal, Active, LoopRuns,
     Sink, ResumeAfterSteering, Replied, StartReplyTask, FreshRuns, turnVars
<1>6. WorkInv'
  BY DEF ExecInv, Types, PlaceTypes, WorkInv, RunnerHasWork, WorkIsAwaited, AgentIsThere,
     EventRuns, Waits, Awaited, Alive, LoopRuns, Attached, WorkerState, ResumeAfterSteering,
     Replied, StartReplyTask, FreshRuns
<1>7. EventsStayHome'
  BY DEF ExecInv, EventsStayHome, ResumeAfterSteering, Replied, StartReplyTask, FreshRuns
<1> QED BY <1>1, <1>2, <1>3, <1>4, <1>5, <1>6, <1>7 DEF ExecInv, Types

\* Nothing to inject: the runner leaves.
LEMMA ResumeWithNothingInv ==
  ASSUME ~SlowThreads, ExecInv, ResumeWithNothing
  PROVE  ExecInv'
<1> USE NumbersAreNat
<1>1. TurnTypes'
  BY DEF ExecInv, Types, TurnTypes, ResumeWithNothing, Replied, turnVars
<1>2. CountTypes'
  BY DEF ExecInv, Types, CountTypes, ResumeWithNothing, Replied, givenVars
<1>3. FlagTypes'
  BY Zenon DEF ExecInv, Types, FlagTypes, ResumeWithNothing, Replied, workVars
<1>4. PlaceTypes'
  BY ActiveTurnIsIt DEF ExecInv, Types, PlaceTypes, WorkerState, Sink, Runs, Turns, Alive, Live,
     TurnInv, WorkInv, RunnerHasTurn, RunnerHasWork, Waits, Awaited, ResumeWithNothing, Replied,
     workVars, givenVars
<1>5. TurnInv'
  BY ActiveTurnIsIt DEF ExecInv, Types, TurnTypes, PlaceTypes, TurnInv, CacheIsLive,
     EventIsLive, OneActive, RunnerHasTurn, Live, Waits, LiveStatus, Terminal, Active, LoopRuns,
     Sink, ResumeWithNothing, Replied, turnVars, workVars
<1>6. WorkInv'
  BY DEF ExecInv, Types, PlaceTypes, WorkInv, RunnerHasWork, WorkIsAwaited, AgentIsThere,
     EventRuns, Waits, Awaited, Alive, LoopRuns, Attached, WorkerState, ResumeWithNothing,
     Replied, workVars
<1>7. EventsStayHome'
  BY DEF ExecInv, EventsStayHome, ResumeWithNothing, Replied, workVars
<1> QED BY <1>1, <1>2, <1>3, <1>4, <1>5, <1>6, <1>7 DEF ExecInv, Types

\* The reply of a resumed run ends the turn.
LEMMA FinishResumedInv ==
  ASSUME ~SlowThreads, ExecInv, FinishResumed
  PROVE  ExecInv'
<1> USE NumbersAreNat
<1>1. TurnTypes'
  BY CompleteEnds DEF ExecInv, Types, TurnTypes, Terminal, FinishResumed, Replied, OnReply
<1>2. CountTypes'
  BY EnsureTurnQueue DEF ExecInv, Types, CountTypes, FinishResumed, Replied, OnReply,
     FreshTurns, givenVars
<1>3. FlagTypes'
  BY EnsureTurnFlag, Zenon DEF ExecInv, Types, FlagTypes, FinishResumed, Replied, OnReply,
     FreshTurns, workVars
<1>4. PlaceTypes'
  BY ActiveTurnIsIt DEF ExecInv, Types, PlaceTypes, WorkerState, Sink, Runs, Turns, Alive, Live,
     TurnInv, WorkInv, RunnerHasTurn, RunnerHasWork, Waits, Awaited, FinishResumed, Replied,
     OnReply, EnsureTurn, FreshTurns, workVars, givenVars
<1>5. TurnInv'
  BY RunnerLeaves DEF ExecInv, Types, TurnTypes, TurnInv, Terminal, FinishResumed, Replied,
     OnReply, workVars
<1>6. WorkInv'
  BY DEF ExecInv, Types, PlaceTypes, WorkInv, RunnerHasWork, WorkIsAwaited, AgentIsThere,
     EventRuns, Waits, Awaited, Alive, LoopRuns, Attached, WorkerState, FinishResumed, Replied,
     OnReply, EnsureTurn, FreshTurns, workVars
<1>7. EventsStayHome'
  BY DEF ExecInv, EventsStayHome, FinishResumed, Replied, OnReply, EnsureTurn, FreshTurns,
     workVars
<1> QED BY <1>1, <1>2, <1>3, <1>4, <1>5, <1>6, <1>7 DEF ExecInv, Types

\* A failed run ends the turn.
LEMMA FinishFailedInv ==
  ASSUME ~SlowThreads, ExecInv, FinishFailed
  PROVE  ExecInv'
<1> USE NumbersAreNat
<1>1. TurnTypes'
  BY CompleteEnds DEF ExecInv, Types, TurnTypes, Terminal, FinishFailed, Replied
<1>2. CountTypes'
  BY QueueSteps DEF ExecInv, Types, CountTypes, FinishFailed, Replied, FreshTurns,
     ConcludeSteering, givenVars
<1>3. FlagTypes'
  BY QueueFlag, Zenon DEF ExecInv, Types, FlagTypes, FinishFailed, Replied, DiscardAgent,
     FreshTurns, workVars
<1>4. PlaceTypes'
  BY ActiveTurnIsIt DEF ExecInv, Types, PlaceTypes, WorkerState, Sink, Runs, Turns, Alive, Live,
     TurnInv, WorkInv, RunnerHasTurn, RunnerHasWork, Waits, Awaited, FinishFailed, Replied,
     FreshTurns, workVars, givenVars
<1>5. TurnInv'
  BY RunnerLeaves DEF ExecInv, Types, TurnTypes, TurnInv, Terminal, FinishFailed, Replied,
     workVars
<1>6. WorkInv'
  BY DEF ExecInv, Types, PlaceTypes, WorkInv, RunnerHasWork, WorkIsAwaited, AgentIsThere,
     EventRuns, Waits, Awaited, Alive, LoopRuns, Attached, WorkerState, FinishFailed, Replied,
     DiscardAgent, FreshTurns, workVars
<1>7. EventsStayHome'
  BY DEF ExecInv, EventsStayHome, FinishFailed, Replied, FreshTurns, workVars
<1> QED BY <1>1, <1>2, <1>3, <1>4, <1>5, <1>6, <1>7 DEF ExecInv, Types

\* A run given up is retired in the same step.
LEMMA StopTimeoutInv ==
  ASSUME ~SlowThreads, ExecInv, StopTimeout
  PROVE  ExecInv'
<1> USE NumbersAreNat
<1>1. TurnTypes'
  BY CompleteEnds DEF ExecInv, Types, TurnTypes, Terminal, StopTimeout, GiveUp
<1>2. CountTypes'
  BY QueueSteps DEF ExecInv, Types, CountTypes, StopTimeout, GiveUp, givenVars
<1>3. FlagTypes'
  BY QueueFlag, Zenon DEF ExecInv, Types, FlagTypes, StopTimeout, GiveUp, DiscardAgent
<1>4. PlaceTypes'
  BY ActiveTurnIsIt DEF ExecInv, Types, PlaceTypes, WorkerState, Sink, Runs, Turns, Alive, Live,
     TurnInv, WorkInv, RunnerHasTurn, RunnerHasWork, Waits, Awaited, StopTimeout, GiveUp,
     RetireAgent, givenVars
<1>5. TurnInv'
  BY RunnerLeaves DEF ExecInv, Types, TurnTypes, TurnInv, Terminal, StopTimeout, GiveUp
<1>6. WorkInv'
  BY DEF ExecInv, Types, PlaceTypes, WorkInv, RunnerHasWork, WorkIsAwaited, AgentIsThere,
     EventRuns, Waits, Awaited, Alive, LoopRuns, Attached, WorkerState, StopTimeout, GiveUp,
     RetireAgent, DiscardAgent
<1>7. EventsStayHome'
  BY DEF ExecInv, EventsStayHome, StopTimeout, GiveUp
<1> QED BY <1>1, <1>2, <1>3, <1>4, <1>5, <1>6, <1>7 DEF ExecInv, Types

\* So is a resumed run.
LEMMA ResumedStopTimeoutInv ==
  ASSUME ~SlowThreads, ExecInv, ResumedStopTimeout
  PROVE  ExecInv'
<1> USE NumbersAreNat
<1>1. TurnTypes'
  BY CompleteEnds DEF ExecInv, Types, TurnTypes, Terminal, ResumedStopTimeout, GiveUp
<1>2. CountTypes'
  BY DEF ExecInv, Types, CountTypes, ResumedStopTimeout, GiveUp, queueVars, givenVars
<1>3. FlagTypes'
  BY Zenon DEF ExecInv, Types, FlagTypes, ResumedStopTimeout, GiveUp, DiscardAgent, queueVars
<1>4. PlaceTypes'
  BY ActiveTurnIsIt DEF ExecInv, Types, PlaceTypes, WorkerState, Sink, Runs, Turns, Alive, Live,
     TurnInv, WorkInv, RunnerHasTurn, RunnerHasWork, Waits, Awaited, ResumedStopTimeout, GiveUp,
     RetireAgent, givenVars
<1>5. TurnInv'
  BY RunnerLeaves DEF ExecInv, Types, TurnTypes, TurnInv, Terminal, ResumedStopTimeout, GiveUp
<1>6. WorkInv'
  BY DEF ExecInv, Types, PlaceTypes, WorkInv, RunnerHasWork, WorkIsAwaited, AgentIsThere,
     EventRuns, Waits, Awaited, Alive, LoopRuns, Attached, WorkerState, ResumedStopTimeout,
     GiveUp, RetireAgent, DiscardAgent
<1>7. EventsStayHome'
  BY DEF ExecInv, EventsStayHome, ResumedStopTimeout, GiveUp
<1> QED BY <1>1, <1>2, <1>3, <1>4, <1>5, <1>6, <1>7 DEF ExecInv, Types

\* And one whose steering came too late.
LEMMA SteeringTimeoutInv ==
  ASSUME ~SlowThreads, ExecInv, SteeringTimeout
  PROVE  ExecInv'
<1> USE NumbersAreNat
<1>1. TurnTypes'
  BY CompleteEnds DEF ExecInv, Types, TurnTypes, Terminal, SteeringTimeout, GiveUp
<1>2. CountTypes'
  BY QueueSteps DEF ExecInv, Types, CountTypes, SteeringTimeout, GiveUp, givenVars
<1>3. FlagTypes'
  BY QueueFlag, Zenon DEF ExecInv, Types, FlagTypes, SteeringTimeout, GiveUp, DiscardAgent
<1>4. PlaceTypes'
  BY ActiveTurnIsIt DEF ExecInv, Types, PlaceTypes, WorkerState, Sink, Runs, Turns, Alive, Live,
     TurnInv, WorkInv, RunnerHasTurn, RunnerHasWork, Waits, Awaited, SteeringTimeout, GiveUp,
     RetireAgent, givenVars
<1>5. TurnInv'
  BY RunnerLeaves DEF ExecInv, Types, TurnTypes, TurnInv, Terminal, SteeringTimeout, GiveUp
<1>6. WorkInv'
  BY DEF ExecInv, Types, PlaceTypes, WorkInv, RunnerHasWork, WorkIsAwaited, AgentIsThere,
     EventRuns, Waits, Awaited, Alive, LoopRuns, Attached, WorkerState, SteeringTimeout, GiveUp,
     RetireAgent, DiscardAgent
<1>7. EventsStayHome'
  BY DEF ExecInv, EventsStayHome, SteeringTimeout, GiveUp
<1> QED BY <1>1, <1>2, <1>3, <1>4, <1>5, <1>6, <1>7 DEF ExecInv, Types

\* The time of grace ends.
LEMMA GraceEndsInv ==
  ASSUME ~SlowThreads, ExecInv, GraceEnds
  PROVE  ExecInv'
<1> USE NumbersAreNat
<1>1. TurnTypes'
  BY DEF ExecInv, Types, TurnTypes, GraceEnds, turnVars, stopVars
<1>2. CountTypes'
  BY DEF ExecInv, Types, CountTypes, GraceEnds, queueVars, givenVars
<1>3. FlagTypes'
  BY Zenon DEF ExecInv, Types, FlagTypes, GraceEnds, queueVars, stopVars
<1>4. PlaceTypes'
  BY ActiveTurnIsIt DEF ExecInv, Types, PlaceTypes, WorkerState, Sink, Runs, Turns, Alive, Live,
     TurnInv, WorkInv, RunnerHasTurn, RunnerHasWork, Waits, Awaited, GraceEnds, stopVars,
     givenVars
<1>5. TurnInv'
  BY ActiveTurnIsIt DEF ExecInv, Types, TurnTypes, PlaceTypes, TurnInv, CacheIsLive,
     EventIsLive, OneActive, RunnerHasTurn, Live, Waits, LiveStatus, Terminal, Active, LoopRuns,
     Sink, GraceEnds, turnVars
<1>6. WorkInv'
  BY DEF ExecInv, Types, PlaceTypes, WorkInv, RunnerHasWork, WorkIsAwaited, AgentIsThere,
     EventRuns, Waits, Awaited, Alive, LoopRuns, Attached, WorkerState, GraceEnds
<1>7. EventsStayHome'
  BY DEF ExecInv, EventsStayHome, GraceEnds
<1> QED BY <1>1, <1>2, <1>3, <1>4, <1>5, <1>6, <1>7 DEF ExecInv, Types

\* Ten seconds pass.
LEMMA StopLateInv ==
  ASSUME ~SlowThreads, ExecInv, StopLate
  PROVE  ExecInv'
<1> USE NumbersAreNat
<1>1. TurnTypes'
  BY DEF ExecInv, Types, TurnTypes, StopLate, turnVars
<1>2. CountTypes'
  BY DEF ExecInv, Types, CountTypes, StopLate, queueVars, givenVars
<1>3. FlagTypes'
  BY Zenon DEF ExecInv, Types, FlagTypes, StopLate, queueVars, runVars, workVars
<1>4. PlaceTypes'
  BY ActiveTurnIsIt DEF ExecInv, Types, PlaceTypes, WorkerState, Sink, Runs, Turns, Alive, Live,
     TurnInv, WorkInv, RunnerHasTurn, RunnerHasWork, Waits, Awaited, StopLate, runVars,
     workVars, givenVars
<1>5. TurnInv'
  BY DEF ExecInv, TurnInv, CacheIsLive, EventIsLive, OneActive, RunnerHasTurn, Live, Waits,
     StopLate, turnVars, runVars, workVars
<1>6. WorkInv'
  BY DEF ExecInv, WorkInv, RunnerHasWork, WorkIsAwaited, AgentIsThere, EventRuns, Waits,
     Awaited, StopLate, runVars, workVars
<1>7. EventsStayHome'
  BY DEF ExecInv, EventsStayHome, StopLate, workVars
<1> QED BY <1>1, <1>2, <1>3, <1>4, <1>5, <1>6, <1>7 DEF ExecInv, Types

\* The window of a steering ends.
LEMMA SteeringLateInv ==
  ASSUME ~SlowThreads, ExecInv, SteeringLate
  PROVE  ExecInv'
<1> USE NumbersAreNat
<1>1. TurnTypes'
  BY DEF ExecInv, Types, TurnTypes, SteeringLate, turnVars, stopVars
<1>2. CountTypes'
  BY DEF ExecInv, Types, CountTypes, SteeringLate, givenVars
<1>3. FlagTypes'
  BY Zenon DEF ExecInv, Types, FlagTypes, SteeringLate, stopVars, runVars, workVars
<1>4. PlaceTypes'
  BY DEF ExecInv, Types, PlaceTypes, SteeringLate, stopVars, runVars, workVars, givenVars
<1>5. TurnInv'
  BY DEF ExecInv, TurnInv, CacheIsLive, EventIsLive, OneActive, RunnerHasTurn, Live, Waits,
     SteeringLate, turnVars, runVars, workVars
<1>6. WorkInv'
  BY DEF ExecInv, WorkInv, RunnerHasWork, WorkIsAwaited, AgentIsThere, EventRuns, Waits,
     Awaited, SteeringLate, runVars, workVars
<1>7. EventsStayHome'
  BY DEF ExecInv, EventsStayHome, SteeringLate, workVars
<1> QED BY <1>1, <1>2, <1>3, <1>4, <1>5, <1>6, <1>7 DEF ExecInv, Types

\* A run that finds the session taken ends.
LEMMA SessionBusyInv ==
  ASSUME ~SlowThreads, ExecInv, NEW w \in Runs, SessionBusy(w)
  PROVE  ExecInv'
<1> USE NumbersAreNat
<1>1. TurnTypes'
  BY DEF ExecInv, Types, TurnTypes, SessionBusy, turnVars, stopVars
<1>2. CountTypes'
  BY DEF ExecInv, Types, CountTypes, SessionBusy, queueVars, givenVars
<1>3. FlagTypes'
  BY Zenon DEF ExecInv, Types, FlagTypes, SessionBusy, queueVars, stopVars
<1>4. PlaceTypes'
  BY ActiveTurnIsIt DEF ExecInv, Types, PlaceTypes, WorkerState, Sink, Runs, Turns, Alive, Live,
     TurnInv, WorkInv, RunnerHasTurn, RunnerHasWork, Waits, Awaited, SessionBusy, stopVars,
     givenVars
<1>5. TurnInv'
  BY DEF ExecInv, TurnInv, CacheIsLive, EventIsLive, OneActive, RunnerHasTurn, Live, Waits,
     SessionBusy, turnVars
<1>6. WorkInv'
  BY DEF ExecInv, Types, PlaceTypes, WorkInv, RunnerHasWork, WorkIsAwaited, AgentIsThere,
     EventRuns, Waits, Awaited, Alive, LoopRuns, Attached, WorkerState, SessionBusy
<1>7. EventsStayHome'
  BY DEF ExecInv, EventsStayHome, SessionBusy
<1> QED BY <1>1, <1>2, <1>3, <1>4, <1>5, <1>6, <1>7 DEF ExecInv, Types

\* A run that starts puts its agent into the entry.
LEMMA WorkerStartsInv ==
  ASSUME ~SlowThreads, ExecInv, NEW w \in Runs, WorkerStarts(w)
  PROVE  ExecInv'
<1> USE NumbersAreNat
<1>1. TurnTypes'
  BY DEF ExecInv, Types, TurnTypes, WorkerStarts, turnVars, stopVars
<1>2. CountTypes'
  BY DEF ExecInv, Types, CountTypes, WorkerStarts, queueVars, givenVars
<1>3. FlagTypes'
  BY Zenon DEF ExecInv, Types, FlagTypes, WorkerStarts, queueVars, stopVars
<1>4. PlaceTypes'
  BY ActiveTurnIsIt DEF ExecInv, Types, PlaceTypes, WorkerState, Sink, Runs, Turns, Alive, Live,
     TurnInv, WorkInv, RunnerHasTurn, RunnerHasWork, Waits, Awaited, WorkerStarts, stopVars,
     givenVars
<1>5. TurnInv'
  BY DEF ExecInv, TurnInv, CacheIsLive, EventIsLive, OneActive, RunnerHasTurn, Live, Waits,
     WorkerStarts, turnVars
<1>6. WorkInv'
  BY DEF ExecInv, Types, PlaceTypes, WorkInv, RunnerHasWork, WorkIsAwaited, AgentIsThere,
     EventRuns, Waits, Awaited, Alive, LoopRuns, Attached, WorkerState, WorkerStarts
<1>7. EventsStayHome'
  BY DEF ExecInv, EventsStayHome, WorkerStarts
<1> QED BY <1>1, <1>2, <1>3, <1>4, <1>5, <1>6, <1>7 DEF ExecInv, Types

\* The agent takes a step.
LEMMA WorkerStepInv ==
  ASSUME ~SlowThreads, ExecInv, NEW w \in Runs, WorkerStep(w)
  PROVE  ExecInv'
<1> USE NumbersAreNat
<1>1. TurnTypes'
  BY DEF ExecInv, Types, TurnTypes, WorkerStep, turnVars, stopVars
<1>2. CountTypes'
  BY DEF ExecInv, Types, CountTypes, WorkerStep, queueVars, givenVars
<1>3. FlagTypes'
  BY Zenon DEF ExecInv, Types, FlagTypes, WorkerStep, queueVars, stopVars, runVars
<1>4. PlaceTypes'
  BY ActiveTurnIsIt DEF ExecInv, Types, PlaceTypes, WorkerState, Sink, Runs, Turns, Alive, Live,
     TurnInv, WorkInv, RunnerHasTurn, RunnerHasWork, Waits, Awaited, WorkerStep, stopVars,
     runVars, givenVars
<1>5. TurnInv'
  BY DEF ExecInv, TurnInv, CacheIsLive, EventIsLive, OneActive, RunnerHasTurn, Live, Waits,
     WorkerStep, turnVars, runVars
<1>6. WorkInv'
  BY DEF ExecInv, Types, PlaceTypes, WorkInv, RunnerHasWork, WorkIsAwaited, AgentIsThere,
     EventRuns, Waits, Awaited, Alive, LoopRuns, Attached, WorkerState, WorkerStep, runVars
<1>7. EventsStayHome'
  BY DEF ExecInv, EventsStayHome, WorkerStep
<1> QED BY <1>1, <1>2, <1>3, <1>4, <1>5, <1>6, <1>7 DEF ExecInv, Types

\* It stops as asked.
LEMMA WorkerHaltsInv ==
  ASSUME ~SlowThreads, ExecInv, NEW w \in Runs, WorkerHalts(w)
  PROVE  ExecInv'
<1> USE NumbersAreNat
<1>1. TurnTypes'
  BY DEF ExecInv, Types, TurnTypes, WorkerHalts, turnVars
<1>2. CountTypes'
  BY DEF ExecInv, Types, CountTypes, WorkerHalts, queueVars, givenVars
<1>3. FlagTypes'
  BY Zenon DEF ExecInv, Types, FlagTypes, WorkerHalts, queueVars
<1>4. PlaceTypes'
  BY ActiveTurnIsIt DEF ExecInv, Types, PlaceTypes, WorkerState, Sink, Runs, Turns, Alive, Live,
     TurnInv, WorkInv, RunnerHasTurn, RunnerHasWork, Waits, Awaited, WorkerHalts, givenVars
<1>5. TurnInv'
  BY DEF ExecInv, TurnInv, CacheIsLive, EventIsLive, OneActive, RunnerHasTurn, Live, Waits,
     WorkerHalts, turnVars
<1>6. WorkInv'
  BY DEF ExecInv, Types, PlaceTypes, WorkInv, RunnerHasWork, WorkIsAwaited, AgentIsThere,
     EventRuns, Waits, Awaited, Alive, LoopRuns, Attached, WorkerState, WorkerHalts
<1>7. EventsStayHome'
  BY DEF ExecInv, EventsStayHome, WorkerHalts
<1> QED BY <1>1, <1>2, <1>3, <1>4, <1>5, <1>6, <1>7 DEF ExecInv, Types

\* It answers.
LEMMA WorkerAnswersInv ==
  ASSUME ~SlowThreads, ExecInv, NEW w \in Runs, WorkerAnswers(w)
  PROVE  ExecInv'
<1> USE NumbersAreNat
<1>1. TurnTypes'
  BY DEF ExecInv, Types, TurnTypes, WorkerAnswers, turnVars, stopVars
<1>2. CountTypes'
  BY DEF ExecInv, Types, CountTypes, WorkerAnswers, queueVars, givenVars
<1>3. FlagTypes'
  BY Zenon DEF ExecInv, Types, FlagTypes, WorkerAnswers, queueVars, stopVars
<1>4. PlaceTypes'
  BY ActiveTurnIsIt DEF ExecInv, Types, PlaceTypes, WorkerState, Sink, Runs, Turns, Alive, Live,
     TurnInv, WorkInv, RunnerHasTurn, RunnerHasWork, Waits, Awaited, WorkerAnswers, stopVars,
     givenVars
<1>5. TurnInv'
  BY DEF ExecInv, TurnInv, CacheIsLive, EventIsLive, OneActive, RunnerHasTurn, Live, Waits,
     WorkerAnswers, turnVars
<1>6. WorkInv'
  BY DEF ExecInv, Types, PlaceTypes, WorkInv, RunnerHasWork, WorkIsAwaited, AgentIsThere,
     EventRuns, Waits, Awaited, Alive, LoopRuns, Attached, WorkerState, WorkerAnswers
<1>7. EventsStayHome'
  BY DEF ExecInv, EventsStayHome, WorkerAnswers
<1> QED BY <1>1, <1>2, <1>3, <1>4, <1>5, <1>6, <1>7 DEF ExecInv, Types

\* It raises.
LEMMA WorkerFailsInv ==
  ASSUME ~SlowThreads, ExecInv, NEW w \in Runs, WorkerFails(w)
  PROVE  ExecInv'
<1> USE NumbersAreNat
<1>1. TurnTypes'
  BY DEF ExecInv, Types, TurnTypes, WorkerFails, turnVars, stopVars
<1>2. CountTypes'
  BY DEF ExecInv, Types, CountTypes, WorkerFails, queueVars, givenVars
<1>3. FlagTypes'
  BY Zenon DEF ExecInv, Types, FlagTypes, WorkerFails, queueVars, stopVars
<1>4. PlaceTypes'
  BY ActiveTurnIsIt DEF ExecInv, Types, PlaceTypes, WorkerState, Sink, Runs, Turns, Alive, Live,
     TurnInv, WorkInv, RunnerHasTurn, RunnerHasWork, Waits, Awaited, WorkerFails, stopVars,
     givenVars
<1>5. TurnInv'
  BY DEF ExecInv, TurnInv, CacheIsLive, EventIsLive, OneActive, RunnerHasTurn, Live, Waits,
     WorkerFails, turnVars
<1>6. WorkInv'
  BY DEF ExecInv, Types, PlaceTypes, WorkInv, RunnerHasWork, WorkIsAwaited, AgentIsThere,
     EventRuns, Waits, Awaited, Alive, LoopRuns, Attached, WorkerState, WorkerFails
<1>7. EventsStayHome'
  BY DEF ExecInv, EventsStayHome, WorkerFails
<1> QED BY <1>1, <1>2, <1>3, <1>4, <1>5, <1>6, <1>7 DEF ExecInv, Types

\* The hard time-out retires the run with its reply.
LEMMA HardTimeoutInv ==
  ASSUME ~SlowThreads, ExecInv, NEW w \in Runs, HardTimeout(w)
  PROVE  ExecInv'
<1> USE NumbersAreNat
<1>1. TurnTypes'
  BY DEF ExecInv, Types, TurnTypes, HardTimeout, turnVars
<1>2. CountTypes'
  BY DEF ExecInv, Types, CountTypes, HardTimeout, queueVars, givenVars
<1>3. FlagTypes'
  BY Zenon DEF ExecInv, Types, FlagTypes, HardTimeout, DiscardAgent, queueVars
<1>4. PlaceTypes'
  BY ActiveTurnIsIt DEF ExecInv, Types, PlaceTypes, WorkerState, Sink, Runs, Turns, Alive, Live,
     TurnInv, WorkInv, RunnerHasTurn, RunnerHasWork, Waits, Awaited, HardTimeout, RetireAgent,
     givenVars
<1>5. TurnInv'
  BY DEF ExecInv, TurnInv, CacheIsLive, EventIsLive, OneActive, RunnerHasTurn, Live, Waits,
     HardTimeout, turnVars
<1>6. WorkInv'
  BY DEF ExecInv, Types, PlaceTypes, WorkInv, RunnerHasWork, WorkIsAwaited, AgentIsThere,
     EventRuns, Waits, Awaited, Alive, LoopRuns, Attached, WorkerState, HardTimeout,
     RetireAgent, DiscardAgent
<1>7. EventsStayHome'
  BY DEF ExecInv, EventsStayHome, HardTimeout
<1> QED BY <1>1, <1>2, <1>3, <1>4, <1>5, <1>6, <1>7 DEF ExecInv, Types

\* An event passes the retirement check.
LEMMA SinkCheckInv ==
  ASSUME ~SlowThreads, ExecInv, NEW w \in Runs, SinkCheck(w)
  PROVE  ExecInv'
<1> USE NumbersAreNat
<1>1. TurnTypes'
  BY DEF ExecInv, Types, TurnTypes, SinkCheck, turnVars, stopVars
<1>2. CountTypes'
  BY DEF ExecInv, Types, CountTypes, SinkCheck, queueVars, givenVars
<1>3. FlagTypes'
  BY Zenon DEF ExecInv, Types, FlagTypes, SinkCheck, queueVars, stopVars, runVars
<1>4. PlaceTypes'
  BY ActiveTurnIsIt DEF ExecInv, Types, PlaceTypes, WorkerState, Sink, Runs, Turns, Alive, Live,
     TurnInv, WorkInv, RunnerHasTurn, RunnerHasWork, Waits, Awaited, SinkCheck, stopVars,
     runVars, givenVars
<1>5. TurnInv'
  BY DEF ExecInv, Types, PlaceTypes, TurnInv, CacheIsLive, EventIsLive, OneActive,
     RunnerHasTurn, Live, Waits, Turns, Sink, SinkCheck, turnVars, runVars
<1>6. WorkInv'
  BY DEF ExecInv, Types, PlaceTypes, WorkInv, RunnerHasWork, WorkIsAwaited, AgentIsThere,
     EventRuns, Waits, Awaited, Alive, LoopRuns, Attached, WorkerState, SinkCheck, runVars
<1>7. EventsStayHome'
  BY DEF ExecInv, EventsStayHome, SinkCheck
<1> QED BY <1>1, <1>2, <1>3, <1>4, <1>5, <1>6, <1>7 DEF ExecInv, Types

\* An event finds its turn: the agent's own.
LEMMA EventTurnInv ==
  ASSUME ~SlowThreads, ExecInv, NEW w \in Runs, EventTurn(w)
  PROVE  ExecInv'
<1> USE NumbersAreNat
<1>1. TurnTypes'
  BY ActiveTurnIsIt DEF ExecInv, Types, TurnTypes, Status, TurnInv, CacheIsLive, RunnerHasTurn,
     Live, Turns, EventTurn, EnsureTurn, FreshTurns, LiveStatus, Terminal
<1>2. CountTypes'
  BY EnsureTurnQueue DEF ExecInv, Types, CountTypes, EventTurn, FreshTurns, givenVars
<1>3. FlagTypes'
  BY EnsureTurnFlag, Zenon DEF ExecInv, Types, FlagTypes, EventTurn, FreshTurns, runVars
<1>4. PlaceTypes'
  BY ActiveTurnIsIt DEF ExecInv, Types, PlaceTypes, WorkerState, Sink, Runs, Turns, Alive, Live,
     TurnInv, WorkInv, RunnerHasTurn, RunnerHasWork, Waits, Awaited, EventTurn, EnsureTurn,
     FreshTurns, runVars, givenVars
<1>5. TurnInv'
  BY ActiveTurnIsIt DEF ExecInv, Types, TurnTypes, PlaceTypes, TurnInv, CacheIsLive,
     EventIsLive, OneActive, RunnerHasTurn, Live, Waits, LiveStatus, Terminal, Active, LoopRuns,
     Sink, EventTurn, EnsureTurn, FreshTurns, runVars
<1>6. WorkInv'
  BY EventAtHome DEF ExecInv, Types, PlaceTypes, WorkInv, RunnerHasWork, WorkIsAwaited,
     AgentIsThere, EventRuns, Waits, Awaited, Sink, EventTurn, runVars
<1>7. EventsStayHome'
  BY EventAtHome, Sink # 0 DEF ExecInv, EventsStayHome, Sink, EventTurn
<1> QED BY <1>1, <1>2, <1>3, <1>4, <1>5, <1>6, <1>7 DEF ExecInv, Types

\* It is written to a turn that is still live.
LEMMA EventStageInv ==
  ASSUME ~SlowThreads, ExecInv, NEW w \in Runs, EventStage(w)
  PROVE  ExecInv'
<1> USE NumbersAreNat
<1>1. TurnTypes'
  BY ActiveTurnIsIt DEF ExecInv, Types, TurnTypes, Status, TurnInv, CacheIsLive, RunnerHasTurn,
     Live, Turns, EventStage, stopVars, LiveStatus, Terminal
<1>2. CountTypes'
  BY DEF ExecInv, Types, CountTypes, EventStage, queueVars, givenVars
<1>3. FlagTypes'
  BY Zenon DEF ExecInv, Types, FlagTypes, EventStage, queueVars, stopVars, runVars
<1>4. PlaceTypes'
  BY ActiveTurnIsIt DEF ExecInv, Types, PlaceTypes, WorkerState, Sink, Runs, Turns, Alive, Live,
     TurnInv, WorkInv, RunnerHasTurn, RunnerHasWork, Waits, Awaited, EventStage, stopVars,
     runVars, givenVars
<1>5. TurnInv'
  <2>1. ev[w] \in Turns /\ Live(ev[w])
    BY DEF ExecInv, TurnInv, EventIsLive, EventStage
  <2>2. turn' = turn \/ turn' = [turn EXCEPT ![ev[w]] = "running"]
    BY DEF EventStage
  <2>3. \A t : Live(t)' <=> Live(t)
    BY <2>1, <2>2 DEF Live, LiveStatus, ExecInv, Types, TurnTypes
  <2>4. CacheIsLive' /\ OneActive' /\ RunnerHasTurn'
    BY <2>3 DEF ExecInv, TurnInv, CacheIsLive, OneActive, RunnerHasTurn, Waits, EventStage, runVars
  <2>5. EventIsLive'
    BY <2>3 DEF ExecInv, Types, PlaceTypes, TurnInv, EventIsLive, Turns, EventStage
  <2> QED BY <2>4, <2>5 DEF TurnInv
<1>6. WorkInv'
  BY DEF ExecInv, Types, PlaceTypes, WorkInv, RunnerHasWork, WorkIsAwaited, AgentIsThere,
     EventRuns, Waits, Awaited, Alive, LoopRuns, Attached, WorkerState, EventStage, runVars
<1>7. EventsStayHome'
  BY DEF ExecInv, EventsStayHome, EventStage
<1> QED BY <1>1, <1>2, <1>3, <1>4, <1>5, <1>6, <1>7 DEF ExecInv, Types

\* Nothing happens.
LEMMA StutterInv ==
  ASSUME ExecInv, UNCHANGED vars
  PROVE  ExecInv'
<1> USE DEF vars, turnVars, queueVars, stopVars, runVars, workVars, givenVars
<1>1. TurnTypes' /\ CountTypes' /\ PlaceTypes'
  BY DEF ExecInv, Types, TurnTypes, CountTypes, PlaceTypes
<1>2. FlagTypes'
  BY Zenon DEF ExecInv, Types, FlagTypes
<1>3. TurnInv'
  BY DEF ExecInv, TurnInv, CacheIsLive, EventIsLive, OneActive, RunnerHasTurn, Live, Waits
<1>4. WorkInv'
  BY DEF ExecInv, WorkInv, RunnerHasWork, WorkIsAwaited, AgentIsThere, EventRuns, Waits, Awaited
<1>5. EventsStayHome'
  BY DEF ExecInv, EventsStayHome
<1> QED BY <1>1, <1>2, <1>3, <1>4, <1>5 DEF ExecInv, Types

\* Every step keeps the invariant.
LEMMA NextInv == ASSUME ~SlowThreads, ExecInv, [Next]_vars PROVE ExecInv'
<1>1. CASE Enqueue \/ HandleSendNext \/ OnInbound
  BY <1>1, EnqueueInv, HandleSendNextInv, OnInboundInv
<1>2. CASE HandleStop \/ HandleChatStop \/ HandleSteeringPrepare \/ WithdrawSteering
  BY <1>2, HandleStopInv, HandleChatStopInv, HandleSteeringPrepareInv, WithdrawSteeringInv
<1>3. CASE Runner
  BY <1>3, RunTurnInv, FinishReplyInv, FinishBusyInv, FinishDeliveryInv, FinishResumedInv,
     ResumeAfterSteeringInv, ResumeWithNothingInv, FinishFailedInv, StopTimeoutInv,
     ResumedStopTimeoutInv, SteeringTimeoutInv, GraceEndsInv DEF Runner
<1>4. CASE StopLate \/ SteeringLate
  BY <1>4, StopLateInv, SteeringLateInv
<1>5. ASSUME NEW w \in Runs, Worker(w) PROVE ExecInv'
  BY <1>5, SessionBusyInv, WorkerStartsInv, WorkerStepInv, WorkerHaltsInv, WorkerAnswersInv,
     WorkerFailsInv, HardTimeoutInv, SinkCheckInv, EventTurnInv, EventStageInv DEF Worker
<1>6. CASE UNCHANGED vars
  BY <1>6, StutterInv
<1> QED BY <1>1, <1>2, <1>3, <1>4, <1>5, <1>6 DEF Next

\* The inductive invariant holds throughout.
THEOREM ExecInvAlways ==
  ASSUME ~SlowThreads
  PROVE  Spec => []ExecInv
BY InitInv, NextInv, PTL DEF Spec
-----------------------------------------------------------------------------
\* Every variable keeps its type, in conversations of any length.
THEOREM ExecutionTypesAlways ==
  ASSUME ~SlowThreads
  PROVE  Spec => []TypeOK
<1>1. ExecInv => TypeOK
  BY TypesAreTypeOK DEF ExecInv
<1> QED BY <1>1, ExecInvAlways, PTL

\* A conversation has at most one turn that has not ended, though three places create turns
\* (send_next, on_inbound, ensure_turn).
THEOREM OneLiveTurnAlways ==
  ASSUME ~SlowThreads
  PROVE  Spec => []OneLiveTurn
<1>1. ASSUME OneActive PROVE OneLiveTurn
  <2>1. CASE Active = {}
    BY <2>1, FS_EmptySet DEF OneLiveTurn
  <2>2. CASE Active # {}
    <3>1. PICK a : Active = {a}
      BY <1>1, <2>2, ZenonT(40) DEF OneActive, Active, Live
    <3>2. Cardinality({a}) = 1
      BY FS_Singleton
    <3> QED BY <3>1, <3>2 DEF OneLiveTurn
  <2> QED BY <2>1, <2>2
<1>2. ExecInv => OneLiveTurn
  BY <1>1 DEF ExecInv, TurnInv
<1> QED BY <1>2, ExecInvAlways, PTL

\* An agent's events are written to the turn it was started for, however many runs were given
\* up and go on in their threads (event_sink, retire_agent).
THEOREM EventsStayHomeAlways ==
  ASSUME ~SlowThreads
  PROVE  Spec => []EventsStayHome
<1>1. ExecInv => EventsStayHome
  BY DEF ExecInv
<1> QED BY <1>1, ExecInvAlways, PTL
-----------------------------------------------------------------------------
\* complete_turn leaves an ended turn alone.
LEMMA CompleteKeepsEnded ==
  ASSUME turn \in [Turns -> Status], NEW t, NEW s, CompleteTurn(t, s)
  PROVE  EndedStaysEnded
BY DEF CompleteTurn, EndedStaysEnded

\* No step changes the status of an ended turn.
LEMMA NextKeepsEnded ==
  ASSUME ~SlowThreads, ExecInv, [Next]_vars
  PROVE  EndedStaysEnded
<1> DEFINE Same == turn' = turn
<1>1. ASSUME Same PROVE EndedStaysEnded
  BY <1>1 DEF EndedStaysEnded
<1>2. turn \in [Turns -> Status]
  BY DEF ExecInv, Types, TurnTypes
<1>3. ASSUME Active # {} PROVE turn[ActiveTurn] \notin Terminal
  BY <1>3, ActiveTurnIsIt DEF ExecInv, TurnInv, Live, LiveStatus, Terminal
<1>4. CASE HandleSendNext \/ OnInbound
  BY <1>1, <1>2, <1>4 DEF HandleSendNext, OnInbound, FreshTurns, EndedStaysEnded, Terminal
<1>5. CASE HandleStop \/ HandleChatStop
  BY <1>1, <1>2, <1>3, <1>5 DEF HandleStop, HandleChatStop, MarkStopping, EndedStaysEnded
<1>6. CASE FinishReply \/ FinishResumed \/ FinishBusy \/ FinishFailed
  BY <1>2, <1>6, CompleteKeepsEnded DEF FinishReply, FinishResumed, FinishBusy, FinishFailed, OnReply
<1>7. CASE StopTimeout \/ ResumedStopTimeout \/ SteeringTimeout
  BY <1>2, <1>7, CompleteKeepsEnded DEF StopTimeout, ResumedStopTimeout, SteeringTimeout
<1>8. ASSUME NEW w \in Runs, EventTurn(w) PROVE EndedStaysEnded
  <2>1. PICK t \in Turns : turn' = IF turn[t] = "none" THEN [turn EXCEPT ![t] = "queued"] ELSE turn
    BY <1>8 DEF EventTurn
  <2> QED BY <1>2, <2>1 DEF EndedStaysEnded, Terminal
<1>9. ASSUME NEW w \in Runs, EventStage(w) PROVE EndedStaysEnded
  <2>1. turn[ev[w]] \notin Terminal
    BY <1>9 DEF EventStage, ExecInv, TurnInv, EventIsLive, Live, LiveStatus, Terminal
  <2> QED BY <1>2, <1>9, <2>1 DEF EventStage, EndedStaysEnded
<1>10. CASE Enqueue \/ HandleSteeringPrepare \/ WithdrawSteering \/ StopLate \/ SteeringLate \/ UNCHANGED vars
  BY <1>1, <1>10 DEF Enqueue, HandleSteeringPrepare, WithdrawSteering, StopLate, SteeringLate, vars, turnVars
<1>11. CASE RunTurn \/ FinishDelivery \/ ResumeAfterSteering \/ ResumeWithNothing \/ GraceEnds
  BY <1>1, <1>11 DEF RunTurn, FinishDelivery, ResumeAfterSteering, ResumeWithNothing, GraceEnds, turnVars
<1>12. ASSUME NEW w \in Runs,
              SessionBusy(w) \/ WorkerStarts(w) \/ WorkerStep(w) \/ WorkerHalts(w) \/ WorkerAnswers(w)
              \/ WorkerFails(w) \/ HardTimeout(w) \/ SinkCheck(w)
       PROVE  EndedStaysEnded
  BY <1>1, <1>12 DEF SessionBusy, WorkerStarts, WorkerStep, WorkerHalts, WorkerAnswers, WorkerFails,
     HardTimeout, SinkCheck, turnVars
<1> QED
  BY <1>4, <1>5, <1>6, <1>7, <1>8, <1>9, <1>10, <1>11, <1>12 DEF Next, Runner, Worker

\* A turn that has ended keeps its status: the events of a run that was given up, late stop
\* requests and second replies never revive it (complete_turn, _set_turn_stage).
THEOREM TerminalIsFinalAlways ==
  ASSUME ~SlowThreads
  PROVE  Spec => TerminalIsFinal
<1>1. ASSUME ExecInv, [Next]_vars PROVE [EndedStaysEnded]_vars
  BY <1>1, NextKeepsEnded
<1> QED BY <1>1, ExecInvAlways, PTL DEF Spec, TerminalIsFinal
-----------------------------------------------------------------------------
\* Nothing was asked at the start.
LEMMA WatchInit == Init => WatchWasAsked
BY DEF Init, WatchWasAsked

\* Every step keeps what the watchdog knows, whatever the threads do.
LEMMA WatchNext == ASSUME WatchWasAsked, [Next]_vars PROVE WatchWasAsked'
<1>1. CASE HandleStop \/ HandleChatStop \/ HandleSteeringPrepare
  BY <1>1, Zenon DEF HandleStop, HandleChatStop, HandleSteeringPrepare, RunnerRequestStop, WatchWasAsked
<1>2. CASE RunTurn
  BY <1>2 DEF RunTurn, StartReplyTask, WatchWasAsked
<1>3. CASE FinishReply \/ FinishResumed \/ FinishBusy \/ FinishFailed \/ ResumeAfterSteering \/ ResumeWithNothing
  BY <1>3 DEF FinishReply, FinishResumed, FinishBusy, FinishFailed, ResumeAfterSteering, ResumeWithNothing,
     Replied, WatchWasAsked
<1>4. CASE StopTimeout \/ ResumedStopTimeout \/ SteeringTimeout
  BY <1>4 DEF StopTimeout, ResumedStopTimeout, SteeringTimeout, GiveUp, WatchWasAsked
<1>5. CASE StopLate
  BY <1>5 DEF StopLate, WatchWasAsked
<1>6. CASE Enqueue \/ HandleSendNext \/ OnInbound \/ WithdrawSteering \/ SteeringLate \/ UNCHANGED vars
  BY <1>6 DEF Enqueue, HandleSendNext, OnInbound, WithdrawSteering, SteeringLate, vars, stopVars, WatchWasAsked
<1>7. CASE FinishDelivery \/ GraceEnds
  BY <1>7 DEF FinishDelivery, GraceEnds, stopVars, WatchWasAsked
<1>8. ASSUME NEW w \in Runs, Worker(w) PROVE WatchWasAsked'
  BY <1>8 DEF Worker, SessionBusy, WorkerStarts, WorkerStep, WorkerHalts, WorkerAnswers, WorkerFails,
     HardTimeout, SinkCheck, EventTurn, EventStage, stopVars, WatchWasAsked
<1> QED BY <1>1, <1>2, <1>3, <1>4, <1>5, <1>6, <1>7, <1>8 DEF Next, Runner

StatusKnown == turn \in [Turns -> Status]
TimedOutAsked == \A t \in Turns : turn[t] # "stop_timeout" /\ turn'[t] = "stop_timeout" => since

\* Only the stop watchdog writes stop_timeout.
LEMMA CompleteOtherwise ==
  ASSUME StatusKnown, NEW t, NEW s \in Terminal \ {"stop_timeout"}, CompleteTurn(t, s)
  PROVE  StatusKnown' /\ TimedOutAsked
BY DEF StatusKnown, TimedOutAsked, CompleteTurn, Status

\* A turn times out only if a stop was requested since the runner began to wait.
LEMMA StatusNext ==
  ASSUME StatusKnown, WatchWasAsked, [Next]_vars
  PROVE  StatusKnown' /\ TimedOutAsked
<1> DEFINE Goal == StatusKnown' /\ TimedOutAsked
<1> SUFFICES Goal
  OBVIOUS
<1>1. ASSUME turn' = turn PROVE Goal
  BY <1>1 DEF StatusKnown, TimedOutAsked
<1>2. ASSUME NEW t, NEW s \in LiveStatus, turn' = [turn EXCEPT ![t] = s] PROVE Goal
  BY <1>2 DEF StatusKnown, TimedOutAsked, Status, LiveStatus
<1>3. CASE HandleSendNext \/ OnInbound \/ HandleStop \/ HandleChatStop
  BY <1>1, <1>2, <1>3 DEF HandleSendNext, OnInbound, HandleStop, HandleChatStop, MarkStopping, LiveStatus
<1>4. CASE FinishReply \/ FinishResumed \/ FinishBusy \/ FinishFailed \/ SteeringTimeout
  BY <1>4, CompleteOtherwise
     DEF FinishReply, FinishResumed, FinishBusy, FinishFailed, SteeringTimeout, OnReply, Terminal
<1>5. CASE StopTimeout \/ ResumedStopTimeout
  <2>1. since /\ CompleteTurn(rturn, "stop_timeout")
    BY <1>5 DEF StopTimeout, ResumedStopTimeout, WatchWasAsked
  <2> QED BY <2>1 DEF CompleteTurn, StatusKnown, TimedOutAsked, Status, Terminal
<1>6. ASSUME NEW w \in Runs, EventTurn(w) \/ EventStage(w) PROVE Goal
  BY <1>1, <1>2, <1>6 DEF EventTurn, EventStage, LiveStatus
<1>7. CASE Enqueue \/ HandleSteeringPrepare \/ WithdrawSteering \/ StopLate \/ SteeringLate \/ UNCHANGED vars
  BY <1>1, <1>7 DEF Enqueue, HandleSteeringPrepare, WithdrawSteering, StopLate, SteeringLate, vars, turnVars
<1>8. CASE RunTurn \/ FinishDelivery \/ ResumeAfterSteering \/ ResumeWithNothing \/ GraceEnds
  BY <1>1, <1>8 DEF RunTurn, FinishDelivery, ResumeAfterSteering, ResumeWithNothing, GraceEnds, turnVars
<1>9. ASSUME NEW w \in Runs,
             SessionBusy(w) \/ WorkerStarts(w) \/ WorkerStep(w) \/ WorkerHalts(w) \/ WorkerAnswers(w)
             \/ WorkerFails(w) \/ HardTimeout(w) \/ SinkCheck(w)
      PROVE  Goal
  BY <1>1, <1>9 DEF SessionBusy, WorkerStarts, WorkerStep, WorkerHalts, WorkerAnswers, WorkerFails,
     HardTimeout, SinkCheck, turnVars
<1> QED BY <1>3, <1>4, <1>5, <1>6, <1>7, <1>8, <1>9 DEF Next, Runner, Worker

\* With fast and with slow threads: a stop request of an earlier turn never times out a later
\* one (run_turn, _stop_requested_at).
THEOREM WatchdogWasAskedAlways == Spec => WatchdogWasAsked
<1>1. Init => StatusKnown /\ WatchWasAsked
  BY WatchInit DEF Init, StatusKnown, Status
<1>2. ASSUME StatusKnown /\ WatchWasAsked, [Next]_vars
      PROVE  (StatusKnown /\ WatchWasAsked)' /\ [TimedOutAsked]_vars
  BY <1>2, WatchNext, StatusNext
<1> QED BY <1>1, <1>2, PTL DEF Spec, WatchdogWasAsked, TimedOutAsked
=============================================================================
