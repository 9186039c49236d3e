------------------------------ MODULE SessionPool ------------------------------
(* The pool of resident sessions (gateway/session.py) and the two paths that  *)
(* execute an agent on an entry of it: turns of the conversation runner       *)
(* (gateway/conversation/runner.py) and tasks of the task runtime             *)
(* (gateway/dispatcher.py).  An agent is named after the execution that built *)
(* it, an entry after the execution it was created for; the configuration of *)
(* a session is its client_config_version.                                    *)
EXTENDS Naturals, FiniteSets

CONSTANTS
  Keys,          \* session keys
  MaxExecs,      \* bound: executions (turns and tasks), each used once
  MaxSessions,   \* session_mgr.max_sessions
  MaxConf,       \* bound: configuration changes, numbered across the sessions
  Races          \* races admitted: a subset of {"evict", "switch", "full"}

VARIABLES
  conf,          \* stored configuration of each session
  promised,      \* the configuration of its last switch
  ent,           \* entries
  pool,          \* session_mgr._sessions: key -> entry
  held,          \* runner._entries: key -> entry
  exec,          \* executions
  built,         \* configuration each agent was built with
  cleaned        \* agents whose processes and MCP connections were released

poolVars == <<conf, promised, ent, pool, held, exec, built, cleaned>>

ASSUME PoolAssumption ==
  /\ MaxExecs \in Nat /\ MaxSessions \in Nat /\ MaxConf \in Nat
  /\ Races \subseteq {"evict", "switch", "full"} /\ "none" \notin Keys

Execs == 1 .. MaxExecs
None == 0                    \* no execution, entry or agent
NoConf == MaxConf + 1        \* gateway defaults: no workspace context attached
Off == [at |-> "off", kind |-> "none", key |-> "none", ent |-> None, agent |-> None, due |-> 0]
Done == [Off EXCEPT !.at = "done"]
NoEntry == [key |-> "none", private |-> FALSE, busy |-> FALSE, lock |-> None,
            agent |-> None, ctx |-> NoConf]

\* An executor thread is inside agent.run(); after a time-out nobody waits for it.
Driving == {x \in Execs : exec[x].at \in {"run", "zombie"}}
\* Somebody still awaits this execution on its entry.
InFlight(e) == {x \in Execs : exec[x].ent = e /\ exec[x].at \notin {"off", "zombie", "done"}}
\* runner._running: run_turn returns while a turn of the conversation executes.
TurnRunning(k) ==
  \E x \in Execs : exec[x].kind = "turn" /\ exec[x].key = k
                   /\ exec[x].at \notin {"zombie", "done"}
\* The next execution to arrive.
Fresh(x) == exec[x].at = "off" /\ \A y \in 1 .. x - 1 : exec[y].at # "off"
Latest == CHOOSE c \in 0 .. MaxConf : (\E k \in Keys : conf[k] = c) /\ \A k \in Keys : conf[k] <= c
Resident == {k \in Keys : pool[k] # None}
-----------------------------------------------------------------------------
(* Entries                                                                   *)

\* SessionManager.get_or_create for execution x: the entry, or None when full
PooledEntry(k, x) ==
  CASE pool[k] # None -> pool[k]
    [] pool[k] = None /\ Cardinality(Resident) < MaxSessions -> x
    [] OTHER -> None

\* The entry that get_or_create makes
EntryFor(k, e) == IF ent[e].key = "none" THEN [NoEntry EXCEPT !.key = k] ELSE ent[e]

\* runner._entry, pool not full: the shared entry replaces what the runner holds;
\* a private one with an agent is discarded and its resources released.
DroppedPrivate(k, e) ==
  {h \in Execs : held[k] = h /\ h # e /\ ent[h].private /\ ent[h].agent # None}

\* runner._entry and the head of runner._execute: the turn gets its entry, marks it
\* busy and attaches the stored configuration; _execute_agent runs as a new task.
TurnArrives(x, k) ==
  LET e == PooledEntry(k, x)
      drop == DroppedPrivate(k, e)
  IN /\ Fresh(x) /\ e # None
     /\ ~TurnRunning(k)
     /\ pool' = [pool EXCEPT ![k] = e]
     /\ held' = [held EXCEPT ![k] = e]
     /\ ent' = [y \in Execs |->
          IF y = e THEN [EntryFor(k, e) EXCEPT !.busy = TRUE, !.ctx = conf[k]]
          ELSE IF y \in drop THEN [ent[y] EXCEPT !.agent = None] ELSE ent[y]]
     /\ cleaned' = cleaned \cup {ent[y].agent : y \in drop}
     /\ exec' = [exec EXCEPT ![x] = [Off EXCEPT !.at = "called", !.kind = "turn",
                                  !.key = k, !.ent = e, !.due = promised[k]]]
     /\ UNCHANGED <<conf, promised, built>>

\* The same with a full pool: the entry the runner holds, or a private one.
TurnArrivesFull(x, k) ==
  LET e == IF held[k] # None THEN held[k] ELSE x
  IN /\ Fresh(x) /\ PooledEntry(k, x) = None
     /\ "full" \in Races \/ ent[e].agent \notin cleaned
     /\ ~TurnRunning(k)
     /\ held' = [held EXCEPT ![k] = e]
     /\ ent' = [ent EXCEPT ![e] =
          [EntryFor(k, e) EXCEPT !.busy = TRUE, !.ctx = conf[k],
                                 !.private = (held[k] = None) \/ @]]
     /\ exec' = [exec EXCEPT ![x] = [Off EXCEPT !.at = "called", !.kind = "turn",
                                  !.key = k, !.ent = e, !.due = promised[k]]]
     /\ UNCHANGED <<conf, promised, pool, built, cleaned>>

\* submit_plan_task and its siblings: the task keeps the entry it gets now;
\* _ensure_workspace_context leaves an attached context alone.
TaskSubmitted(x, k) ==
  LET e == PooledEntry(k, x)
  IN /\ Fresh(x) /\ e # None
     /\ "full" \in Races \/ \A y \in Execs : ent[y].key = k /\ y # e => InFlight(y) = {}
     /\ "switch" \in Races \/ EntryFor(k, e).agent # None \/ EntryFor(k, e).ctx >= promised[k]
     /\ pool' = [pool EXCEPT ![k] = e]
     /\ ent' = [ent EXCEPT ![e] = [EntryFor(k, e) EXCEPT !.ctx = IF @ = NoConf THEN conf[k] ELSE @]]
     /\ exec' = [exec EXCEPT ![x] = [Off EXCEPT !.at = "queued", !.kind = "task",
                                  !.key = k, !.ent = e, !.due = promised[k]]]
     /\ UNCHANGED <<conf, promised, held, built, cleaned>>
-----------------------------------------------------------------------------
(* Execution                                                                 *)

\* A plausible slip: a second path is let in while the lock is held.
EnterUnlocked(x) ==
  LET e == exec[x].ent
  IN /\ ent' = [ent EXCEPT ![e].lock = x, ![e].busy = TRUE]
     /\ exec' = [exec EXCEPT ![x].at = IF ent[e].agent = None THEN "create" ELSE "run",
                          ![x].agent = ent[e].agent]
\* _execute_agent gets exec_lock: the resident agent is driven, or one is built.
Enter(x) ==
  LET e == exec[x].ent
  IN /\ ent[e].lock = None
     /\ ent' = [ent EXCEPT ![e].lock = x, ![e].busy = TRUE]
     /\ exec' = [exec EXCEPT ![x].at = IF ent[e].agent = None THEN "create" ELSE "run",
                          ![x].agent = ent[e].agent]

TurnEnters(x) ==
  /\ exec[x].at = "called"
  /\ Enter(x)
  /\ UNCHANGED <<conf, promised, pool, held, built, cleaned>>

\* SESSION_BUSY_REPLY to a turn: the runner's finally clears the flag.
TurnRefused(x) ==
  /\ exec[x].at = "called" /\ ent[exec[x].ent].lock # None
  /\ ent' = [ent EXCEPT ![exec[x].ent].busy = FALSE]
  /\ exec' = [exec EXCEPT ![x] = Done]
  /\ UNCHANGED <<conf, promised, pool, held, built, cleaned>>

\* _execute_runtime_task marks the entry busy and tries the lock, at once and then
\* after each back-off.
TaskEnters(x) ==
  /\ exec[x].at \in {"queued", "retry"}
  /\ Enter(x)
  /\ UNCHANGED <<conf, promised, pool, held, built, cleaned>>

TaskBacksOff(x) ==
  /\ exec[x].at = "queued" /\ ent[exec[x].ent].lock # None
  /\ ent' = [ent EXCEPT ![exec[x].ent].busy = TRUE]
  /\ exec' = [exec EXCEPT ![x].at = "retry"]
  /\ UNCHANGED <<conf, promised, pool, held, built, cleaned>>

\* The deadline of the retries passes: the busy reply ends the task.
TaskGivesUp(x) ==
  /\ exec[x].at = "retry" /\ ent[exec[x].ent].lock # None
  /\ ent' = [ent EXCEPT ![exec[x].ent].busy = FALSE]
  /\ exec' = [exec EXCEPT ![x] = Done]
  /\ UNCHANGED <<conf, promised, pool, held, built, cleaned>>

\* _create, in the executor, reads what is attached to the entry.
AgentCreated(x) ==
  /\ exec[x].at = "create"
  /\ built' = [built EXCEPT ![x] = ent[exec[x].ent].ctx]
  /\ exec' = [exec EXCEPT ![x].at = "made"]
  /\ UNCHANGED <<conf, promised, ent, pool, held, cleaned>>

\* Back on the loop it becomes the agent of the entry and is driven.
AgentInstalled(x) ==
  /\ exec[x].at = "made"
  /\ ent' = [ent EXCEPT ![exec[x].ent].agent = x]
  /\ exec' = [exec EXCEPT ![x].at = "run", ![x].agent = x]
  /\ UNCHANGED <<conf, promised, pool, held, built, cleaned>>

\* agent.run() returns: exec_lock is released, delivery follows.
RunReturns(x) ==
  /\ exec[x].at = "run"
  /\ ent' = [ent EXCEPT ![exec[x].ent].lock = None]
  /\ exec' = [exec EXCEPT ![x].at = "closing"]
  /\ UNCHANGED <<conf, promised, pool, held, built, cleaned>>

\* The finally of runner._execute and of _execute_runtime_task.
ExecutionCloses(x) ==
  /\ exec[x].at = "closing"
  /\ ent' = [ent EXCEPT ![exec[x].ent].busy = FALSE]
  /\ exec' = [exec EXCEPT ![x] = Done]
  /\ UNCHANGED <<conf, promised, pool, held, built, cleaned>>

\* A plausible slip: the agent stays on the entry after a time-out.
QuarantineKeepsAgent(e) == [e EXCEPT !.busy = FALSE, !.lock = None]

\* _quarantine_after_timeout: the agent leaves the entry, the thread goes on.
Quarantine(e) == [e EXCEPT !.agent = None, !.busy = FALSE, !.lock = None]

\* Hard time-out of a turn, or the cancelled wait of a task.
RunTimesOut(x) ==
  /\ exec[x].at = "run"
  /\ ent' = [ent EXCEPT ![exec[x].ent] = Quarantine(ent[exec[x].ent])]
  /\ exec' = [exec EXCEPT ![x].at = "zombie"]
  /\ UNCHANGED <<conf, promised, pool, held, built, cleaned>>

\* The worker of a given-up execution ends.
ZombieEnds(x) ==
  /\ exec[x].at = "zombie"
  /\ exec' = [exec EXCEPT ![x] = Done]
  /\ UNCHANGED <<conf, promised, ent, pool, held, built, cleaned>>
-----------------------------------------------------------------------------
(* Eviction and configuration                                                *)

MayEvict(e) == "evict" \in Races \/ InFlight(e) = {}

\* evict(save=True): the delete handlers of sessions and workspaces
Evict(k) ==
  /\ pool[k] # None /\ ~ent[pool[k]].busy /\ MayEvict(pool[k])
  /\ pool' = [pool EXCEPT ![k] = None]
  /\ cleaned' = cleaned \cup ({ent[pool[k]].agent} \ {None})
  /\ UNCHANGED <<conf, promised, ent, held, exec, built>>

\* _janitor_loop collects every idle entry of its snapshot in one pass.
JanitorRound ==
  LET idle == {k \in Resident : ~ent[pool[k]].busy /\ MayEvict(pool[k])}
  IN /\ idle # {}
     /\ \E gone \in SUBSET idle \ {{}} :
          /\ pool' = [k \in Keys |-> IF k \in gone THEN None ELSE pool[k]]
          /\ cleaned' = cleaned \cup ({ent[pool[k]].agent : k \in gone} \ {None})
     /\ UNCHANGED <<conf, promised, ent, held, exec, built>>

\* runner._cleanup_loop and runner.evict: what the runner holds and no turn uses
RunnerEvicts(k) ==
  /\ held[k] # None
  /\ ~TurnRunning(k)
  /\ MayEvict(held[k])
  /\ held' = [held EXCEPT ![k] = None]
  /\ ent' = [ent EXCEPT ![held[k]].agent = None]
  /\ cleaned' = cleaned \cup ({ent[held[k]].agent} \ {None})
  /\ UNCHANGED <<conf, promised, pool, exec, built>>

\* A plausible slip: the resident agent survives the switch.
RebuildLater(k) == UNCHANGED ent

\* _rebuild_on_next_message
RebuildOnNextMessage(k) ==
  ent' = IF pool[k] = None THEN ent ELSE [ent EXCEPT ![pool[k]].agent = None]

\* _make_switch: refused only while the row is busy, which a turn never sets
SwitchConfig(k) ==
  /\ Latest < MaxConf
  /\ "switch" \in Races \/ \A e \in Execs : ent[e].key = k => InFlight(e) = {}
  /\ "full" \notin Races /\ held[k] \notin {None, pool[k]} => ent[held[k]].agent = None
  /\ conf' = [conf EXCEPT ![k] = Latest + 1]
  /\ promised' = [promised EXCEPT ![k] = Latest + 1]
  /\ RebuildOnNextMessage(k)
  /\ UNCHANGED <<pool, held, exec, built, cleaned>>

\* _make_apply_config: stored, and entry.config_stale, which nothing acts on
ApplyConfig(k) ==
  /\ Latest < MaxConf
  /\ conf' = [conf EXCEPT ![k] = Latest + 1]
  /\ UNCHANGED <<promised, ent, pool, held, exec, built, cleaned>>
-----------------------------------------------------------------------------
PoolInit ==
  /\ conf = [k \in Keys |-> 0] /\ promised = [k \in Keys |-> 0]
  /\ ent = [e \in Execs |-> NoEntry]
  /\ pool = [k \in Keys |-> None] /\ held = [k \in Keys |-> None]
  /\ exec = [x \in Execs |-> Off]
  /\ built = [x \in Execs |-> NoConf] /\ cleaned = {}

PoolNext ==
  \/ \E x \in Execs :
       \/ TurnEnters(x) \/ TurnRefused(x)
       \/ TaskEnters(x) \/ TaskBacksOff(x) \/ TaskGivesUp(x)
       \/ AgentCreated(x) \/ AgentInstalled(x)
       \/ RunReturns(x) \/ ExecutionCloses(x) \/ RunTimesOut(x) \/ ZombieEnds(x)
  \/ \E x \in Execs, k \in Keys :
       \/ TurnArrives(x, k) \/ TurnArrivesFull(x, k) \/ TaskSubmitted(x, k)
  \/ \E k \in Keys : Evict(k) \/ RunnerEvicts(k) \/ SwitchConfig(k) \/ ApplyConfig(k)
  \/ JanitorRound

PoolSpec == PoolInit /\ [][PoolNext]_poolVars
-----------------------------------------------------------------------------
(* Properties                                                                *)

EntryRecord ==
  [key : Keys \cup {"none"}, private : BOOLEAN, busy : BOOLEAN, lock : Execs \cup {None},
   agent : Execs \cup {None}, ctx : 0 .. NoConf]
ExecRecord ==
  [at : {"off", "called", "queued", "retry", "create", "made", "run", "closing", "zombie", "done"},
   kind : {"none", "turn", "task"}, key : Keys \cup {"none"}, ent : Execs \cup {None},
   agent : Execs \cup {None}, due : 0 .. MaxConf]

PoolTypeOK ==
  /\ conf \in [Keys -> 0 .. MaxConf] /\ promised \in [Keys -> 0 .. MaxConf]
  /\ ent \in [Execs -> EntryRecord] /\ exec \in [Execs -> ExecRecord]
  /\ pool \in [Keys -> Execs \cup {None}] /\ held \in [Keys -> Execs \cup {None}]
  /\ built \in [Execs -> 0 .. NoConf] /\ cleaned \subseteq Execs

\* No two executor threads are ever inside agent.run() of one agent, threads that
\* were given up after a time-out included (dispatcher._execute_agent, exec_lock and
\* _quarantine_after_timeout).
OneDriverPerAgent ==
  \A x, y \in Driving : x # y => exec[x].agent # exec[y].agent

\* Whatever path it takes, one awaited execution of a session runs at a time: all paths
\* share one entry and its lock (runner._entry: one agent instance per session key).
OneRunPerKey ==
  \A x, y \in Execs :
    x # y /\ exec[x].at = "run" /\ exec[y].at = "run" => exec[x].key # exec[y].key

\* A turn that starts after a switch of its session is driven with that configuration
\* or a later one (_rebuild_on_next_message).
SwitchTakesEffect ==
  \A x \in Execs : exec[x].kind = "turn" /\ exec[x].at = "run"
                   => built[exec[x].agent] >= exec[x].due

\* An awaited execution never loses the processes and MCP connections of its agent
\* (SessionManager.evict refuses busy entries).
RunKeepsResources ==
  \A x \in Execs : exec[x].at = "run" => exec[x].agent \notin cleaned

\* An entry whose lock is held is marked busy, which is what evict and the janitor look
\* at (session.py evict).
BusyCoversRun ==
  \A e \in Execs : ent[e].lock # None => ent[e].busy
=============================================================================
