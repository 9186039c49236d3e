----------------------------- MODULE TaskRuntime ------------------------------
(***************************************************************************)
(* The durable task queue of the gateway (core/runtime/task_runtime.py) on *)
(* the tasks table it shares with other gateway processes                  *)
(* (core/runtime/sqlite_store.py), with the start and restart of           *)
(* Dispatcher.                                                             *)
(*                                                                         *)
(* A process keeps a queue in memory, a fixed number of workers, a lock    *)
(* and an "available" event per session, the timed-out executions that are *)
(* still running (zombies, which quarantine their session) and the timers  *)
(* of failed tasks.  The database keeps the state of a task and its lease. *)
(* Coroutines of a process interleave at their awaits only; transactions   *)
(* of different processes interleave freely.                               *)
(*                                                                         *)
(* An event object that _prune_session_state has dropped stays with the    *)
(* worker that waits for it; a worker's record says whether its event is   *)
(* the session's current one or an old one, and whether that one is set.   *)
(***************************************************************************)
EXTENDS Naturals, Sequences, FiniteSets, SequencesExt

CONSTANTS
    Procs,        \* gateway processes
    Workers,      \* workers of a process (max_global_concurrency)
    Tasks,        \* task ids, numbered in the order of created_at
    Sessions,     \* sessions
    SessionOf,    \* the session of a task
    Durable,      \* tasks of source scheduler or plan
    Plans,        \* tasks with a plan_id
    Waited,       \* tasks somebody may wait for
    MaxAttempts,  \* max_attempts
    MaxCancels,   \* bound: cancel requests
    MaxStarts,    \* bound: starts of a process; the last one does not end
    MayCrash      \* whether processes may end without stop()

ASSUME TaskAssumption ==
    /\ IsFiniteSet(Tasks) /\ Tasks \subseteq Nat \ {0}
    /\ SessionOf \in [Tasks -> Sessions]
    /\ Plans \subseteq Durable /\ Durable \subseteq Tasks /\ Waited \subseteq Tasks
    /\ MaxAttempts \in Nat \ {0} /\ MaxCancels \in Nat /\ MaxStarts \in Nat
    /\ MayCrash \in BOOLEAN

Terminal == {"completed", "failed", "blocked", "cancelled", "timed_out"}
Active == {"queued", "leased", "running", "retry_wait"}
Status == Terminal \cup Active \cup {"created", "interrupted"}

\* _ALLOWED_TRANSITIONS, without the waiting states no code enters.
Allowed == [s \in Status |->
    CASE s = "created"     -> {"queued", "cancelled"}
      [] s = "queued"      -> {"leased", "cancelled", "blocked"}
      [] s = "leased"      -> {"running", "queued", "cancelled", "interrupted"}
      [] s = "running"     -> (Terminal \cup {"retry_wait", "interrupted"})
      [] s = "retry_wait"  -> {"queued", "cancelled", "failed"}
      [] s = "interrupted" -> {"queued", "failed", "cancelled"}
      [] s = "blocked"     -> {"queued"}
      [] OTHER             -> {}]

Nobody == <<"nobody", 0>>

VARIABLES
    db,        \* the tasks table
    alive,     \* "down", "up" (started) or "ready" (persisted tasks resumed)
    starts,    \* how often a process was started: with its name, its instance_id
    queue,     \* TaskRuntime._queue
    worker,    \* where each worker's _run_queued is
    up,        \* whether the session's current available event is set
    lock,      \* the session lock: its holder and those waiting, in order
    zombies,   \* TaskRuntime._zombies
    retries,   \* TaskRuntime._retries
    tokens,    \* tasks whose cancellation token is set
    waiting,   \* TaskRuntime._completion: tasks somebody waits for
    cancels    \* cancel requests so far

memory == <<queue, worker, up, lock, zombies, retries, tokens, waiting>>
vars == <<db, alive, starts, memory, cancels>>

-----------------------------------------------------------------------------
(* The record of a task. *)

Me(p) == <<p, starts[p]>>

\* A plausible slip: any state may follow any other.
LegalAlways(r, to) == TRUE

\* TaskRecord.transition raises ValueError unless this holds.
Legal(r, to) == to = r.status \/ to \in Allowed[r.status]

\* TaskRecord.transition: queued and terminal records have no lease.
Move(r, to) ==
    IF to = r.status THEN r
    ELSE IF to \in Terminal \cup {"queued"}
         THEN [r EXCEPT !.status = to, !.owner = Nobody, !.lease = "none"]
         ELSE [r EXCEPT !.status = to]

\* TaskRuntime._transition: an illegal transition is skipped.
TryMove(r, to, res) ==
    IF Legal(r, to) THEN [Move(r, to) EXCEPT !.result = @ \/ res] ELSE r

\* _recover_eligible: one's own, or a lease that is over.
Eligible(r, me) == r.owner = me \/ r.lease # "valid"

Session(p, w) == SessionOf[worker[p][w].task]
Idle == [pc |-> "idle", task |-> 0, event |-> "current"]

\* Between the two transactions that start a task the process does nothing else.
Free(p) == alive[p] # "down" /\ \A w \in Workers : worker[p][w].pc # "leased"

-----------------------------------------------------------------------------
(* Session state. *)

\* Workers that hold the session's event, when it is dropped, keep the old one.
KeepOldEvent(p, s, ws) ==
    [w \in Workers |->
        IF ws[w].pc \in {"event", "lock"} /\ SessionOf[ws[w].task] = s /\ ws[w].event = "current"
        THEN [ws[w] EXCEPT !.event = IF up[p][s] THEN "old_set" ELSE "old_clear"] ELSE ws[w]]

NoActiveTask(s, d) == \A t \in Tasks : SessionOf[t] = s => d[t].status \notin Active

\* _prune_session_state: without active tasks the session's event is dropped,
\* the next one is new and set.
PruneWorkers(p, s, d, ws) ==
    worker' = [worker EXCEPT ![p] = IF NoActiveTask(s, d) THEN KeepOldEvent(p, s, ws) ELSE ws]
PruneEvent(p, s, d) ==
    up' = IF NoActiveTask(s, d) THEN [up EXCEPT ![p][s] = TRUE] ELSE up

\* A plausible slip: the future is dropped before it is answered.
CompleteOnlyPrunes(p, t, d, ws) ==
    /\ PruneWorkers(p, SessionOf[t], d, ws) /\ PruneEvent(p, SessionOf[t], d)
    /\ UNCHANGED waiting

\* _complete: answer who waits for the task, then prune.
Complete(p, t, d, ws) ==
    /\ waiting' = [waiting EXCEPT ![p] = @ \ {t}]
    /\ PruneWorkers(p, SessionOf[t], d, ws) /\ PruneEvent(p, SessionOf[t], d)

\* A plausible slip: acquire without the matching release.
ReleaseForgotten(p, s) == UNCHANGED lock

\* Leaving `async with lock`: the next in line has it.
Release(p, s) == lock' = [lock EXCEPT ![p][s] = Tail(@)]

SetWorker(p, w, r) == worker' = [worker EXCEPT ![p][w] = r]

-----------------------------------------------------------------------------
(* Callers. *)

\* submit
Submit(p, t) ==
    /\ Free(p)
    /\ db[t].status = "created"
    /\ db' = [db EXCEPT ![t] = Move(@, "queued")]
    /\ queue' = [queue EXCEPT ![p] = Append(@, t)]
    /\ UNCHANGED <<alive, starts, worker, up, lock, zombies, retries, tokens, waiting, cancels>>

\* request_cancel ends a task that nobody runs; then cancel answers for it.
Cancel(p, t) ==
    /\ Free(p)
    /\ cancels < MaxCancels
    /\ db[t].status # "created"
    /\ cancels' = cancels + 1
    /\ LET asked == [db[t] EXCEPT !.cancel = TRUE]
           r == IF asked.status \in {"queued", "retry_wait"} THEN Move(asked, "cancelled") ELSE asked
           d == [db EXCEPT ![t] = [r EXCEPT !.result = @ \/ r.status = "cancelled"]]
       IN  /\ db' = d
           /\ IF r.status = "cancelled" THEN Complete(p, t, d, worker[p])
              ELSE UNCHANGED <<waiting, worker, up>>
    /\ tokens' = IF \E w \in Workers : worker[p][w].pc = "run" /\ worker[p][w].task = t
                 THEN [tokens EXCEPT ![p] = @ \cup {t}] ELSE tokens
    /\ UNCHANGED <<alive, starts, queue, lock, zombies, retries>>

\* wait returns a stored result at once.
Wait(p, t) ==
    /\ Free(p)
    /\ t \in Waited
    /\ db[t].status # "created" /\ ~db[t].result
    /\ waiting' = [waiting EXCEPT ![p] = @ \cup {t}]
    /\ UNCHANGED <<db, alive, starts, queue, worker, up, lock, zombies, retries, tokens, cancels>>

-----------------------------------------------------------------------------
(* A worker: _run_queued. *)

\* Take a task; wait for the session's event, or line up for its lock.
TakeTask(p, w) ==
    /\ Free(p)
    /\ worker[p][w].pc = "idle" /\ queue[p] # <<>>
    /\ LET t == Head(queue[p])
           s == SessionOf[t]
       IN  IF db[t].status \in Terminal THEN UNCHANGED <<worker, lock>>
           ELSE IF up[p][s]
           THEN /\ SetWorker(p, w, [pc |-> "lock", task |-> t, event |-> "current"])
                /\ lock' = [lock EXCEPT ![p][s] = Append(@, w)]
           ELSE /\ SetWorker(p, w, [pc |-> "event", task |-> t, event |-> "current"])
                /\ UNCHANGED lock
    /\ queue' = [queue EXCEPT ![p] = Tail(@)]
    /\ UNCHANGED <<db, alive, starts, up, zombies, retries, tokens, waiting, cancels>>

EventIsSet(p, w) ==
    CASE worker[p][w].event = "current" -> up[p][Session(p, w)]
      [] worker[p][w].event = "old_set" -> TRUE
      [] OTHER -> FALSE

EventWakes(p, w) ==
    /\ Free(p)
    /\ worker[p][w].pc = "event" /\ EventIsSet(p, w)
    /\ worker' = [worker EXCEPT ![p][w].pc = "lock"]
    /\ lock' = [lock EXCEPT ![p][Session(p, w)] = Append(@, w)]
    /\ UNCHANGED <<db, alive, starts, queue, up, zombies, retries, tokens, waiting, cancels>>

\* A plausible slip: do not look at the event again.
StillAvailableUnchecked(p, w) == TRUE

StillAvailable(p, w) == EventIsSet(p, w)

\* expected_status: the task is still queued.
MayLease(r) == r.status = "queued"

\* With the lock: look again, then lease the task, or give up.
EnterLock(p, w) ==
    LET t == worker[p][w].task
        s == Session(p, w)
        r == db[t]
    IN  /\ Free(p)
        /\ worker[p][w].pc = "lock" /\ Head(lock[p][s]) = w
        /\ IF StillAvailable(p, w) /\ r.status \notin Terminal /\ ~r.cancel /\ MayLease(r)
           THEN /\ db' = [db EXCEPT ![t] =
                            [Move(r, "leased") EXCEPT !.owner = Me(p), !.lease = "valid"]]
                /\ worker' = [worker EXCEPT ![p][w].pc = "leased"]
                /\ UNCHANGED <<queue, lock>>
           ELSE /\ db' = [db EXCEPT ![t] =
                            IF StillAvailable(p, w) /\ r.status \notin Terminal /\ r.cancel
                            THEN TryMove(r, "cancelled", FALSE) ELSE r]
                /\ queue' = IF StillAvailable(p, w) THEN queue
                            ELSE [queue EXCEPT ![p] = Append(@, t)]
                /\ SetWorker(p, w, Idle)
                /\ Release(p, s)
        /\ UNCHANGED <<alive, starts, up, zombies, retries, tokens, waiting, cancels>>

\* leased -> running, increment_attempt, and the executor is started.
StartRunning(p, w) ==
    LET t == worker[p][w].task
    IN  /\ worker[p][w].pc = "leased"
        /\ IF Legal(db[t], "running")
           THEN /\ db' = [db EXCEPT ![t] = [Move(db[t], "running") EXCEPT !.attempt = @ + 1]]
                /\ worker' = [worker EXCEPT ![p][w].pc = "run"]
                /\ tokens' = [tokens EXCEPT ![p] = @ \ {t}]
                /\ UNCHANGED lock
           ELSE /\ SetWorker(p, w, Idle)
                /\ Release(p, Session(p, w))
                /\ UNCHANGED <<db, tokens>>
        /\ UNCHANGED <<alive, starts, queue, up, zombies, retries, waiting, cancels>>

\* _schedule_retry
MayRetry(r) == ~r.cancel /\ r.attempt < MaxAttempts /\ Legal(r, "retry_wait")

\* The executor returns or raises: retry a failure, else write the result.
Finish(p, w) ==
    LET t == worker[p][w].task
    IN  /\ Free(p)
        /\ worker[p][w].pc = "run"
        /\ \E o \in {"completed", "failed", "blocked"} \cup
                    (IF t \in tokens[p] THEN {"cancelled"} ELSE {}) :
             IF o = "failed" /\ MayRetry(db[t])
             THEN /\ db' = [db EXCEPT ![t] = Move(@, "retry_wait")]
                  /\ retries' = [retries EXCEPT ![p] = @ \cup {t}]
                  /\ SetWorker(p, w, Idle)
                  /\ UNCHANGED <<waiting, up>>
             ELSE LET d == [db EXCEPT ![t] = TryMove(@, o, TRUE)]
                  IN  /\ db' = d
                      /\ Complete(p, t, d, [worker[p] EXCEPT ![w] = Idle])
                      /\ UNCHANGED retries
        /\ Release(p, Session(p, w))
        /\ UNCHANGED <<alive, starts, queue, zombies, tokens, cancels>>

\* _handle_timeout: the shielded execution goes on as a zombie and its session
\* is not available.
Timeout(p, w) ==
    LET t == worker[p][w].task
        s == Session(p, w)
        d == [db EXCEPT ![t] = TryMove(@, "timed_out", TRUE)]
    IN  /\ Free(p)
        /\ worker[p][w].pc = "run"
        /\ db' = d
        /\ waiting' = [waiting EXCEPT ![p] = @ \ {t}]
        /\ zombies' = [zombies EXCEPT ![p] = @ \cup {t}]
        /\ PruneWorkers(p, s, d, [worker[p] EXCEPT ![w] = Idle])
        /\ up' = [up EXCEPT ![p][s] = FALSE]
        /\ Release(p, s)
        /\ UNCHANGED <<alive, starts, queue, retries, tokens, cancels>>

\* A plausible slip: the quarantine ends and nobody is told.
ReleaseQuarantineSilently(p, t) ==
    /\ Free(p)
    /\ t \in zombies[p]
    /\ zombies' = [zombies EXCEPT ![p] = @ \ {t}]
    /\ UNCHANGED <<db, alive, starts, queue, worker, up, lock, retries, tokens, waiting, cancels>>

\* _release_quarantine: the zombie has ended, or zombie_max_seconds are over.
ReleaseQuarantine(p, t) ==
    /\ Free(p)
    /\ t \in zombies[p]
    /\ zombies' = [zombies EXCEPT ![p] = @ \ {t}]
    /\ up' = [up EXCEPT ![p][SessionOf[t]] = TRUE]
    /\ UNCHANGED <<db, alive, starts, queue, worker, lock, retries, tokens, waiting, cancels>>

\* _retry_after
RetryAfter(p, t) ==
    /\ Free(p)
    /\ t \in retries[p]
    /\ retries' = [retries EXCEPT ![p] = @ \ {t}]
    /\ IF db[t].status = "retry_wait" /\ ~db[t].cancel
       THEN /\ db' = [db EXCEPT ![t] = Move(@, "queued")]
            /\ queue' = [queue EXCEPT ![p] = Append(@, t)]
       ELSE UNCHANGED <<db, queue>>
    /\ UNCHANGED <<alive, starts, worker, up, lock, zombies, tokens, waiting, cancels>>

-----------------------------------------------------------------------------
(* Start, restart, crash. *)

\* A plausible slip: recovery takes whatever is leased or running.
RecoverableAny(r, me) == r.status \in {"leased", "running"}

\* recover_interrupted
Recoverable(r, me) == r.status \in {"leased", "running"} /\ Eligible(r, me)

\* requeue_missing_context
Reopened(t, me) == /\ t \in Durable
                   /\ db[t].status = "blocked" /\ db[t].missing /\ Eligible(db[t], me)

\* Dispatcher.start: recover without requeueing, reopen tasks that only
\* lacked their channel.
Start(p) ==
    /\ alive[p] = "down"
    /\ starts[p] < MaxStarts
    /\ starts' = [starts EXCEPT ![p] = @ + 1]
    /\ alive' = [alive EXCEPT ![p] = "up"]
    /\ LET me == <<p, starts[p] + 1>>
       IN  db' = [t \in Tasks |->
             IF Recoverable(db[t], me) THEN [Move(db[t], "interrupted") EXCEPT !.owner = me]
             ELSE IF Reopened(t, me)
                  THEN [Move(db[t], "queued") EXCEPT !.owner = me, !.result = FALSE, !.missing = FALSE]
                  ELSE db[t]]
    /\ UNCHANGED <<memory, cancels>>

\* What this process was given itself: it has the context.
Held(p) == Range(queue[p]) \cup {worker[p][w].task : w \in Workers}

\* ORDER BY created_at: the sequence (there is one) of the tasks of S in their order.
InOrder(S) == {q \in [1..Cardinality(S) -> S] : \A a, b \in DOMAIN q : a < b => q[a] < q[b]}

\* resume_persisted_tasks: plan tasks are queued again, tasks whose channel cannot
\* be restored are blocked, the rest is enqueued; then claim_retry_wait.
Resume(p) ==
    /\ alive[p] = "up" /\ Free(p)
    /\ alive' = [alive EXCEPT ![p] = "ready"]
    /\ \E lost \in SUBSET {t \in Tasks \ Held(p) :
                            db[t].status = "queued" \/ (db[t].status = "interrupted" /\ t \in Plans)} :
         LET resumed == [t \in Tasks |->
                 IF db[t].status = "interrupted" /\ t \in Plans THEN Move(db[t], "queued") ELSE db[t]]
             kept == [t \in Tasks |->
                 IF t \in lost THEN [Move(resumed[t], "blocked") EXCEPT !.missing = TRUE] ELSE resumed[t]]
             claimed == {t \in Tasks : kept[t].status = "retry_wait" /\ Eligible(kept[t], Me(p))}
             found == {t \in Tasks : kept[t].status = "queued"}
         IN  /\ db' = [t \in Tasks |-> IF t \in claimed
                                       THEN [Move(kept[t], "queued") EXCEPT !.owner = Me(p)]
                                       ELSE kept[t]]
             /\ \E q \in InOrder(found), c \in InOrder(claimed) :
                  queue' = [queue EXCEPT ![p] = @ \o q \o c]
    /\ UNCHANGED <<starts, worker, up, lock, zombies, retries, tokens, waiting, cancels>>

\* What a process has in memory when it starts.
Forget(p) ==
    /\ alive' = [alive EXCEPT ![p] = "down"]
    /\ queue' = [queue EXCEPT ![p] = <<>>]
    /\ worker' = [worker EXCEPT ![p] = [w \in Workers |-> Idle]]
    /\ up' = [up EXCEPT ![p] = [s \in Sessions |-> TRUE]]
    /\ lock' = [lock EXCEPT ![p] = [s \in Sessions |-> <<>>]]
    /\ zombies' = [zombies EXCEPT ![p] = {}]
    /\ retries' = [retries EXCEPT ![p] = {}]
    /\ tokens' = [tokens EXCEPT ![p] = {}]
    /\ waiting' = [waiting EXCEPT ![p] = {}]

\* stop: workers and timers are cancelled, release_leases ends the leases of
\* leased and running tasks.
Stop(p) ==
    /\ Free(p) /\ starts[p] < MaxStarts
    /\ Forget(p)
    /\ db' = [t \in Tasks |->
         IF db[t].status \in {"leased", "running"} /\ db[t].owner \in {Me(p), Nobody}
         THEN [db[t] EXCEPT !.lease = "expired"] ELSE db[t]]
    /\ UNCHANGED <<starts, cancels>>

Crash(p) ==
    /\ MayCrash
    /\ alive[p] # "down" /\ starts[p] < MaxStarts
    /\ Forget(p)
    /\ UNCHANGED <<db, starts, cancels>>

\* lease_ttl_seconds is longer than any execution: only the lease of a process
\* that has ended runs out.
LeaseExpires(t) ==
    /\ db[t].lease = "valid"
    /\ \A p \in Procs : db[t].owner = Me(p) => alive[p] = "down"
    /\ db' = [db EXCEPT ![t].lease = "expired"]
    /\ UNCHANGED <<alive, starts, memory, cancels>>

-----------------------------------------------------------------------------
Init ==
    /\ db = [t \in Tasks |-> [status |-> "created", attempt |-> 0, cancel |-> FALSE,
                              owner |-> Nobody, lease |-> "none", missing |-> FALSE,
                              result |-> FALSE]]
    /\ alive = [p \in Procs |-> "down"]
    /\ starts = [p \in Procs |-> 0]
    /\ queue = [p \in Procs |-> <<>>]
    /\ worker = [p \in Procs |-> [w \in Workers |-> Idle]]
    /\ up = [p \in Procs |-> [s \in Sessions |-> TRUE]]
    /\ lock = [p \in Procs |-> [s \in Sessions |-> <<>>]]
    /\ zombies = [p \in Procs |-> {}]
    /\ retries = [p \in Procs |-> {}]
    /\ tokens = [p \in Procs |-> {}]
    /\ waiting = [p \in Procs |-> {}]
    /\ cancels = 0

Proceeds(p, w) == TakeTask(p, w) \/ EventWakes(p, w) \/ EnterLock(p, w) \/ StartRunning(p, w)
Ends(p, w) == Finish(p, w) \/ Timeout(p, w)

Next ==
    \/ \E p \in Procs, t \in Tasks :
         Submit(p, t) \/ Cancel(p, t) \/ Wait(p, t) \/ RetryAfter(p, t) \/ ReleaseQuarantine(p, t)
    \/ \E p \in Procs, w \in Workers : Proceeds(p, w) \/ Ends(p, w)
    \/ \E p \in Procs : Start(p) \/ Resume(p) \/ Stop(p) \/ Crash(p)
    \/ \E t \in Tasks : LeaseExpires(t)

Spec == Init /\ [][Next]_vars

\* Workers are coroutines of a running loop, wait_for ends every execution, the
\* timers of retries and quarantines fire, a stopped gateway is started again.
TaskFairness ==
    /\ \A p \in Procs : WF_vars(Start(p)) /\ WF_vars(Resume(p))
    /\ \A p \in Procs, w \in Workers : SF_vars(Proceeds(p, w)) /\ SF_vars(Ends(p, w))
    /\ \A p \in Procs, t \in Tasks : SF_vars(RetryAfter(p, t)) /\ SF_vars(ReleaseQuarantine(p, t))
    /\ \A t \in Tasks : WF_vars(LeaseExpires(t))

FairSpec == Spec /\ TaskFairness

-----------------------------------------------------------------------------
(* Properties. *)

Record == [status: Status, attempt: Nat, cancel: BOOLEAN,
           owner: {Nobody} \cup (Procs \X (1..MaxStarts)),
           lease: {"none", "valid", "expired"}, missing: BOOLEAN, result: BOOLEAN]

\* Types; a worker holds or waits for the lock of its session exactly while it
\* is past the session's event.
TypeOK ==
    /\ db \in [Tasks -> Record]
    /\ alive \in [Procs -> {"down", "up", "ready"}] /\ starts \in [Procs -> 0..MaxStarts]
    /\ queue \in [Procs -> Seq(Tasks)]
    /\ worker \in [Procs -> [Workers -> [pc: {"idle", "event", "lock", "leased", "run"},
                                         task: Tasks \cup {0},
                                         event: {"current", "old_set", "old_clear"}]]]
    /\ up \in [Procs -> [Sessions -> BOOLEAN]]
    /\ lock \in [Procs -> [Sessions -> Seq(Workers)]]
    /\ \A p \in Procs, s \in Sessions :
         /\ IsInjective(lock[p][s])
         /\ Range(lock[p][s]) = {w \in Workers : worker[p][w].pc \in {"lock", "leased", "run"}
                                                  /\ Session(p, w) = s}
    /\ zombies \in [Procs -> SUBSET Tasks] /\ retries \in [Procs -> SUBSET Tasks]
    /\ tokens \in [Procs -> SUBSET Tasks] /\ waiting \in [Procs -> SUBSET Tasks]
    /\ cancels \in 0..MaxCancels

Running(s) == {x \in Procs \X Workers : worker[x[1]][x[2]].pc = "run"
                                        /\ Session(x[1], x[2]) = s}
Quarantined(s) == {x \in Procs \X Tasks : x[2] \in zombies[x[1]] /\ SessionOf[x[2]] = s}

\* class TaskRuntime: "one active task per session".  Executions and zombies that
\* are still in quarantine never overlap within a session.
OneActivePerSession ==
    \A s \in Sessions : Cardinality(Running(s)) + Cardinality(Quarantined(s)) <= 1

\* "防双跑": no task is executed by two workers, of one process or of two, through
\* restarts, recoveries and retries.
RunsOnce ==
    \A t \in Tasks : Cardinality({x \in Procs \X Workers :
        worker[x[1]][x[2]].pc = "run" /\ worker[x[1]][x[2]].task = t}) <= 1

\* class TaskRuntime: executors "cannot write a second terminal task state after
\* timeout".  What has ended stays as it ended; only a blocked task is reopened.
EndedTaskStays ==
    [][\A t \in Tasks : db[t].status \in Terminal \ {"blocked"} => db'[t].status = db[t].status]_vars

\* Whoever waits for a task in this process is answered when the task ends.
WaitersAnswered ==
    \A p \in Procs : \A t \in waiting[p] : db[t].status \notin Terminal

\* "避免任务永久滞留": whatever the executors do, every submitted task ends.
TasksEnd == \A t \in Tasks : (db[t].status = "queued") ~> (db[t].status \in Terminal)

\* release_leases: a task whose process has crashed is claimed once its lease is over.
OrphansReclaimed ==
    \A t \in Tasks : (db[t].status = "running" /\ db[t].lease = "expired")
                        ~> (db[t].status # "running" \/ db[t].lease # "expired")

\* enqueue_persisted: a task that waits for its retry is queued again, by its
\* instance's timer or by claim_retry_wait.
RetriesHappen ==
    \A t \in Tasks : (db[t].status = "retry_wait") ~> (db[t].status # "retry_wait")
=============================================================================
