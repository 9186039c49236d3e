----------------------------- MODULE TaskProofs ------------------------------
(***************************************************************************)
(* Proofs about TaskRuntime, for any number of processes, workers, tasks   *)
(* and sessions and any bounds: a task is executed by one worker at a      *)
(* time, and a task that has ended stays as it ended.                      *)
(*                                                                         *)
(* The first rests on the lease: whoever executes a task owns its record,  *)
(* under a lease that is valid while its process lives, unless the record  *)
(* was cancelled meanwhile (LeaseHeld).  Other processes recover or claim  *)
(* only records whose lease is over, and nobody leases a record that is    *)
(* not queued; what is cancelled is never queued again.                    *)
(*                                                                         *)
(* Then the session: the types with the lock of a session, for any         *)
(* constants; within one process and without cancel requests, that a       *)
(* session has one active task through crashes and restarts; and, in one   *)
(* life of that process, that whoever waits for a task is answered.        *)
(* Who executes a task is the first in line for the lock of its session    *)
(* (LockInv).  While a session is in quarantine its current event is not   *)
(* set, and a worker that still has a dropped event has a task that is     *)
(* over, so nobody gets past the lock (QuarInv).  What is queued is in the *)
(* queue or with a worker, so Resume blocks nothing that somebody waits    *)
(* for (WaitInv).                                                          *)
(***************************************************************************)
EXTENDS TaskRuntime, FiniteSetTheorems, TLAPS

WorkerType == [pc: {"idle", "event", "lock", "leased", "run"}, task: Tasks \cup {0},
               event: {"current", "old_set", "old_clear"}]

\* The part of TypeOK the argument needs; a worker that is not idle has a task,
\* and a process that lives was started.
WorkersOK ==
    /\ worker \in [Procs -> [Workers -> WorkerType]]
    /\ \A p \in Procs, w \in Workers : worker[p][w].pc # "idle" => worker[p][w].task \in Tasks

ProcsOK ==
    /\ alive \in [Procs -> {"down", "up", "ready"}]
    /\ starts \in [Procs -> 0..MaxStarts]
    /\ \A p \in Procs : alive[p] # "down" => starts[p] \in 1..MaxStarts

Shape ==
    /\ db \in [Tasks -> Record]
    /\ queue \in [Procs -> Seq(Tasks)]
    /\ ProcsOK
    /\ WorkersOK

Holds(p, w) == worker[p][w].pc \in {"leased", "run"}

\* The record of a task whose execution worker w of process p has begun: another
\* process may have found it cancelled and said so.
LeaseHeld(p, w) ==
    LET r == db[worker[p][w].task]
    IN  /\ alive[p] # "down"
        /\ \/ r.status = "cancelled"
           \/ /\ r.owner = Me(p) /\ r.lease = "valid"
              /\ r.status = IF worker[p][w].pc = "leased" THEN "leased" ELSE "running"

HolderIsOwner == \A p \in Procs, w \in Workers : Holds(p, w) => LeaseHeld(p, w)

OneHolder ==
    \A p, q \in Procs : \A w, v \in Workers :
        Holds(p, w) /\ Holds(q, v) /\ worker[p][w].task = worker[q][v].task => p = q /\ w = v

LeaseInv == HolderIsOwner /\ OneHolder

-----------------------------------------------------------------------------
(* The helpers.                                                            *)

\* What an action writes into a record fits it.
LEMMA RecordUpdates ==
    ASSUME NEW r \in Record
    PROVE  /\ \A b \in BOOLEAN : [r EXCEPT !.cancel = b] \in Record
           /\ \A b \in BOOLEAN : [r EXCEPT !.result = b] \in Record
           /\ [r EXCEPT !.missing = TRUE] \in Record
           /\ [r EXCEPT !.attempt = @ + 1] \in Record
           /\ [r EXCEPT !.lease = "expired"] \in Record
           /\ \A o \in Procs \X (1..MaxStarts) :
                /\ [r EXCEPT !.owner = o] \in Record
                /\ [r EXCEPT !.owner = o, !.lease = "valid"] \in Record
                /\ [r EXCEPT !.owner = o, !.result = FALSE, !.missing = FALSE] \in Record
<1>1. \A b \in BOOLEAN : [r EXCEPT !.cancel = b] \in Record
  BY DEF Record
<1>2. \A b \in BOOLEAN : [r EXCEPT !.result = b] \in Record
  BY DEF Record
<1>3. [r EXCEPT !.missing = TRUE] \in Record
  BY DEF Record
<1>4. [r EXCEPT !.attempt = @ + 1] \in Record
  BY DEF Record
<1>5. [r EXCEPT !.lease = "expired"] \in Record
  BY DEF Record
<1>6. ASSUME NEW o \in Procs \X (1..MaxStarts)
      PROVE  [r EXCEPT !.owner = o] \in Record
  BY DEF Record
<1>7. ASSUME NEW o \in Procs \X (1..MaxStarts)
      PROVE  [r EXCEPT !.owner = o, !.lease = "valid"] \in Record
  BY DEF Record
<1>8. ASSUME NEW o \in Procs \X (1..MaxStarts)
      PROVE  [r EXCEPT !.owner = o, !.result = FALSE, !.missing = FALSE] \in Record
  BY DEF Record
<1>9. QED
  BY <1>1, <1>2, <1>3, <1>4, <1>5, <1>6, <1>7, <1>8

LEMMA StatusNames ==
    {"queued", "leased", "running", "cancelled", "completed", "failed", "blocked",
     "timed_out", "retry_wait", "interrupted"} \subseteq Status
  BY DEF Status, Active, Terminal

LEMMA MoveType ==
    ASSUME NEW r \in Record, NEW to \in Status
    PROVE  Move(r, to) \in Record /\ Move(r, to).status = to
  BY DEF Move, Record, Nobody

LEMMA TryMoveType ==
    ASSUME NEW r \in Record, NEW to \in Status, NEW res \in BOOLEAN
    PROVE  TryMove(r, to, res) \in Record
<1>1. Move(r, to) \in Record
  BY MoveType
<1>2. [Move(r, to) EXCEPT !.result = @ \/ res] \in Record
  <2>1. (Move(r, to).result \/ res) \in BOOLEAN
    OBVIOUS
  <2>2. QED
    BY <1>1, <2>1, RecordUpdates
<1>3. QED
  BY <1>2 DEF TryMove

\* A record that has ended, and is not blocked, allows no transition.
LEMMA EndedIsStuck ==
    ASSUME NEW r \in Record, NEW to \in Status, r.status \in Terminal \ {"blocked"}, Legal(r, to)
    PROVE  to = r.status
  BY DEF Legal, Allowed, Record, Status, Terminal, Active

\* One worker moves.
LEMMA WorkerSet ==
    ASSUME WorkersOK, NEW p \in Procs, NEW w \in Workers, NEW r \in WorkerType,
           r.pc # "idle" => r.task \in Tasks, SetWorker(p, w, r)
    PROVE  /\ WorkersOK'
           /\ worker'[p][w] = r
           /\ \A q \in Procs, v \in Workers : q # p \/ v # w => worker'[q][v] = worker[q][v]
  BY DEF WorkersOK, SetWorker

\* A worker goes on with its task.
LEMMA WorkerGoesOn ==
    ASSUME WorkersOK, NEW p \in Procs, NEW w \in Workers, worker[p][w].pc # "idle",
           NEW c \in {"lock", "leased", "run"}, worker' = [worker EXCEPT ![p][w].pc = c]
    PROVE  /\ WorkersOK'
           /\ worker'[p][w].pc = c /\ worker'[p][w].task = worker[p][w].task
           /\ \A q \in Procs, v \in Workers : q # p \/ v # w => worker'[q][v] = worker[q][v]
<1> DEFINE r == [worker[p][w] EXCEPT !.pc = c]
<1>1. worker[p][w] \in WorkerType
  BY DEF WorkersOK
<1>2. r \in WorkerType /\ r.pc = c /\ r.task = worker[p][w].task
  BY <1>1 DEF WorkerType
<1>3. SetWorker(p, w, r)
  BY DEF SetWorker, WorkersOK
<1>4. r.task \in Tasks
  BY <1>2 DEF WorkersOK
<1> HIDE DEF r
<1>5. QED
  BY <1>2, <1>3, <1>4, WorkerSet

LEMMA IdleType == Idle \in WorkerType /\ Idle.pc = "idle"
  BY DEF Idle, WorkerType

\* Dropping an event leaves every worker where it is, with its task.
LEMMA EventsOnly ==
    ASSUME NEW p, NEW s, NEW ws \in [Workers -> WorkerType]
    PROVE  /\ KeepOldEvent(p, s, ws) \in [Workers -> WorkerType]
           /\ \A w \in Workers : /\ KeepOldEvent(p, s, ws)[w].pc = ws[w].pc
                                 /\ KeepOldEvent(p, s, ws)[w].task = ws[w].task
  BY DEF KeepOldEvent, WorkerType

LEMMA PruneKeeps ==
    ASSUME WorkersOK, NEW p \in Procs, NEW s, NEW d, NEW ws \in [Workers -> WorkerType],
           \A w \in Workers : ws[w] = worker[p][w] \/ ws[w] = Idle,
           PruneWorkers(p, s, d, ws)
    PROVE  /\ WorkersOK'
           /\ \A w \in Workers : /\ worker'[p][w].pc = ws[w].pc
                                 /\ worker'[p][w].task = ws[w].task
           /\ \A q \in Procs \ {p} : worker'[q] = worker[q]
<1> DEFINE xs == worker'[p]
<1>1. /\ xs \in [Workers -> WorkerType]
      /\ \A w \in Workers : xs[w].pc = ws[w].pc /\ xs[w].task = ws[w].task
  BY EventsOnly DEF PruneWorkers, WorkersOK
<1>2. /\ worker' = [worker EXCEPT ![p] = xs]
      /\ \A q \in Procs \ {p} : worker'[q] = worker[q]
  BY DEF PruneWorkers, WorkersOK
<1> HIDE DEF xs
<1>3. worker' \in [Procs -> [Workers -> WorkerType]] /\ worker'[p] = xs
  BY <1>1, <1>2 DEF WorkersOK
<1>4. ASSUME NEW q \in Procs, NEW w \in Workers, worker'[q][w].pc # "idle"
      PROVE  worker'[q][w].task \in Tasks
  BY <1>1, <1>2, <1>3, <1>4, IdleType DEF WorkersOK
<1>5. QED
  BY <1>1, <1>2, <1>3, <1>4 DEF WorkersOK

\* The worker that ends an execution is idle, the others stay.
LEMMA PruneEnds ==
    ASSUME WorkersOK, NEW p \in Procs, NEW w \in Workers, NEW s, NEW d,
           PruneWorkers(p, s, d, [worker[p] EXCEPT ![w] = Idle])
    PROVE  /\ WorkersOK'
           /\ worker'[p][w].pc = "idle"
           /\ \A q \in Procs, v \in Workers : q # p \/ v # w =>
                worker'[q][v].pc = worker[q][v].pc /\ worker'[q][v].task = worker[q][v].task
<1> DEFINE ws == [worker[p] EXCEPT ![w] = Idle]
<1>1. /\ ws \in [Workers -> WorkerType] /\ ws[w] = Idle
      /\ \A v \in Workers : ws[v] = IF v = w THEN Idle ELSE worker[p][v]
  BY IdleType DEF WorkersOK
<1> HIDE DEF ws
<1>2. PruneWorkers(p, s, d, ws)
  BY DEF ws
<1>3. QED
  BY <1>1, <1>2, PruneKeeps, IdleType

\* Queues grow by sequences of tasks.
LEMMA InOrderType ==
    ASSUME NEW S \in SUBSET Tasks, NEW q \in InOrder(S)
    PROVE  q \in Seq(Tasks)
<1>1. Cardinality(S) \in Nat
  BY TaskAssumption, FS_Subset, FS_CardinalityType
<1>2. QED
  BY <1>1 DEF InOrder

-----------------------------------------------------------------------------
(* Shape.                                                                  *)

LEMMA ShapeInit == Init => Shape
  BY TaskAssumption
  DEF Init, Shape, WorkersOK, ProcsOK, Record, Nobody, Status, Active, Terminal,
      WorkerType, Idle

LEMMA ShapeStep == Shape /\ [Next]_vars => Shape'
<1> SUFFICES ASSUME Shape, [Next]_vars PROVE Shape'
  OBVIOUS
<1>db. db \in [Tasks -> Record]
  BY DEF Shape
<1>qu. queue \in [Procs -> Seq(Tasks)]
  BY DEF Shape
<1>pr. ProcsOK
  BY DEF Shape
<1>wo. WorkersOK
  BY DEF Shape
<1>me. \A p \in Procs : alive[p] # "down" => Me(p) \in Procs \X (1..MaxStarts)
  BY <1>pr DEF ProcsOK, Me
<1>one. ASSUME NEW t, NEW r, t \in Tasks => r \in Record, db' = [db EXCEPT ![t] = r]
        PROVE  db' \in [Tasks -> Record]
  BY <1>db, <1>one
<1>1. ASSUME NEW p \in Procs, NEW t \in Tasks, Submit(p, t) PROVE Shape'
  <2>1. Move(db[t], "queued") \in Record
    BY <1>db, StatusNames, MoveType
  <2>2. db' \in [Tasks -> Record]
    BY <1>1, <1>one, <2>1 DEF Submit
  <2>3. QED
    BY <1>1, <1>qu, <1>pr, <1>wo, <2>2 DEF Submit, Shape, ProcsOK, WorkersOK
<1>2. ASSUME NEW p \in Procs, NEW t \in Tasks, Cancel(p, t) PROVE Shape'
  <2> DEFINE asked == [db[t] EXCEPT !.cancel = TRUE]
             r == IF asked.status \in {"queued", "retry_wait"} THEN Move(asked, "cancelled")
                  ELSE asked
             e == [r EXCEPT !.result = @ \/ r.status = "cancelled"]
             d == [db EXCEPT ![t] = e]
  <2>1. asked \in Record
    BY <1>db, RecordUpdates
  <2> HIDE DEF asked
  <2>2. r \in Record
    BY <2>1, StatusNames, MoveType
  <2>3. /\ db' = d
        /\ Complete(p, t, d, worker[p]) \/ UNCHANGED worker
        /\ UNCHANGED <<alive, starts, queue>>
    BY <1>2 DEF Cancel, asked
  <2> HIDE DEF r
  <2>4. (r.result \/ r.status = "cancelled") \in BOOLEAN
    OBVIOUS
  <2>5. e \in Record
    BY <2>2, <2>4, RecordUpdates
  <2> HIDE DEF e
  <2>6. db' \in [Tasks -> Record]
    BY <2>3, <2>5, <1>one
  <2>7. CASE Complete(p, t, d, worker[p])
    <3>1. worker[p] \in [Workers -> WorkerType]
      BY <1>wo DEF WorkersOK
    <3>2. PruneWorkers(p, SessionOf[t], d, worker[p])
      BY <2>7 DEF Complete
    <3>3. WorkersOK'
      BY <1>wo, <3>1, <3>2, PruneKeeps
    <3>4. QED
      BY <1>qu, <1>pr, <2>3, <2>6, <3>3 DEF Shape, ProcsOK
  <2>8. CASE UNCHANGED worker
    BY <1>qu, <1>pr, <1>wo, <2>3, <2>6, <2>8 DEF Shape, ProcsOK, WorkersOK
  <2>9. QED
    BY <2>3, <2>7, <2>8
<1>3. ASSUME NEW p \in Procs, NEW t \in Tasks,
             Wait(p, t) \/ ReleaseQuarantine(p, t)
      PROVE  Shape'
  BY <1>3, <1>db, <1>qu, <1>pr, <1>wo
  DEF Wait, ReleaseQuarantine, Shape, ProcsOK, WorkersOK
<1>4. ASSUME NEW p \in Procs, NEW t \in Tasks, RetryAfter(p, t) PROVE Shape'
  <2>1. Move(db[t], "queued") \in Record
    BY <1>db, StatusNames, MoveType
  <2>2. db' \in [Tasks -> Record]
    BY <1>4, <1>db, <1>one, <2>1 DEF RetryAfter
  <2>3. queue' \in [Procs -> Seq(Tasks)]
    <3>1. queue' = queue \/ queue' = [queue EXCEPT ![p] = Append(@, t)]
      BY <1>4 DEF RetryAfter
    <3>2. Append(queue[p], t) \in Seq(Tasks)
      BY <1>qu
    <3> DEFINE longer == Append(queue[p], t)
    <3>3. queue' = queue \/ queue' = [queue EXCEPT ![p] = longer]
      BY <3>1
    <3> HIDE DEF longer
    <3>4. longer \in Seq(Tasks)
      BY <3>2 DEF longer
    <3>5. QED
      BY <1>qu, <3>3, <3>4
  <2>4. QED
    BY <1>4, <1>pr, <1>wo, <2>2, <2>3 DEF RetryAfter, Shape, ProcsOK, WorkersOK
<1>5. ASSUME NEW p \in Procs, NEW w \in Workers, TakeTask(p, w) PROVE Shape'
  <2> DEFINE t == Head(queue[p])
             r(c) == [pc |-> c, task |-> t, event |-> "current"]
  <2>1. t \in Tasks /\ Tail(queue[p]) \in Seq(Tasks)
    BY <1>5, <1>qu DEF TakeTask
  <2>2. queue' \in [Procs -> Seq(Tasks)] /\ UNCHANGED <<db, alive, starts>>
    BY <1>5, <1>qu, <2>1 DEF TakeTask
  <2>3. worker' = worker \/ SetWorker(p, w, r("lock")) \/ SetWorker(p, w, r("event"))
    BY <1>5 DEF TakeTask
  <2> HIDE DEF t
  <2>4. \A c \in {"lock", "event"} : r(c) \in WorkerType /\ r(c).task \in Tasks
    BY <2>1 DEF WorkerType
  <2> HIDE DEF r
  <2>5. WorkersOK'
    <3>1. CASE worker' = worker
      BY <3>1, <1>wo DEF WorkersOK
    <3>2. ASSUME NEW c \in {"lock", "event"}, SetWorker(p, w, r(c)) PROVE WorkersOK'
      BY <3>2, <1>wo, <2>4, WorkerSet
    <3>3. QED
      BY <2>3, <3>1, <3>2
  <2>6. QED
    BY <1>db, <1>pr, <2>2, <2>5 DEF Shape, ProcsOK
<1>6. ASSUME NEW p \in Procs, NEW w \in Workers, EventWakes(p, w) PROVE Shape'
  <2>1. WorkersOK'
    BY <1>6, <1>wo, WorkerGoesOn DEF EventWakes
  <2>2. QED
    BY <1>6, <1>db, <1>qu, <1>pr, <2>1 DEF EventWakes, Shape, ProcsOK
<1>7. ASSUME NEW p \in Procs, NEW w \in Workers, EnterLock(p, w) PROVE Shape'
  <2> DEFINE t == worker[p][w].task
             r == [Move(db[t], "leased") EXCEPT !.owner = Me(p), !.lease = "valid"]
  <2>1. t \in Tasks /\ alive[p] # "down" /\ worker[p][w].pc # "idle" /\ UNCHANGED <<alive, starts>>
    BY <1>7, <1>wo DEF EnterLock, Free, WorkersOK
  <2>2. ProcsOK'
    BY <1>pr, <2>1 DEF ProcsOK
  <2>3. CASE /\ db' = [db EXCEPT ![t] = r]
             /\ worker' = [worker EXCEPT ![p][w].pc = "leased"]
             /\ UNCHANGED queue
    <3>1. Move(db[t], "leased") \in Record
      BY <1>db, <2>1, StatusNames, MoveType
    <3>2. r \in Record
      BY <1>me, <2>1, <3>1, RecordUpdates
    <3> HIDE DEF r
    <3>3. db' \in [Tasks -> Record]
      BY <1>one, <2>3, <3>2
    <3>4. WorkersOK'
      BY <1>wo, <2>1, <2>3, WorkerGoesOn
    <3>5. QED
      BY <1>qu, <2>2, <2>3, <3>3, <3>4 DEF Shape
  <2>4. CASE /\ \/ db' = [db EXCEPT ![t] = TryMove(db[t], "cancelled", FALSE)]
                \/ db' = [db EXCEPT ![t] = db[t]]
             /\ queue' = queue \/ queue' = [queue EXCEPT ![p] = Append(@, t)]
             /\ SetWorker(p, w, Idle)
    <3>1. TryMove(db[t], "cancelled", FALSE) \in Record
      BY <1>db, <2>1, StatusNames, TryMoveType
    <3>2. db' \in [Tasks -> Record]
      BY <1>one, <1>db, <2>1, <2>4, <3>1
    <3>3. queue' \in [Procs -> Seq(Tasks)]
      BY <1>qu, <2>1, <2>4
    <3>4. WorkersOK'
      BY <1>wo, <2>4, WorkerSet, IdleType
    <3>5. QED
      BY <2>2, <3>2, <3>3, <3>4 DEF Shape
  <2>5. QED
    BY <1>7, <2>3, <2>4 DEF EnterLock
<1>8. ASSUME NEW p \in Procs, NEW w \in Workers, StartRunning(p, w) PROVE Shape'
  <2> DEFINE t == worker[p][w].task
             r == [Move(db[t], "running") EXCEPT !.attempt = @ + 1]
  <2>1. t \in Tasks /\ worker[p][w].pc # "idle" /\ UNCHANGED <<alive, starts, queue>>
    BY <1>8, <1>wo DEF StartRunning, WorkersOK
  <2>2. CASE /\ db' = [db EXCEPT ![t] = r]
             /\ worker' = [worker EXCEPT ![p][w].pc = "run"]
    <3>1. Move(db[t], "running") \in Record
      BY <1>db, <2>1, StatusNames, MoveType
    <3>2. r \in Record
      BY <3>1, RecordUpdates
    <3> HIDE DEF r
    <3>3. db' \in [Tasks -> Record]
      BY <1>one, <2>2, <3>2
    <3>4. WorkersOK'
      BY <1>wo, <2>1, <2>2, WorkerGoesOn
    <3>5. QED
      BY <1>qu, <1>pr, <2>1, <3>3, <3>4 DEF Shape, ProcsOK
  <2>3. CASE SetWorker(p, w, Idle) /\ UNCHANGED db
    <3>1. WorkersOK'
      BY <1>wo, <2>3, WorkerSet, IdleType
    <3>2. QED
      BY <1>db, <1>qu, <1>pr, <2>1, <2>3, <3>1 DEF Shape, ProcsOK
  <2>4. CASE Legal(db[t], "running")
    BY <1>8, <2>2, <2>4 DEF StartRunning
  <2>5. CASE ~Legal(db[t], "running")
    BY <1>8, <2>3, <2>5 DEF StartRunning
  <2>6. QED
    BY <2>4, <2>5
<1>9. ASSUME NEW p \in Procs, NEW w \in Workers, Finish(p, w) PROVE Shape'
  <2> DEFINE t == worker[p][w].task
  <2>1. t \in Tasks /\ UNCHANGED <<alive, starts, queue>>
    BY <1>9, <1>wo DEF Finish, WorkersOK
  <2>2. CASE db' = [db EXCEPT ![t] = Move(@, "retry_wait")] /\ SetWorker(p, w, Idle)
    <3>1. Move(db[t], "retry_wait") \in Record
      BY <1>db, <2>1, StatusNames, MoveType
    <3>2. db' \in [Tasks -> Record]
      BY <1>one, <2>2, <3>1
    <3>3. WorkersOK'
      BY <1>wo, <2>2, WorkerSet, IdleType
    <3>4. QED
      BY <1>qu, <1>pr, <2>1, <3>2, <3>3 DEF Shape, ProcsOK
  <2>3. ASSUME NEW o \in {"completed", "failed", "blocked", "cancelled"}, NEW d,
               db' = [db EXCEPT ![t] = TryMove(@, o, TRUE)],
               Complete(p, t, d, [worker[p] EXCEPT ![w] = Idle])
        PROVE  Shape'
    <3>1. TryMove(db[t], o, TRUE) \in Record
      BY <1>db, <2>1, StatusNames, TryMoveType
    <3>2. db' \in [Tasks -> Record]
      BY <1>one, <2>3, <3>1
    <3>3. WorkersOK'
      BY <1>wo, <2>3, PruneEnds DEF Complete
    <3>4. QED
      BY <1>qu, <1>pr, <2>1, <3>2, <3>3 DEF Shape, ProcsOK
  <2>4. QED
    BY <1>9, <2>2, <2>3 DEF Finish
<1>10. ASSUME NEW p \in Procs, NEW w \in Workers, Timeout(p, w) PROVE Shape'
  <2> DEFINE t == worker[p][w].task
  <2>1. t \in Tasks /\ UNCHANGED <<alive, starts, queue>>
    BY <1>10, <1>wo DEF Timeout, WorkersOK
  <2>2. TryMove(db[t], "timed_out", TRUE) \in Record
    BY <1>db, <2>1, StatusNames, TryMoveType
  <2>3. db' \in [Tasks -> Record]
    BY <1>10, <1>one, <2>2 DEF Timeout
  <2>4. WorkersOK'
    BY <1>10, <1>wo, PruneEnds DEF Timeout
  <2>5. QED
    BY <1>qu, <1>pr, <2>1, <2>3, <2>4 DEF Shape, ProcsOK
<1>11. ASSUME NEW p \in Procs, Start(p) PROVE Shape'
  <2> DEFINE me == <<p, starts[p] + 1>>
  <2>1. starts[p] \in 0..MaxStarts /\ starts[p] < MaxStarts /\ MaxStarts \in Nat
    BY <1>11, <1>pr, TaskAssumption DEF Start, ProcsOK
  <2>2. me \in Procs \X (1..MaxStarts)
    BY <2>1
  <2>3. \A t \in Tasks : Move(db[t], "interrupted") \in Record /\ Move(db[t], "queued") \in Record
    BY <1>db, StatusNames, MoveType
  <2>4. \A t \in Tasks :
          /\ [Move(db[t], "interrupted") EXCEPT !.owner = me] \in Record
          /\ [Move(db[t], "queued") EXCEPT !.owner = me, !.result = FALSE,
                                           !.missing = FALSE] \in Record
    BY <2>2, <2>3, RecordUpdates
  <2>5. db' \in [Tasks -> Record]
    BY <1>11, <1>db, <2>4 DEF Start
  <2>6. ProcsOK'
    <3>1. /\ alive' = [alive EXCEPT ![p] = "up"]
          /\ starts' = [starts EXCEPT ![p] = @ + 1]
      BY <1>11 DEF Start
    <3>2. starts[p] + 1 \in 1..MaxStarts
      BY <2>1
    <3>3. starts' \in [Procs -> 0..MaxStarts] /\ starts'[p] \in 1..MaxStarts
      BY <1>pr, <3>1, <3>2, <2>1 DEF ProcsOK
    <3>4. \A q \in Procs \ {p} : alive'[q] = alive[q] /\ starts'[q] = starts[q]
      BY <1>pr, <3>1 DEF ProcsOK
    <3>5. alive' \in [Procs -> {"down", "up", "ready"}]
      BY <1>pr, <3>1 DEF ProcsOK
    <3>6. QED
      BY <1>pr, <3>3, <3>4, <3>5 DEF ProcsOK
  <2>7. QED
    BY <1>11, <1>qu, <1>wo, <2>5, <2>6 DEF Start, memory, Shape, WorkersOK
<1>12. ASSUME NEW p \in Procs, Resume(p) PROVE Shape'
  <2>1. PICK lost \in SUBSET Tasks :
          LET resumed == [t \in Tasks |->
                  IF db[t].status = "interrupted" /\ t \in Plans THEN Move(db[t], "queued")
                  ELSE db[t]]
              kept == [t \in Tasks |->
                  IF t \in lost THEN [Move(resumed[t], "blocked") EXCEPT !.missing = TRUE]
                  ELSE resumed[t]]
              claimed == {t \in Tasks : kept[t].status = "retry_wait" /\ Eligible(kept[t], Me(p))}
              found == {t \in Tasks : kept[t].status = "queued"}
          IN  /\ db' = [t \in Tasks |-> IF t \in claimed
                                        THEN [Move(kept[t], "queued") EXCEPT !.owner = Me(p)]
                                        ELSE kept[t]]
              /\ \E q \in InOrder(found), c \in InOrder(claimed) :
                   queue' = [queue EXCEPT ![p] = @ \o q \o c]
    BY <1>12, ZenonT(40) DEF Resume
  <2> DEFINE resumed == [t \in Tasks |->
                  IF db[t].status = "interrupted" /\ t \in Plans THEN Move(db[t], "queued")
                  ELSE db[t]]
             kept == [t \in Tasks |->
                  IF t \in lost THEN [Move(resumed[t], "blocked") EXCEPT !.missing = TRUE]
                  ELSE resumed[t]]
             claimed == {t \in Tasks : kept[t].status = "retry_wait" /\ Eligible(kept[t], Me(p))}
             found == {t \in Tasks : kept[t].status = "queued"}
  <2>2. Me(p) \in Procs \X (1..MaxStarts)
    BY <1>12, <1>me DEF Resume
  <2>3. \A t \in Tasks : Move(db[t], "queued") \in Record
    BY <1>db, StatusNames, MoveType
  <2>4. resumed \in [Tasks -> Record]
    BY <1>db, <2>3
  <2> HIDE DEF resumed
  <2>5. \A t \in Tasks : Move(resumed[t], "blocked") \in Record
    BY <2>4, StatusNames, MoveType
  <2>6. \A t \in Tasks : [Move(resumed[t], "blocked") EXCEPT !.missing = TRUE] \in Record
    BY <2>5, RecordUpdates
  <2>7. kept \in [Tasks -> Record]
    BY <2>4, <2>6
  <2> HIDE DEF kept
  <2>8. \A t \in Tasks : Move(kept[t], "queued") \in Record
    BY <2>7, StatusNames, MoveType
  <2>9. \A t \in Tasks : [Move(kept[t], "queued") EXCEPT !.owner = Me(p)] \in Record
    BY <2>2, <2>8, RecordUpdates
  <2>10. db' \in [Tasks -> Record]
    <3>1. db' = [t \in Tasks |-> IF t \in claimed
                                 THEN [Move(kept[t], "queued") EXCEPT !.owner = Me(p)]
                                 ELSE kept[t]]
      BY <2>1 DEF kept, resumed
    <3> HIDE DEF claimed
    <3>2. QED
      BY <3>1, <2>7, <2>9
  <2>11. PICK q \in InOrder(found), c \in InOrder(claimed) :
          queue' = [queue EXCEPT ![p] = @ \o q \o c]
    BY <2>1 DEF kept, resumed
  <2>12. found \in SUBSET Tasks /\ claimed \in SUBSET Tasks
    OBVIOUS
  <2> HIDE DEF found, claimed
  <2>13. q \in Seq(Tasks) /\ c \in Seq(Tasks)
    BY <2>12, InOrderType
  <2>14. queue' \in [Procs -> Seq(Tasks)]
    BY <1>qu, <2>11, <2>13
  <2>15. QED
    BY <1>12, <1>pr, <1>wo, <2>10, <2>14 DEF Resume, Shape, ProcsOK, WorkersOK
<1>13. ASSUME NEW p \in Procs, Forget(p), UNCHANGED starts, db' \in [Tasks -> Record]
       PROVE  Shape'
  BY <1>13, <1>qu, <1>pr, <1>wo, IdleType DEF Forget, Shape, ProcsOK, WorkersOK
<1>14. ASSUME NEW p \in Procs, Stop(p) PROVE Shape'
  <2>1. \A t \in Tasks : [db[t] EXCEPT !.lease = "expired"] \in Record
    BY <1>db, RecordUpdates
  <2>2. db' \in [Tasks -> Record]
    BY <1>14, <1>db, <2>1 DEF Stop
  <2>3. QED
    BY <1>14, <1>13, <2>2 DEF Stop
<1>15. ASSUME NEW p \in Procs, Crash(p) PROVE Shape'
  BY <1>15, <1>13, <1>db DEF Crash
<1>16. ASSUME NEW t \in Tasks, LeaseExpires(t) PROVE Shape'
  <2>1. [db[t] EXCEPT !.lease = "expired"] \in Record
    BY <1>db, RecordUpdates
  <2>2. db' = [db EXCEPT ![t] = [db[t] EXCEPT !.lease = "expired"]]
    BY <1>16, <1>db DEF LeaseExpires
  <2>3. db' \in [Tasks -> Record]
    BY <1>one, <2>1, <2>2
  <2>4. QED
    BY <1>16, <1>qu, <1>pr, <1>wo, <2>3
    DEF LeaseExpires, memory, Shape, ProcsOK, WorkersOK
<1>17. CASE UNCHANGED vars
  BY <1>17, <1>db, <1>qu, <1>pr, <1>wo DEF vars, memory, Shape, ProcsOK, WorkersOK
<1>18. QED
  BY <1>1, <1>2, <1>3, <1>4, <1>5, <1>6, <1>7, <1>8, <1>9, <1>10, <1>11, <1>12,
     <1>14, <1>15, <1>16, <1>17 DEF Next, Proceeds, Ends

-----------------------------------------------------------------------------
(* The lease.                                                              *)

\* A step starts no execution: whoever has one afterwards had it before.
HoldersStay ==
    \A q \in Procs, v \in Workers : Holds(q, v)' =>
        /\ Holds(q, v)
        /\ worker'[q][v].pc = worker[q][v].pc /\ worker'[q][v].task = worker[q][v].task

\* A step leaves a record to its owner, or cancels it.
Kept(t) ==
    \/ db'[t].status = "cancelled"
    \/ /\ db'[t].status = db[t].status
       /\ db'[t].owner = db[t].owner /\ db'[t].lease = db[t].lease

LEMMA LeaseInit == Init => LeaseInv
  BY DEF Init, LeaseInv, HolderIsOwner, OneHolder, Holds, Idle

\* An execution has a task, a living process and a record that is not up for a lease.
LEMMA Busy ==
    ASSUME Shape, LeaseInv, NEW q \in Procs, NEW v \in Workers, Holds(q, v)
    PROVE  /\ worker[q][v].task \in Tasks
           /\ alive[q] # "down"
           /\ db[worker[q][v].task].status \in {"leased", "running", "cancelled"}
           /\ \/ db[worker[q][v].task].status = "cancelled"
              \/ /\ db[worker[q][v].task].owner = Me(q)
                 /\ db[worker[q][v].task].lease = "valid"
<1>1. worker[q][v].task \in Tasks
  BY DEF Shape, WorkersOK, Holds
<1>2. LeaseHeld(q, v)
  BY DEF LeaseInv, HolderIsOwner
<1>3. QED
  BY <1>1, <1>2 DEF LeaseHeld

LEMMA Quiet ==
    ASSUME Shape, LeaseInv, HoldersStay,
           \A q \in Procs, v \in Workers : Holds(q, v) /\ Holds(q, v)' =>
             alive'[q] # "down" /\ starts'[q] = starts[q] /\ Kept(worker[q][v].task)
    PROVE  LeaseInv'
<1>1. OneHolder'
  BY DEF LeaseInv, OneHolder, HoldersStay
<1>2. ASSUME NEW q \in Procs, NEW v \in Workers, Holds(q, v)'
      PROVE  LeaseHeld(q, v)'
  <2>1. /\ Holds(q, v)
        /\ worker'[q][v].pc = worker[q][v].pc /\ worker'[q][v].task = worker[q][v].task
    BY <1>2 DEF HoldersStay
  <2>2. alive'[q] # "down" /\ starts'[q] = starts[q] /\ Kept(worker[q][v].task)
    BY <1>2, <2>1
  <2>3. LeaseHeld(q, v)
    BY <2>1 DEF LeaseInv, HolderIsOwner
  <2>4. QED
    BY <2>1, <2>2, <2>3 DEF LeaseHeld, Kept, Me
<1>3. QED
  BY <1>1, <1>2 DEF LeaseInv, HolderIsOwner

\* The usual step: one record changes, and it is nobody's, or ends cancelled.
LEMMA OneRecord ==
    ASSUME Shape, LeaseInv, HoldersStay, UNCHANGED <<alive, starts>>,
           NEW t \in Tasks, NEW r, db' = [db EXCEPT ![t] = r],
           \/ \A q \in Procs, v \in Workers : Holds(q, v)' => worker[q][v].task # t
           \/ db[t].status \notin {"leased", "running", "cancelled"}
           \/ r.status = "cancelled"
           \/ r.status = db[t].status /\ r.owner = db[t].owner /\ r.lease = db[t].lease
    PROVE  LeaseInv'
<1>1. ASSUME NEW q \in Procs, NEW v \in Workers, Holds(q, v), Holds(q, v)'
      PROVE  alive'[q] # "down" /\ starts'[q] = starts[q] /\ Kept(worker[q][v].task)
  <2>1. /\ worker[q][v].task \in Tasks /\ alive[q] # "down"
        /\ db[worker[q][v].task].status \in {"leased", "running", "cancelled"}
    BY <1>1, Busy
  <2>2. CASE worker[q][v].task # t
    <3>1. db'[worker[q][v].task] = db[worker[q][v].task]
      BY <2>1, <2>2 DEF Shape
    <3>2. QED
      BY <2>1, <3>1 DEF Kept
  <2>3. CASE worker[q][v].task = t
    <3>1. db'[t] = r
      BY DEF Shape
    <3>2. \/ r.status = "cancelled"
          \/ r.status = db[t].status /\ r.owner = db[t].owner /\ r.lease = db[t].lease
      BY <1>1, <2>1, <2>3
    <3>3. QED
      BY <2>1, <2>3, <3>1, <3>2 DEF Kept
  <2>4. QED
    BY <2>2, <2>3
<1>2. QED
  BY <1>1, Quiet

\* Workers that lined up, gave up, or never moved hold nothing new.
LEMMA SettingKeepsHolders ==
    ASSUME WorkersOK, NEW p \in Procs, NEW w \in Workers, NEW r \in WorkerType,
           r.pc \notin {"leased", "run"}, r.pc # "idle" => r.task \in Tasks, SetWorker(p, w, r)
    PROVE  HoldersStay /\ ~Holds(p, w)'
<1>1. /\ worker'[p][w] = r
      /\ \A q \in Procs, v \in Workers : q # p \/ v # w => worker'[q][v] = worker[q][v]
  BY WorkerSet
<1>2. QED
  BY <1>1 DEF HoldersStay, Holds

LEMMA SameWorkers == UNCHANGED worker => HoldersStay
  BY DEF HoldersStay, Holds

LEMMA LeaseStep == Shape /\ LeaseInv /\ [Next]_vars => LeaseInv'
<1> SUFFICES ASSUME Shape, LeaseInv, [Next]_vars PROVE LeaseInv'
  OBVIOUS
<1>db. db \in [Tasks -> Record]
  BY DEF Shape
<1>wo. WorkersOK
  BY DEF Shape
<1>hi. \A q \in Procs, v \in Workers : Holds(q, v) =>
          worker[q][v].task \in Tasks /\ alive[q] # "down"
  BY Busy
<1>one. \A q, p \in Procs : \A v, w \in Workers :
          Holds(q, v) /\ Holds(p, w) /\ worker[q][v].task = worker[p][w].task => q = p /\ v = w
  BY DEF LeaseInv, OneHolder
<1>quiet. ASSUME UNCHANGED <<alive, starts, db>>, HoldersStay PROVE LeaseInv'
  <2>1. \A q \in Procs, v \in Workers : Holds(q, v) /\ Holds(q, v)' =>
          alive'[q] # "down" /\ starts'[q] = starts[q] /\ Kept(worker[q][v].task)
    BY <1>quiet, <1>hi DEF Kept
  <2>2. QED
    BY <1>quiet, <2>1, Quiet
<1>1. ASSUME NEW p \in Procs, NEW t \in Tasks, Submit(p, t) PROVE LeaseInv'
  <2>1. /\ HoldersStay
        /\ UNCHANGED <<alive, starts>>
        /\ db' = [db EXCEPT ![t] = Move(db[t], "queued")]
        /\ db[t].status \notin {"leased", "running", "cancelled"}
    BY <1>1, SameWorkers DEF Submit
  <2>2. QED
    BY <2>1, OneRecord
<1>2. ASSUME NEW p \in Procs, NEW t \in Tasks, Cancel(p, t) PROVE LeaseInv'
  <2> DEFINE asked == [db[t] EXCEPT !.cancel = TRUE]
             r == IF asked.status \in {"queued", "retry_wait"} THEN Move(asked, "cancelled")
                  ELSE asked
             e == [r EXCEPT !.result = @ \/ r.status = "cancelled"]
             d == [db EXCEPT ![t] = e]
  <2>0. asked \in Record
    BY <1>db, RecordUpdates
  <2>1. /\ asked \in Record
        /\ asked.status = db[t].status /\ asked.owner = db[t].owner /\ asked.lease = db[t].lease
    BY <1>db, <2>0 DEF Record
  <2>2. /\ db' = d
        /\ Complete(p, t, d, worker[p]) \/ UNCHANGED worker
        /\ UNCHANGED <<alive, starts>>
    BY <1>2 DEF Cancel
  <2> HIDE DEF asked
  <2>3. /\ r \in Record
        /\ \/ r.status = "cancelled"
           \/ r.status = db[t].status /\ r.owner = db[t].owner /\ r.lease = db[t].lease
    BY <2>1, StatusNames, MoveType
  <2> HIDE DEF r
  <2>4. \/ e.status = "cancelled"
        \/ e.status = db[t].status /\ e.owner = db[t].owner /\ e.lease = db[t].lease
    BY <2>3 DEF Record
  <2> HIDE DEF e
  <2>5. HoldersStay
    <3>1. CASE UNCHANGED worker
      BY <3>1, SameWorkers
    <3>2. CASE Complete(p, t, d, worker[p])
      <4>1. worker[p] \in [Workers -> WorkerType]
        BY <1>wo DEF WorkersOK
      <4>2. PruneWorkers(p, SessionOf[t], d, worker[p])
        BY <3>2 DEF Complete
      <4>3. /\ \A v \in Workers : /\ worker'[p][v].pc = worker[p][v].pc
                                  /\ worker'[p][v].task = worker[p][v].task
            /\ \A q \in Procs \ {p} : worker'[q] = worker[q]
        BY <1>wo, <4>1, <4>2, PruneKeeps
      <4>4. QED
        BY <4>3 DEF HoldersStay, Holds
    <3>3. QED
      BY <2>2, <3>1, <3>2
  <2>6. QED
    BY <2>2, <2>4, <2>5, OneRecord
<1>3. ASSUME NEW p \in Procs, NEW t \in Tasks,
             Wait(p, t) \/ ReleaseQuarantine(p, t)
      PROVE  LeaseInv'
  BY <1>3, <1>quiet, SameWorkers DEF Wait, ReleaseQuarantine
<1>4. ASSUME NEW p \in Procs, NEW t \in Tasks, RetryAfter(p, t) PROVE LeaseInv'
  <2>1. HoldersStay /\ UNCHANGED <<alive, starts>>
    BY <1>4, SameWorkers DEF RetryAfter
  <2>2. CASE db[t].status = "retry_wait" /\ ~db[t].cancel
    <3>1. db' = [db EXCEPT ![t] = Move(db[t], "queued")]
      BY <1>4, <2>2 DEF RetryAfter
    <3>2. QED
      BY <2>1, <2>2, <3>1, OneRecord
  <2>3. CASE ~(db[t].status = "retry_wait" /\ ~db[t].cancel)
    BY <1>4, <1>quiet, <2>1, <2>3 DEF RetryAfter
  <2>4. QED
    BY <2>2, <2>3
<1>5. ASSUME NEW p \in Procs, NEW w \in Workers, TakeTask(p, w) PROVE LeaseInv'
  <2> DEFINE t == Head(queue[p])
             r(c) == [pc |-> c, task |-> t, event |-> "current"]
  <2>1. t \in Tasks
    BY <1>5 DEF TakeTask, Shape
  <2>2. worker' = worker \/ SetWorker(p, w, r("lock")) \/ SetWorker(p, w, r("event"))
    BY <1>5 DEF TakeTask
  <2> HIDE DEF t
  <2>3. \A c \in {"lock", "event"} : r(c) \in WorkerType /\ r(c).pc = c /\ r(c).task \in Tasks
    BY <2>1 DEF WorkerType
  <2> HIDE DEF r
  <2>4. ASSUME NEW c \in {"lock", "event"}, SetWorker(p, w, r(c)) PROVE HoldersStay
    BY <1>wo, <2>3, <2>4, SettingKeepsHolders
  <2>5. HoldersStay
    BY <2>2, <2>4, SameWorkers
  <2>6. QED
    BY <1>5, <1>quiet, <2>5 DEF TakeTask
<1>6. ASSUME NEW p \in Procs, NEW w \in Workers, EventWakes(p, w) PROVE LeaseInv'
  <2>1. /\ worker'[p][w].pc = "lock"
        /\ \A q \in Procs, v \in Workers : q # p \/ v # w => worker'[q][v] = worker[q][v]
    BY <1>6, <1>wo, WorkerGoesOn DEF EventWakes
  <2>2. HoldersStay
    BY <2>1 DEF HoldersStay, Holds
  <2>3. QED
    BY <1>6, <1>quiet, <2>2 DEF EventWakes
<1>7. ASSUME NEW p \in Procs, NEW w \in Workers, EnterLock(p, w) PROVE LeaseInv'
  <2> DEFINE t == worker[p][w].task
             r == [Move(db[t], "leased") EXCEPT !.owner = Me(p), !.lease = "valid"]
  <2>1. t \in Tasks /\ alive[p] # "down" /\ worker[p][w].pc # "idle" /\ UNCHANGED <<alive, starts>>
    BY <1>7, <1>wo DEF EnterLock, Free, WorkersOK
  <2>2. CASE /\ db' = [db EXCEPT ![t] = r]
             /\ db[t].status = "queued"
             /\ worker' = [worker EXCEPT ![p][w].pc = "leased"]
    <3>1. Move(db[t], "leased") \in Record /\ Move(db[t], "leased").status = "leased"
      BY <1>db, <2>1, StatusNames, MoveType
    <3>2. r.status = "leased" /\ r.owner = Me(p) /\ r.lease = "valid"
      BY <3>1 DEF Record
    <3> HIDE DEF r
    <3>3. /\ worker'[p][w].pc = "leased" /\ worker'[p][w].task = t
          /\ \A q \in Procs, v \in Workers : q # p \/ v # w => worker'[q][v] = worker[q][v]
      BY <1>wo, <2>1, <2>2, WorkerGoesOn
    <3>4. db'[t] = r /\ \A u \in Tasks \ {t} : db'[u] = db[u]
      BY <1>db, <2>1, <2>2
    <3>5. ASSUME NEW q \in Procs, NEW v \in Workers, Holds(q, v)', q # p \/ v # w
          PROVE  /\ Holds(q, v) /\ worker'[q][v] = worker[q][v]
                 /\ worker[q][v].task \in Tasks \ {t}
      <4>1. worker'[q][v] = worker[q][v] /\ Holds(q, v)
        BY <3>3, <3>5 DEF Holds
      <4>2. worker[q][v].task \in Tasks
            /\ db[worker[q][v].task].status \in {"leased", "running", "cancelled"}
        BY <4>1, Busy
      <4>3. QED
        BY <2>2, <4>1, <4>2
    <3>6. ASSUME NEW q \in Procs, NEW v \in Workers, Holds(q, v)' PROVE LeaseHeld(q, v)'
      <4>1. CASE q = p /\ v = w
        BY <2>1, <3>2, <3>3, <3>4, <4>1 DEF LeaseHeld, Me
      <4>2. CASE q # p \/ v # w
        <5>1. Holds(q, v) /\ worker'[q][v] = worker[q][v]
              /\ db'[worker[q][v].task] = db[worker[q][v].task]
          BY <3>4, <3>5, <3>6, <4>2
        <5>2. LeaseHeld(q, v)
          BY <5>1 DEF LeaseInv, HolderIsOwner
        <5>3. QED
          BY <2>1, <5>1, <5>2 DEF LeaseHeld, Me
      <4>3. QED
        BY <4>1, <4>2
    <3>7. ASSUME NEW q \in Procs, NEW v \in Workers, NEW q2 \in Procs, NEW v2 \in Workers,
                 Holds(q, v)', Holds(q2, v2)', worker'[q][v].task = worker'[q2][v2].task
          PROVE  q = q2 /\ v = v2
      <4>1. CASE q = p /\ v = w
        BY <3>3, <3>5, <3>7, <4>1
      <4>2. CASE q2 = p /\ v2 = w
        BY <3>3, <3>5, <3>7, <4>2
      <4>3. CASE (q # p \/ v # w) /\ (q2 # p \/ v2 # w)
        <5>1. Holds(q, v) /\ worker'[q][v] = worker[q][v]
          BY <3>5, <3>7, <4>3
        <5>2. Holds(q2, v2) /\ worker'[q2][v2] = worker[q2][v2]
          BY <3>5, <3>7, <4>3
        <5>3. QED
          BY <1>one, <3>7, <5>1, <5>2
      <4>4. QED
        BY <4>1, <4>2, <4>3
    <3>8. QED
      BY <3>6, <3>7 DEF LeaseInv, HolderIsOwner, OneHolder
  <2>3. CASE /\ \/ db' = [db EXCEPT ![t] = TryMove(db[t], "cancelled", FALSE)]
                \/ db' = [db EXCEPT ![t] = db[t]]
             /\ SetWorker(p, w, Idle)
    <3>1. HoldersStay
      BY <1>wo, <2>3, SettingKeepsHolders, IdleType
    <3>2. Move(db[t], "cancelled") \in Record /\ Move(db[t], "cancelled").status = "cancelled"
      BY <1>db, <2>1, StatusNames, MoveType
    <3>3. [Move(db[t], "cancelled") EXCEPT !.result = @ \/ FALSE].status = "cancelled"
      BY <3>2 DEF Record
    <3>4. TryMove(db[t], "cancelled", FALSE) = db[t]
          \/ TryMove(db[t], "cancelled", FALSE).status = "cancelled"
      BY <3>3 DEF TryMove
    <3> DEFINE e == TryMove(db[t], "cancelled", FALSE)
    <3>5. CASE db' = [db EXCEPT ![t] = e]
      <4>1. e = db[t] \/ e.status = "cancelled"
        BY <3>4
      <4> HIDE DEF e
      <4>2. QED
        BY <2>1, <3>1, <3>5, <4>1, OneRecord
    <3>6. CASE db' = [db EXCEPT ![t] = db[t]]
      BY <2>1, <3>1, <3>6, OneRecord
    <3>7. QED
      BY <2>3, <3>5, <3>6
  <2>4. QED
    BY <1>7, <2>2, <2>3 DEF EnterLock, MayLease
<1>8. ASSUME NEW p \in Procs, NEW w \in Workers, StartRunning(p, w) PROVE LeaseInv'
  <2> DEFINE t == worker[p][w].task
             r == [Move(db[t], "running") EXCEPT !.attempt = @ + 1]
  <2>1. /\ Holds(p, w) /\ worker[p][w].pc = "leased" /\ t \in Tasks
        /\ UNCHANGED <<alive, starts>>
    BY <1>8, <1>wo DEF StartRunning, WorkersOK, Holds
  <2>2. CASE Legal(db[t], "running")
    <3>1. db' = [db EXCEPT ![t] = r] /\ worker' = [worker EXCEPT ![p][w].pc = "run"]
      BY <1>8, <2>2 DEF StartRunning
    <3>2. /\ worker'[p][w].pc = "run" /\ worker'[p][w].task = t
          /\ \A q \in Procs, v \in Workers : q # p \/ v # w => worker'[q][v] = worker[q][v]
      BY <1>wo, <2>1, <3>1, WorkerGoesOn, ZenonT(40)
    <3>3. LeaseHeld(p, w)
      BY <2>1 DEF LeaseInv, HolderIsOwner
    <3>4. db[t].status # "cancelled"
      BY <2>2 DEF Legal, Allowed, Status, Terminal, Active
    <3>5. /\ db[t].status = "leased" /\ db[t].owner = Me(p) /\ db[t].lease = "valid"
          /\ alive[p] # "down"
      BY <2>1, <3>3, <3>4 DEF LeaseHeld
    <3>6. /\ r.status = "running" /\ r.owner = Me(p) /\ r.lease = "valid"
      BY <1>db, <2>1, <3>5 DEF Move, Record, Terminal
    <3> HIDE DEF r
    <3>7. db'[t] = r /\ \A u \in Tasks \ {t} : db'[u] = db[u]
      BY <1>db, <2>1, <3>1
    <3>8. ASSUME NEW q \in Procs, NEW v \in Workers, Holds(q, v)'
          PROVE  Holds(q, v) /\ worker'[q][v].task = worker[q][v].task
      BY <2>1, <3>2, <3>8 DEF Holds
    <3>9. OneHolder'
      BY <1>one, <3>8 DEF OneHolder
    <3>10. ASSUME NEW q \in Procs, NEW v \in Workers, Holds(q, v)' PROVE LeaseHeld(q, v)'
      <4>1. CASE q = p /\ v = w
        BY <2>1, <3>2, <3>5, <3>6, <3>7, <4>1 DEF LeaseHeld, Me
      <4>2. CASE q # p \/ v # w
        <5>1. Holds(q, v) /\ worker'[q][v] = worker[q][v]
          BY <3>2, <3>8, <3>10, <4>2
        <5>2. worker[q][v].task \in Tasks \ {t}
          BY <1>hi, <1>one, <2>1, <4>2, <5>1
        <5>3. LeaseHeld(q, v)
          BY <5>1 DEF LeaseInv, HolderIsOwner
        <5>4. db'[worker[q][v].task] = db[worker[q][v].task]
          BY <3>7, <5>2
        <5>5. QED
          BY <2>1, <5>1, <5>3, <5>4 DEF LeaseHeld, Me
      <4>3. QED
        BY <4>1, <4>2
    <3>11. QED
      BY <3>9, <3>10 DEF LeaseInv, HolderIsOwner
  <2>3. CASE ~Legal(db[t], "running")
    <3>1. SetWorker(p, w, Idle) /\ UNCHANGED db
      BY <1>8, <2>3 DEF StartRunning
    <3>2. HoldersStay
      BY <1>wo, <3>1, SettingKeepsHolders, IdleType
    <3>3. QED
      BY <1>quiet, <2>1, <3>1, <3>2
  <2>4. QED
    BY <2>2, <2>3
<1>9. ASSUME NEW p \in Procs, NEW w \in Workers, Finish(p, w) \/ Timeout(p, w) PROVE LeaseInv'
  <2> DEFINE t == worker[p][w].task
  <2>1. Holds(p, w) /\ t \in Tasks /\ UNCHANGED <<alive, starts>>
    BY <1>9, <1>wo DEF Finish, Timeout, WorkersOK, Holds
  <2>2. \E r : db' = [db EXCEPT ![t] = r]
    <3>1. CASE Finish(p, w)
      BY <3>1 DEF Finish
    <3>2. CASE Timeout(p, w)
      BY <3>2 DEF Timeout
    <3>3. QED
      BY <1>9, <3>1, <3>2
  <2>3. HoldersStay /\ ~Holds(p, w)'
    <3>1. CASE SetWorker(p, w, Idle)
      BY <1>wo, <3>1, SettingKeepsHolders, IdleType
    <3>2. ASSUME NEW s, NEW d, PruneWorkers(p, s, d, [worker[p] EXCEPT ![w] = Idle])
          PROVE  HoldersStay /\ ~Holds(p, w)'
      <4>1. /\ worker'[p][w].pc = "idle"
            /\ \A q \in Procs, v \in Workers : q # p \/ v # w =>
                 worker'[q][v].pc = worker[q][v].pc /\ worker'[q][v].task = worker[q][v].task
        BY <1>wo, <3>2, PruneEnds
      <4>2. QED
        BY <4>1 DEF HoldersStay, Holds
    <3>3. CASE Timeout(p, w)
      BY <3>2, <3>3 DEF Timeout
    <3>4. CASE Finish(p, w)
      BY <3>1, <3>2, <3>4 DEF Finish, Complete
    <3>5. QED
      BY <1>9, <3>3, <3>4
  <2>4. \A q \in Procs, v \in Workers : Holds(q, v)' => worker[q][v].task # t
    BY <1>one, <2>1, <2>3 DEF HoldersStay
  <2> HIDE DEF t
  <2>5. PICK r : db' = [db EXCEPT ![t] = r]
    BY <2>2
  <2>6. QED
    BY <2>1, <2>3, <2>4, <2>5, OneRecord
<1>10. ASSUME NEW p \in Procs, Start(p) PROVE LeaseInv'
  <2> DEFINE me == <<p, starts[p] + 1>>
  <2>1. /\ UNCHANGED worker /\ alive[p] = "down"
        /\ alive' = [alive EXCEPT ![p] = "up"] /\ starts' = [starts EXCEPT ![p] = @ + 1]
    BY <1>10 DEF Start, memory
  <2>2. ASSUME NEW q \in Procs, NEW v \in Workers, Holds(q, v)
        PROVE  alive'[q] # "down" /\ starts'[q] = starts[q] /\ Kept(worker[q][v].task)
    <3> DEFINE u == worker[q][v].task
    <3>1. /\ u \in Tasks /\ alive[q] # "down"
          /\ db[u].status \in {"leased", "running", "cancelled"}
          /\ db[u].status = "cancelled" \/ (db[u].owner = Me(q) /\ db[u].lease = "valid")
      BY <2>2, Busy
    <3>2. q # p /\ alive'[q] = alive[q] /\ starts'[q] = starts[q]
      BY <2>1, <3>1 DEF Shape, ProcsOK
    <3>3. Me(q) # me
      BY <3>2 DEF Me
    <3>4. ~Recoverable(db[u], me) /\ ~Reopened(u, me)
      BY <3>1, <3>3 DEF Recoverable, Reopened, Eligible
    <3>5. db'[u] = db[u]
      BY <1>10, <3>1, <3>4 DEF Start
    <3>6. QED
      BY <3>1, <3>2, <3>5 DEF Kept
  <2>3. QED
    BY <2>1, <2>2, SameWorkers, Quiet
<1>11. ASSUME NEW p \in Procs, Resume(p) PROVE LeaseInv'
  <2>1. /\ UNCHANGED <<worker, starts>> /\ alive[p] = "up"
        /\ alive' = [alive EXCEPT ![p] = "ready"]
    BY <1>11 DEF Resume
  <2>2. ASSUME NEW u \in Tasks, db[u].status \in {"leased", "running", "cancelled"}
        PROVE  db'[u] = db[u]
    BY <1>11, <2>2 DEF Resume
  <2>3. ASSUME NEW q \in Procs, NEW v \in Workers, Holds(q, v)
        PROVE  alive'[q] # "down" /\ starts'[q] = starts[q] /\ Kept(worker[q][v].task)
    <3> DEFINE u == worker[q][v].task
    <3>1. /\ u \in Tasks /\ alive[q] # "down"
          /\ db[u].status \in {"leased", "running", "cancelled"}
      BY <2>3, Busy
    <3>2. db'[u] = db[u]
      BY <2>2, <3>1
    <3>3. QED
      BY <2>1, <3>1, <3>2 DEF Kept, Shape, ProcsOK
  <2>4. QED
    BY <2>1, <2>3, SameWorkers, Quiet
<1>12. ASSUME NEW p \in Procs, Forget(p), UNCHANGED starts,
              \A q \in Procs \ {p}, v \in Workers : Holds(q, v) => Kept(worker[q][v].task)
       PROVE  LeaseInv'
  <2>1. /\ \A q \in Procs \ {p} : worker'[q] = worker[q] /\ alive'[q] = alive[q]
        /\ \A v \in Workers : worker'[p][v] = Idle
    BY <1>12 DEF Forget, Shape, ProcsOK, WorkersOK
  <2>2. \A v \in Workers : ~Holds(p, v)'
    BY <2>1, IdleType DEF Holds
  <2>3. HoldersStay
    BY <2>1, <2>2 DEF HoldersStay, Holds
  <2>4. QED
    BY <1>12, <1>hi, <2>1, <2>2, <2>3, Quiet
<1>13. ASSUME NEW p \in Procs, Stop(p) PROVE LeaseInv'
  <2>1. ASSUME NEW q \in Procs \ {p}, NEW v \in Workers, Holds(q, v)
        PROVE  Kept(worker[q][v].task)
    <3> DEFINE u == worker[q][v].task
    <3>1. /\ u \in Tasks /\ alive[q] # "down"
          /\ db[u].status = "cancelled" \/ db[u].owner = Me(q)
      BY <2>1, Busy
    <3>2. Me(q) # Me(p)
      BY DEF Me
    <3>3. starts[q] # 0
      BY <3>1, TaskAssumption DEF Shape, ProcsOK
    <3>4. Me(q) # Nobody
      BY <3>3 DEF Me, Nobody
    <3>5. db'[u] = db[u]
      BY <1>13, <3>1, <3>2, <3>4 DEF Stop
    <3>6. QED
      BY <3>5 DEF Kept
  <2>2. QED
    BY <1>12, <1>13, <2>1 DEF Stop
<1>14. ASSUME NEW p \in Procs, Crash(p) PROVE LeaseInv'
  BY <1>12, <1>14 DEF Crash, Kept
<1>15. ASSUME NEW t \in Tasks, LeaseExpires(t) PROVE LeaseInv'
  <2> DEFINE r == [db[t] EXCEPT !.lease = "expired"]
  <2>1. /\ UNCHANGED <<alive, starts, worker>>
        /\ db' = [db EXCEPT ![t] = r]
    BY <1>15, <1>db DEF LeaseExpires, memory
  <2>2. r.status = db[t].status
    BY <1>db DEF Record
  <2> HIDE DEF r
  <2>3. \/ \A q \in Procs, v \in Workers : Holds(q, v) => worker[q][v].task # t
        \/ r.status = "cancelled"
    <3>1. ASSUME NEW q \in Procs, NEW v \in Workers, Holds(q, v), worker[q][v].task = t
          PROVE  db[t].status = "cancelled"
      <4>1. /\ alive[q] # "down"
            /\ db[t].status = "cancelled" \/ db[t].owner = Me(q)
        BY <3>1, Busy
      <4>2. db[t].owner # Me(q)
        BY <1>15, <4>1 DEF LeaseExpires
      <4>3. QED
        BY <4>1, <4>2
    <3>2. QED
      BY <2>2, <3>1
  <2>4. HoldersStay
    BY <2>1, SameWorkers
  <2>5. \/ \A q \in Procs, v \in Workers : Holds(q, v)' => worker[q][v].task # t
        \/ r.status = "cancelled"
    BY <2>3, <2>4 DEF HoldersStay
  <2>6. QED
    BY <2>1, <2>4, <2>5, OneRecord
<1>16. CASE UNCHANGED vars
  BY <1>16, <1>quiet, SameWorkers DEF vars, memory
<1>17. QED
  BY <1>1, <1>2, <1>3, <1>4, <1>5, <1>6, <1>7, <1>8, <1>9, <1>10, <1>11,
     <1>13, <1>14, <1>15, <1>16 DEF Next, Proceeds, Ends

-----------------------------------------------------------------------------
(* The theorems.                                                           *)

LEMMA Inductive == Spec => [](Shape /\ LeaseInv)
<1>1. Init => Shape /\ LeaseInv
  BY ShapeInit, LeaseInit
<1>2. Shape /\ LeaseInv /\ [Next]_vars => (Shape /\ LeaseInv)'
  BY ShapeStep, LeaseStep
<1>3. QED
  BY <1>1, <1>2, PTL DEF Spec

LEMMA AtMostOne ==
    ASSUME NEW S, \A x, y \in S : x = y
    PROVE  Cardinality(S) <= 1
<1>1. CASE S = {}
  BY <1>1, FS_EmptySet
<1>2. CASE S # {}
  <2>1. PICK x \in S : TRUE
    BY <1>2
  <2>2. S = {x}
    BY <2>1
  <2>3. QED
    BY <2>2, FS_Singleton
<1>3. QED
  BY <1>1, <1>2

\* "防双跑", for any number of processes, workers, tasks, starts and retries, with
\* or without crashes: RunsOnce is an invariant of the task runtime.
THEOREM RunsOnceAlways == Spec => []RunsOnce
<1>1. Shape /\ LeaseInv => RunsOnce
  <2> SUFFICES ASSUME Shape, LeaseInv, NEW t \in Tasks
               PROVE  Cardinality({x \in Procs \X Workers :
                        worker[x[1]][x[2]].pc = "run" /\ worker[x[1]][x[2]].task = t}) <= 1
    BY DEF RunsOnce
  <2> DEFINE S == {x \in Procs \X Workers :
                     worker[x[1]][x[2]].pc = "run" /\ worker[x[1]][x[2]].task = t}
  <2>1. ASSUME NEW x \in S, NEW y \in S PROVE x = y
    <3>1. /\ x[1] \in Procs /\ x[2] \in Workers /\ x = <<x[1], x[2]>>
          /\ y[1] \in Procs /\ y[2] \in Workers /\ y = <<y[1], y[2]>>
      OBVIOUS
    <3>2. /\ Holds(x[1], x[2]) /\ Holds(y[1], y[2])
          /\ worker[x[1]][x[2]].task = worker[y[1]][y[2]].task
      BY DEF Holds
    <3>3. x[1] = y[1] /\ x[2] = y[2]
      BY <3>1, <3>2 DEF LeaseInv, OneHolder
    <3>4. QED
      BY <3>1, <3>3
  <2> HIDE DEF S
  <2>2. Cardinality(S) <= 1
    BY <2>1, AtMostOne
  <2>3. QED
    BY <2>2 DEF S
<1>2. QED
  BY <1>1, Inductive, PTL

\* A move of one record keeps what has ended if it is legal.
LEMMA TryMoveKeepsEnded ==
    ASSUME NEW r \in Record, NEW to \in Status, NEW res \in BOOLEAN,
           r.status \in Terminal \ {"blocked"}
    PROVE  TryMove(r, to, res).status = r.status
<1>1. CASE Legal(r, to)
  <2>1. to = r.status
    BY <1>1, EndedIsStuck
  <2>2. Move(r, to) = r
    BY <2>1 DEF Move
  <2>3. [r EXCEPT !.result = @ \/ res].status = r.status
    BY DEF Record
  <2>4. QED
    BY <1>1, <2>2, <2>3 DEF TryMove
<1>2. CASE ~Legal(r, to)
  BY <1>2 DEF TryMove
<1>3. QED
  BY <1>1, <1>2

LEMMA EndedStep ==
    ASSUME Shape, [Next]_vars, NEW u \in Tasks, db[u].status \in Terminal \ {"blocked"}
    PROVE  db'[u].status = db[u].status
<1>db. db \in [Tasks -> Record]
  BY DEF Shape
<1>wo. WorkersOK
  BY DEF Shape
<1>st. db[u].status \notin {"created", "queued", "leased", "running", "retry_wait",
                            "interrupted", "blocked"}
  BY DEF Terminal
<1>one. ASSUME NEW t, NEW r, db' = [db EXCEPT ![t] = r], t = u => r.status = db[u].status
        PROVE  db'[u].status = db[u].status
  BY <1>one, <1>db
<1>1. ASSUME NEW p \in Procs, NEW t \in Tasks, Submit(p, t) PROVE db'[u].status = db[u].status
  <2>1. t # u /\ db' = [db EXCEPT ![t] = Move(db[t], "queued")]
    BY <1>1, <1>st DEF Submit
  <2>2. QED
    BY <2>1, <1>one
<1>2. ASSUME NEW p \in Procs, NEW t \in Tasks, Cancel(p, t) PROVE db'[u].status = db[u].status
  <2> DEFINE asked == [db[t] EXCEPT !.cancel = TRUE]
             r == IF asked.status \in {"queued", "retry_wait"} THEN Move(asked, "cancelled")
                  ELSE asked
             e == [r EXCEPT !.result = @ \/ r.status = "cancelled"]
  <2>1. asked \in Record
    BY <1>db, RecordUpdates
  <2>2. asked.status = db[t].status
    BY <1>db DEF Record
  <2>3. db' = [db EXCEPT ![t] = e]
    BY <1>2 DEF Cancel
  <2> HIDE DEF asked
  <2>4. t = u => r = asked
    BY <1>st, <2>2
  <2> HIDE DEF r
  <2>5. t = u => e.status = db[u].status
    BY <2>1, <2>2, <2>4 DEF Record
  <2> HIDE DEF e
  <2>6. QED
    BY <1>one, <2>3, <2>5
<1>3. ASSUME NEW p \in Procs, NEW t \in Tasks,
             Wait(p, t) \/ ReleaseQuarantine(p, t)
      PROVE  db'[u].status = db[u].status
  BY <1>3 DEF Wait, ReleaseQuarantine
<1>4. ASSUME NEW p \in Procs, NEW t \in Tasks, RetryAfter(p, t)
      PROVE  db'[u].status = db[u].status
  <2>1. UNCHANGED db \/ (db[t].status = "retry_wait"
                         /\ db' = [db EXCEPT ![t] = Move(db[t], "queued")])
    BY <1>4 DEF RetryAfter
  <2>2. QED
    BY <1>one, <1>st, <2>1
<1>5. ASSUME NEW p \in Procs, NEW w \in Workers, TakeTask(p, w) \/ EventWakes(p, w)
      PROVE  db'[u].status = db[u].status
  BY <1>5 DEF TakeTask, EventWakes
<1>6. ASSUME NEW p \in Procs, NEW w \in Workers, EnterLock(p, w)
      PROVE  db'[u].status = db[u].status
  <2> DEFINE t == worker[p][w].task
             r == [Move(db[t], "leased") EXCEPT !.owner = Me(p), !.lease = "valid"]
             e == TryMove(db[t], "cancelled", FALSE)
  <2>1. \/ db' = [db EXCEPT ![t] = r] /\ db[t].status = "queued"
        \/ db' = [db EXCEPT ![t] = e] /\ db[t].status \notin Terminal
        \/ db' = [db EXCEPT ![t] = db[t]]
    BY <1>6 DEF EnterLock, MayLease
  <2> HIDE DEF t, r, e
  <2>2. QED
    BY <1>one, <1>st, <2>1
<1>7. ASSUME NEW p \in Procs, NEW w \in Workers, StartRunning(p, w)
      PROVE  db'[u].status = db[u].status
  <2> DEFINE t == worker[p][w].task
             r == [Move(db[t], "running") EXCEPT !.attempt = @ + 1]
  <2>1. UNCHANGED db \/ (Legal(db[t], "running") /\ db' = [db EXCEPT ![t] = r])
    BY <1>7 DEF StartRunning
  <2>2. Legal(db[u], "running") => db[u].status = "running"
    BY <1>db, EndedIsStuck, StatusNames
  <2> HIDE DEF t, r
  <2>3. QED
    BY <1>one, <1>st, <2>1, <2>2
<1>8. ASSUME NEW p \in Procs, NEW w \in Workers, Finish(p, w)
      PROVE  db'[u].status = db[u].status
  <2> DEFINE t == worker[p][w].task
             r == Move(db[t], "retry_wait")
             e(o) == TryMove(db[t], o, TRUE)
  <2>1. \/ Legal(db[t], "retry_wait") /\ db' = [db EXCEPT ![t] = r]
        \/ \E o \in {"completed", "failed", "blocked", "cancelled"} : db' = [db EXCEPT ![t] = e(o)]
    BY <1>8 DEF Finish, MayRetry
  <2>2. Legal(db[u], "retry_wait") => db[u].status = "retry_wait"
    BY <1>db, EndedIsStuck, StatusNames
  <2>3. \A o \in {"completed", "failed", "blocked", "cancelled"} :
          TryMove(db[u], o, TRUE).status = db[u].status
    BY <1>db, TryMoveKeepsEnded, StatusNames
  <2>4. \A o \in {"completed", "failed", "blocked", "cancelled"} :
          t = u => e(o).status = db[u].status
    BY <2>3
  <2> HIDE DEF t, r, e
  <2>5. QED
    BY <1>one, <1>st, <2>1, <2>2, <2>4
<1>9. ASSUME NEW p \in Procs, NEW w \in Workers, Timeout(p, w)
      PROVE  db'[u].status = db[u].status
  <2> DEFINE t == worker[p][w].task
             e == TryMove(db[t], "timed_out", TRUE)
  <2>1. db' = [db EXCEPT ![t] = e]
    BY <1>9 DEF Timeout
  <2>2. TryMove(db[u], "timed_out", TRUE).status = db[u].status
    BY <1>db, TryMoveKeepsEnded, StatusNames
  <2>3. t = u => e.status = db[u].status
    BY <2>2
  <2> HIDE DEF t, e
  <2>4. QED
    BY <1>one, <2>1, <2>3
<1>10. ASSUME NEW p \in Procs, Start(p) PROVE db'[u].status = db[u].status
  <2>1. ~Recoverable(db[u], <<p, starts[p] + 1>>) /\ ~Reopened(u, <<p, starts[p] + 1>>)
    BY <1>st DEF Recoverable, Reopened
  <2>2. QED
    BY <1>10, <2>1 DEF Start
<1>11. ASSUME NEW p \in Procs, Resume(p) PROVE db'[u].status = db[u].status
  BY <1>11, <1>st DEF Resume
<1>12. ASSUME NEW p \in Procs, Stop(p) PROVE db'[u].status = db[u].status
  BY <1>12, <1>st DEF Stop
<1>13. ASSUME NEW p \in Procs, Crash(p) PROVE db'[u].status = db[u].status
  BY <1>13 DEF Crash
<1>14. ASSUME NEW t \in Tasks, LeaseExpires(t) PROVE db'[u].status = db[u].status
  <2> DEFINE r == [db[t] EXCEPT !.lease = "expired"]
  <2>1. db' = [db EXCEPT ![t] = r] /\ r.status = db[t].status
    BY <1>14, <1>db DEF LeaseExpires, Record
  <2> HIDE DEF r
  <2>2. QED
    BY <1>one, <2>1
<1>15. CASE UNCHANGED vars
  BY <1>15 DEF vars
<1>16. QED
  BY <1>1, <1>2, <1>3, <1>4, <1>5, <1>6, <1>7, <1>8, <1>9, <1>10, <1>11, <1>12, <1>13,
     <1>14, <1>15 DEF Next, Proceeds, Ends

\* "cannot write a second terminal task state after timeout": whatever late executors,
\* other processes and restarts do, a task that has ended stays as it ended.
THEOREM EndedTaskStaysAlways == Spec => EndedTaskStays
<1>1. Shape /\ [Next]_vars =>
        [\A t \in Tasks : db[t].status \in Terminal \ {"blocked"}
                            => db'[t].status = db[t].status]_vars
  BY EndedStep
<1>2. QED
  BY <1>1, Inductive, PTL DEF Spec, EndedTaskStays

-----------------------------------------------------------------------------
\* The session: its lock, its events, who waits.

InLine(p, w) == worker[p][w].pc \in {"lock", "leased", "run"}

\* The line of a session: who is past its event, in order.
LinesOK ==
    /\ lock \in [Procs -> [Sessions -> Seq(Workers)]]
    /\ \A p \in Procs, s \in Sessions :
         /\ IsInjective(lock[p][s])
         /\ Range(lock[p][s]) = {w \in Workers : InLine(p, w) /\ Session(p, w) = s}

HolderIsFirst ==
    \A p \in Procs, w \in Workers : Holds(p, w) =>
        lock[p][Session(p, w)] # <<>> /\ Head(lock[p][Session(p, w)]) = w

LockInv == LinesOK /\ HolderIsFirst

RestOK ==
    /\ up \in [Procs -> [Sessions -> BOOLEAN]]
    /\ zombies \in [Procs -> SUBSET Tasks] /\ retries \in [Procs -> SUBSET Tasks]
    /\ tokens \in [Procs -> SUBSET Tasks] /\ waiting \in [Procs -> SUBSET Tasks]
    /\ cancels \in 0..MaxCancels

-----------------------------------------------------------------------------
(* Lines.                                                                    *)

\* A newcomer is the last in line.
LEMMA LineGrows ==
    ASSUME NEW S, NEW q \in Seq(S), IsInjective(q), NEW x \in S, x \notin Range(q)
    PROVE  /\ Append(q, x) \in Seq(S) /\ IsInjective(Append(q, x))
           /\ Range(Append(q, x)) = Range(q) \cup {x}
           /\ q # <<>> => Append(q, x) # <<>> /\ Head(Append(q, x)) = Head(q)
<1> DEFINE r == Append(q, x)
<1>1. /\ r \in Seq(S) /\ DOMAIN r = 1 .. Len(q) + 1 /\ Len(q) \in Nat /\ DOMAIN q = 1 .. Len(q)
      /\ \A i \in 1 .. Len(q) : r[i] = q[i]
      /\ r[Len(q) + 1] = x
  OBVIOUS
<1>2. \A i \in 1 .. Len(q) : q[i] # x
  BY <1>1 DEF Range
<1>3. IsInjective(r)
  BY <1>1, <1>2 DEF IsInjective
<1>4. Range(r) = Range(q) \cup {x}
  BY <1>1 DEF Range
<1>5. q # <<>> => r # <<>> /\ Head(r) = Head(q)
  OBVIOUS
<1> QED BY <1>1, <1>3, <1>4, <1>5

\* The first in line leaves.
LEMMA LineShrinks ==
    ASSUME NEW S, NEW q \in Seq(S), IsInjective(q), q # <<>>
    PROVE  /\ Tail(q) \in Seq(S) /\ IsInjective(Tail(q))
           /\ Range(Tail(q)) = Range(q) \ {Head(q)}
<1> DEFINE r == Tail(q)
<1>1. /\ Len(q) \in Nat \ {0} /\ DOMAIN q = 1 .. Len(q) /\ Head(q) = q[1]
      /\ r \in Seq(S) /\ DOMAIN r = 1 .. Len(q) - 1
      /\ \A i \in 1 .. Len(q) - 1 : r[i] = q[i + 1]
  OBVIOUS
<1>2. IsInjective(r)
  BY <1>1 DEF IsInjective
<1>3. ASSUME NEW y \in Range(r) PROVE y \in Range(q) \ {Head(q)}
  <2>1. PICK i \in 1 .. Len(q) - 1 : y = q[i + 1]
    BY <1>1, <1>3 DEF Range
  <2>2. i + 1 \in 1 .. Len(q) /\ i + 1 # 1
    BY <1>1, <2>1
  <2> QED BY <1>1, <2>1, <2>2 DEF Range, IsInjective
<1>4. ASSUME NEW y \in Range(q), y # Head(q) PROVE y \in Range(r)
  <2>1. PICK i \in 1 .. Len(q) : y = q[i]
    BY <1>1 DEF Range
  <2>2. i # 1
    BY <1>1, <1>4, <2>1
  <2>3. i - 1 \in 1 .. Len(q) - 1 /\ r[i - 1] = q[i]
    BY <1>1, <2>2
  <2> QED BY <1>1, <2>1, <2>3 DEF Range
<1> QED BY <1>1, <1>2, <1>3, <1>4

\* Who is not first yet may become the holder only as the first.
LEMMA LinesStay ==
    ASSUME LockInv, lock' = lock,
           \A q \in Procs, v \in Workers :
             /\ InLine(q, v)' <=> InLine(q, v)
             /\ InLine(q, v) => worker'[q][v].task = worker[q][v].task
             /\ Holds(q, v)' => \/ Holds(q, v)
                                \/ lock[q][Session(q, v)] # <<>> /\ Head(lock[q][Session(q, v)]) = v
    PROVE  LockInv'
<1>1. \A q \in Procs, v \in Workers : InLine(q, v) => Session(q, v)' = Session(q, v)
  BY DEF Session
<1>2. LinesOK'
  BY <1>1 DEF LockInv, LinesOK
<1>3. HolderIsFirst'
  BY <1>1 DEF LockInv, HolderIsFirst, Holds, InLine
<1> QED BY <1>2, <1>3 DEF LockInv

\* The others stay where they are.
OthersStay(p, w) ==
    \A q \in Procs, v \in Workers : q # p \/ v # w =>
        worker'[q][v].pc = worker[q][v].pc /\ worker'[q][v].task = worker[q][v].task

\* A worker that is not idle works for a session.
LEMMA HasSession ==
    ASSUME WorkersOK, NEW p \in Procs, NEW w \in Workers, worker[p][w].pc # "idle"
    PROVE  Session(p, w) \in Sessions
  BY TaskAssumption DEF WorkersOK, Session

\* A worker lines up.
LEMMA LineJoined ==
    ASSUME WorkersOK, LockInv, NEW p \in Procs, NEW w \in Workers, NEW t \in Tasks, ~InLine(p, w),
           worker'[p][w].pc = "lock", worker'[p][w].task = t, OthersStay(p, w),
           lock' = [lock EXCEPT ![p][SessionOf[t]] = Append(@, w)]
    PROVE  LockInv'
<1> DEFINE s == SessionOf[t]
<1>1. s \in Sessions
  BY TaskAssumption
<1>2. /\ lock \in [Procs -> [Sessions -> Seq(Workers)]]
      /\ lock[p][s] \in Seq(Workers) /\ IsInjective(lock[p][s]) /\ w \notin Range(lock[p][s])
  BY <1>1 DEF LockInv, LinesOK
<1> DEFINE old == lock[p][s]
           line == Append(old, w)
<1> HIDE DEF s, old
<1>3. /\ line \in Seq(Workers) /\ IsInjective(line) /\ Range(line) = Range(old) \cup {w}
      /\ old # <<>> => line # <<>> /\ Head(line) = Head(old)
  <2>1. old \in Seq(Workers) /\ IsInjective(old) /\ w \notin Range(old)
    BY <1>2 DEF old
  <2> QED BY <2>1, LineGrows
<1>4. lock' = [lock EXCEPT ![p][s] = line]
  BY DEF s, old
<1> HIDE DEF line
<1>5. /\ lock' \in [Procs -> [Sessions -> Seq(Workers)]]
      /\ lock'[p][s] = line /\ lock[p][s] = old
      /\ \A q \in Procs, r \in Sessions : q # p \/ r # s => lock'[q][r] = lock[q][r]
  BY <1>1, <1>2, <1>3, <1>4 DEF old
<1>6. /\ \A q \in Procs, v \in Workers : q # p \/ v # w =>
           (InLine(q, v)' <=> InLine(q, v)) /\ Session(q, v)' = Session(q, v) /\ (Holds(q, v)' <=> Holds(q, v))
      /\ InLine(p, w)' /\ Session(p, w)' = s /\ ~Holds(p, w)'
  BY DEF OthersStay, InLine, Session, Holds, s
<1>7. LinesOK'
  <2>1. ASSUME NEW q \in Procs, NEW r \in Sessions
        PROVE  IsInjective(lock'[q][r])
    BY <1>3, <1>5 DEF LockInv, LinesOK
  <2>2. ASSUME NEW q \in Procs, NEW r \in Sessions
        PROVE  Range(lock'[q][r]) = {v \in Workers : InLine(q, v)' /\ Session(q, v)' = r}
    <3>1. Range(lock[q][r]) = {v \in Workers : InLine(q, v) /\ Session(q, v) = r}
      BY DEF LockInv, LinesOK
    <3>2. CASE q = p /\ r = s
      BY <1>3, <1>5, <1>6, <3>1, <3>2, ZenonT(40)
    <3>3. CASE q # p \/ r # s
      <4>1. {v \in Workers : InLine(q, v)' /\ Session(q, v)' = r}
              = {v \in Workers : InLine(q, v) /\ Session(q, v) = r}
        BY <1>6, <3>3
      <4> QED BY <1>5, <3>1, <3>3, <4>1
    <3> QED BY <3>2, <3>3
  <2> QED BY <1>5, <2>1, <2>2 DEF LinesOK
<1>8. HolderIsFirst'
  <2> SUFFICES ASSUME NEW q \in Procs, NEW v \in Workers, Holds(q, v)'
               PROVE  lock'[q][Session(q, v)'] # <<>> /\ Head(lock'[q][Session(q, v)']) = v
    BY DEF HolderIsFirst
  <2>1. Holds(q, v) /\ Session(q, v)' = Session(q, v) /\ InLine(q, v)
    BY <1>6 DEF Holds, InLine
  <2>2. lock[q][Session(q, v)] # <<>> /\ Head(lock[q][Session(q, v)]) = v
    BY <2>1 DEF LockInv, HolderIsFirst
  <2>3. CASE q = p /\ Session(q, v) = s
    BY <1>3, <1>5, <2>1, <2>2, <2>3
  <2>4. CASE q # p \/ Session(q, v) # s
    <3>1. Session(q, v) \in Sessions
      BY <2>1, HasSession DEF InLine
    <3> QED BY <1>5, <2>1, <2>2, <2>4, <3>1
  <2> QED BY <2>3, <2>4
<1> QED BY <1>7, <1>8 DEF LockInv

\* Who is in line is in the line of its session.
LEMMA InItsLine ==
    ASSUME WorkersOK, LockInv, NEW p \in Procs, NEW w \in Workers, InLine(p, w)
    PROVE  Session(p, w) \in Sessions /\ lock[p][Session(p, w)] # <<>>
<1>1. Session(p, w) \in Sessions
  BY HasSession DEF InLine
<1>2. w \in Range(lock[p][Session(p, w)])
  BY <1>1 DEF LockInv, LinesOK
<1>3. ASSUME lock[p][Session(p, w)] = <<>> PROVE FALSE
  BY <1>2, <1>3 DEF Range
<1> QED BY <1>1, <1>3

\* The first in line leaves and is idle.
LEMMA LineLeft ==
    ASSUME WorkersOK, LockInv, NEW p \in Procs, NEW w \in Workers, InLine(p, w),
           Head(lock[p][Session(p, w)]) = w, worker'[p][w].pc = "idle", OthersStay(p, w),
           Release(p, Session(p, w))
    PROVE  LockInv'
<1> DEFINE s == Session(p, w)
<1>1. s \in Sessions /\ lock[p][s] # <<>>
  BY InItsLine
<1>2. /\ lock \in [Procs -> [Sessions -> Seq(Workers)]]
      /\ lock[p][s] \in Seq(Workers) /\ IsInjective(lock[p][s])
  BY <1>1 DEF LockInv, LinesOK
<1> DEFINE old == lock[p][s]
           line == Tail(old)
<1>s. Head(old) = w /\ Session(p, w) = s
  OBVIOUS
<1>r. lock' = [lock EXCEPT ![p][s] = Tail(@)]
  BY DEF Release
<1> HIDE DEF s, old
<1>3. line \in Seq(Workers) /\ IsInjective(line) /\ Range(line) = Range(old) \ {w}
  <2>1. old \in Seq(Workers) /\ IsInjective(old) /\ old # <<>>
    BY <1>1, <1>2 DEF old
  <2> QED BY <1>s, <2>1, LineShrinks
<1>4. lock' = [lock EXCEPT ![p][s] = line]
  BY <1>r DEF old
<1> HIDE DEF line
<1>5. /\ lock' \in [Procs -> [Sessions -> Seq(Workers)]]
      /\ lock'[p][s] = line /\ lock[p][s] = old
      /\ \A q \in Procs, r \in Sessions : q # p \/ r # s => lock'[q][r] = lock[q][r]
  BY <1>1, <1>2, <1>3, <1>4 DEF old
<1>6. /\ \A q \in Procs, v \in Workers : q # p \/ v # w =>
           (InLine(q, v)' <=> InLine(q, v)) /\ Session(q, v)' = Session(q, v) /\ (Holds(q, v)' <=> Holds(q, v))
      /\ ~InLine(p, w)' /\ ~Holds(p, w)'
  BY DEF OthersStay, InLine, Session, Holds
<1>7. LinesOK'
  <2>1. ASSUME NEW q \in Procs, NEW r \in Sessions
        PROVE  IsInjective(lock'[q][r])
    BY <1>3, <1>5 DEF LockInv, LinesOK
  <2>2. ASSUME NEW q \in Procs, NEW r \in Sessions
        PROVE  Range(lock'[q][r]) = {v \in Workers : InLine(q, v)' /\ Session(q, v)' = r}
    <3>1. Range(lock[q][r]) = {v \in Workers : InLine(q, v) /\ Session(q, v) = r}
      BY DEF LockInv, LinesOK
    <3>2. CASE q = p /\ r = s
      BY <1>3, <1>5, <1>6, <3>1, <3>2
    <3>3. CASE q # p \/ r # s
      <4>1. {v \in Workers : InLine(q, v)' /\ Session(q, v)' = r}
              = {v \in Workers : InLine(q, v) /\ Session(q, v) = r}
        BY <1>6, <1>s, <3>3
      <4> QED BY <1>5, <3>1, <3>3, <4>1
    <3> QED BY <3>2, <3>3
  <2> QED BY <1>5, <2>1, <2>2 DEF LinesOK
<1>8. HolderIsFirst'
  <2> SUFFICES ASSUME NEW q \in Procs, NEW v \in Workers, Holds(q, v)'
               PROVE  lock'[q][Session(q, v)'] # <<>> /\ Head(lock'[q][Session(q, v)']) = v
    BY DEF HolderIsFirst
  <2>1. Holds(q, v) /\ Session(q, v)' = Session(q, v) /\ InLine(q, v) /\ (q # p \/ v # w)
    BY <1>6 DEF Holds, InLine
  <2>2. lock[q][Session(q, v)] # <<>> /\ Head(lock[q][Session(q, v)]) = v
    BY <2>1 DEF LockInv, HolderIsFirst
  <2>3. q # p \/ Session(q, v) # s
    BY <1>5, <1>s, <2>1, <2>2
  <2>4. Session(q, v) \in Sessions
    BY <2>1, HasSession DEF InLine
  <2> QED BY <1>5, <2>1, <2>2, <2>3, <2>4
<1> QED BY <1>7, <1>8 DEF LockInv

\* A process ends with its lines.
LEMMA LinesForgotten ==
    ASSUME WorkersOK, LockInv, NEW p \in Procs, Forget(p)
    PROVE  LockInv'
<1>1. /\ \A q \in Procs \ {p} : worker'[q] = worker[q] /\ lock'[q] = lock[q]
      /\ \A v \in Workers : worker'[p][v] = Idle
      /\ \A r \in Sessions : lock'[p][r] = <<>>
      /\ lock' \in [Procs -> [Sessions -> Seq(Workers)]]
  BY DEF Forget, WorkersOK, LockInv, LinesOK
<1>2. \A v \in Workers : ~InLine(p, v)' /\ ~Holds(p, v)'
  BY <1>1, IdleType DEF InLine, Holds
<1>3. \A q \in Procs \ {p}, v \in Workers :
        (InLine(q, v)' <=> InLine(q, v)) /\ Session(q, v)' = Session(q, v) /\ (Holds(q, v)' <=> Holds(q, v))
  BY <1>1 DEF InLine, Session, Holds
<1>4. ASSUME NEW q \in Procs, NEW r \in Sessions
      PROVE  /\ IsInjective(lock'[q][r])
             /\ Range(lock'[q][r]) = {v \in Workers : InLine(q, v)' /\ Session(q, v)' = r}
  <2>1. CASE q = p
    <3>1. IsInjective(<<>>) /\ Range(<<>>) = {}
      BY DEF IsInjective, Range
    <3> QED BY <1>1, <1>2, <2>1, <3>1
  <2>2. CASE q # p
    BY <1>1, <1>3, <2>2 DEF LockInv, LinesOK
  <2> QED BY <2>1, <2>2
<1>5. LinesOK'
  BY <1>1, <1>4 DEF LinesOK
<1>6. HolderIsFirst'
  <2> SUFFICES ASSUME NEW q \in Procs, NEW v \in Workers, Holds(q, v)'
               PROVE  lock'[q][Session(q, v)'] # <<>> /\ Head(lock'[q][Session(q, v)']) = v
    BY DEF HolderIsFirst
  <2>1. q \in Procs \ {p}
    BY <1>2
  <2>2. Holds(q, v) /\ Session(q, v)' = Session(q, v) /\ lock'[q] = lock[q]
    BY <1>1, <1>3, <2>1
  <2> QED BY <2>2 DEF LockInv, HolderIsFirst
<1> QED BY <1>5, <1>6 DEF LockInv

\* Every worker stays where it is, with its task.
AllStay == \A q \in Procs, v \in Workers :
             worker'[q][v].pc = worker[q][v].pc /\ worker'[q][v].task = worker[q][v].task

LEMMA AllLinesStay ==
    ASSUME LockInv, AllStay, lock' = lock
    PROVE  LockInv'
  BY LinesStay DEF AllStay, InLine, Holds

LEMMA LockInit == Init => LockInv
<1> SUFFICES ASSUME Init PROVE LockInv
  OBVIOUS
<1>1. IsInjective(<<>>) /\ Range(<<>>) = {}
  BY DEF IsInjective, Range
<1>2. \A p \in Procs, w \in Workers : worker[p][w] = Idle
  BY DEF Init
<1>3. \A p \in Procs, w \in Workers : ~InLine(p, w) /\ ~Holds(p, w)
  BY <1>2, IdleType DEF InLine, Holds
<1>4. \A p \in Procs, s \in Sessions : lock[p][s] = <<>>
  BY DEF Init
<1>5. lock \in [Procs -> [Sessions -> Seq(Workers)]]
  BY DEF Init
<1> QED BY <1>1, <1>3, <1>4, <1>5 DEF LockInv, LinesOK, HolderIsFirst

\* A worker goes on with its task and its event.
LEMMA OneGoesOn ==
    ASSUME WorkersOK, NEW p \in Procs, NEW w \in Workers, worker[p][w].pc # "idle",
           NEW c \in {"lock", "leased", "run"}, worker' = [worker EXCEPT ![p][w].pc = c]
    PROVE  /\ worker'[p][w].pc = c /\ worker'[p][w].task = worker[p][w].task
           /\ worker'[p][w].event = worker[p][w].event
           /\ \A q \in Procs, v \in Workers : q # p \/ v # w => worker'[q][v] = worker[q][v]
           /\ OthersStay(p, w)
<1>1. /\ worker'[p][w].pc = c /\ worker'[p][w].task = worker[p][w].task
      /\ \A q \in Procs, v \in Workers : q # p \/ v # w => worker'[q][v] = worker[q][v]
  BY WorkerGoesOn, ZenonT(40)
<1>2. worker'[p][w].event = worker[p][w].event
  BY DEF WorkersOK, WorkerType
<1> QED BY <1>1, <1>2 DEF OthersStay

\* A worker becomes idle.
LEMMA OneIsIdle ==
    ASSUME WorkersOK, NEW p \in Procs, NEW w \in Workers, SetWorker(p, w, Idle)
    PROVE  /\ worker'[p][w].pc = "idle" /\ OthersStay(p, w)
           /\ \A q \in Procs, v \in Workers : q # p \/ v # w => worker'[q][v] = worker[q][v]
  BY WorkerSet, IdleType DEF OthersStay

\* Whoever ends an execution is idle, and the others stay where they are.
LEMMA OneEnds ==
    ASSUME WorkersOK, NEW p \in Procs, NEW w \in Workers, Finish(p, w) \/ Timeout(p, w)
    PROVE  worker'[p][w].pc = "idle" /\ OthersStay(p, w)
<1>1. \/ SetWorker(p, w, Idle)
      \/ \E s, d : PruneWorkers(p, s, d, [worker[p] EXCEPT ![w] = Idle])
  BY DEF Finish, Timeout, Complete
<1>2. CASE SetWorker(p, w, Idle)
  BY <1>2, OneIsIdle
<1>3. ASSUME NEW s, NEW d, PruneWorkers(p, s, d, [worker[p] EXCEPT ![w] = Idle])
      PROVE  worker'[p][w].pc = "idle" /\ OthersStay(p, w)
  BY <1>3, PruneEnds DEF OthersStay
<1> QED BY <1>1, <1>2, <1>3

\* A cancel request leaves every worker where it is.
LEMMA CancelStays ==
    ASSUME WorkersOK, NEW p \in Procs, NEW t \in Tasks, Cancel(p, t)
    PROVE  AllStay
<1>1. CASE UNCHANGED worker
  BY <1>1 DEF AllStay
<1>2. CASE \E d : Complete(p, t, d, worker[p])
  <2>1. PICK d : PruneWorkers(p, SessionOf[t], d, worker[p])
    BY <1>2 DEF Complete
  <2>2. worker[p] \in [Workers -> WorkerType]
    BY DEF WorkersOK
  <2> QED BY <2>1, <2>2, PruneKeeps DEF AllStay
<1> QED BY <1>1, <1>2 DEF Cancel

LEMMA LockStep ==
    ASSUME Shape, LockInv, [Next]_vars
    PROVE  LockInv'
<1>wo. WorkersOK
  BY DEF Shape
<1>same. ASSUME UNCHANGED <<worker, lock>> PROVE LockInv'
  BY <1>same, AllLinesStay DEF AllStay
<1>1. ASSUME NEW p \in Procs, NEW t \in Tasks,
             Submit(p, t) \/ Wait(p, t) \/ RetryAfter(p, t) \/ ReleaseQuarantine(p, t)
      PROVE  LockInv'
  BY <1>1, <1>same DEF Submit, Wait, RetryAfter, ReleaseQuarantine
<1>2. ASSUME NEW p \in Procs, NEW t \in Tasks, Cancel(p, t) PROVE LockInv'
  <2>1. lock' = lock
    BY <1>2 DEF Cancel
  <2> QED BY <1>2, <1>wo, <2>1, CancelStays, AllLinesStay
<1>3. ASSUME NEW p \in Procs, NEW w \in Workers, TakeTask(p, w) PROVE LockInv'
  <2> DEFINE t == Head(queue[p])
             r(c) == [pc |-> c, task |-> t, event |-> "current"]
  <2>1. t \in Tasks /\ worker[p][w].pc = "idle"
    BY <1>3 DEF TakeTask, Shape
  <2>2. \/ UNCHANGED <<worker, lock>>
        \/ /\ SetWorker(p, w, r("lock"))
           /\ lock' = [lock EXCEPT ![p][SessionOf[t]] = Append(@, w)]
        \/ SetWorker(p, w, r("event")) /\ UNCHANGED lock
    BY <1>3 DEF TakeTask
  <2> HIDE DEF t
  <2>3. \A c \in {"lock", "event"} : r(c) \in WorkerType /\ r(c).task \in Tasks
    BY <2>1 DEF WorkerType
  <2>4. r("lock").pc = "lock" /\ r("lock").task = t /\ r("event").pc = "event"
    OBVIOUS
  <2> HIDE DEF r
  <2>5. ASSUME NEW c \in {"lock", "event"}, SetWorker(p, w, r(c))
        PROVE  worker'[p][w] = r(c) /\ OthersStay(p, w)
    BY <1>wo, <2>3, <2>5, WorkerSet DEF OthersStay
  <2>6. CASE /\ SetWorker(p, w, r("lock"))
             /\ lock' = [lock EXCEPT ![p][SessionOf[t]] = Append(@, w)]
    BY <1>wo, <2>1, <2>4, <2>5, <2>6, LineJoined DEF InLine
  <2>7. CASE SetWorker(p, w, r("event")) /\ UNCHANGED lock
    <3>1. worker'[p][w].pc = "event" /\ OthersStay(p, w)
      BY <2>4, <2>5, <2>7
    <3> QED BY <2>1, <2>7, <3>1, LinesStay DEF OthersStay, InLine, Holds
  <2> QED BY <1>same, <2>2, <2>6, <2>7
<1>4. ASSUME NEW p \in Procs, NEW w \in Workers, EventWakes(p, w) PROVE LockInv'
  <2>1. /\ worker[p][w].pc = "event" /\ worker[p][w].task \in Tasks
        /\ worker' = [worker EXCEPT ![p][w].pc = "lock"]
        /\ lock' = [lock EXCEPT ![p][SessionOf[worker[p][w].task]] = Append(@, w)]
    BY <1>4, <1>wo DEF EventWakes, WorkersOK, Session
  <2>2. worker'[p][w].pc = "lock" /\ worker'[p][w].task = worker[p][w].task /\ OthersStay(p, w)
    <3>1. worker[p][w].pc # "idle" /\ worker' = [worker EXCEPT ![p][w].pc = "lock"]
      BY <2>1
    <3> QED BY <1>wo, <3>1, OneGoesOn
  <2> QED BY <1>wo, <2>1, <2>2, LineJoined DEF InLine
<1>5. ASSUME NEW p \in Procs, NEW w \in Workers, EnterLock(p, w) PROVE LockInv'
  <2>1. /\ worker[p][w].pc = "lock" /\ Head(lock[p][Session(p, w)]) = w /\ InLine(p, w)
        /\ \/ worker' = [worker EXCEPT ![p][w].pc = "leased"] /\ UNCHANGED lock
           \/ SetWorker(p, w, Idle) /\ Release(p, Session(p, w))
    BY <1>5 DEF EnterLock, InLine
  <2>2. CASE worker' = [worker EXCEPT ![p][w].pc = "leased"] /\ UNCHANGED lock
    <3>1. worker'[p][w].pc = "leased" /\ worker'[p][w].task = worker[p][w].task /\ OthersStay(p, w)
      <4>1. worker[p][w].pc # "idle" /\ worker' = [worker EXCEPT ![p][w].pc = "leased"]
        BY <2>1, <2>2
      <4> QED BY <1>wo, <4>1, OneGoesOn, ZenonT(40)
    <3>2. lock[p][Session(p, w)] # <<>>
      BY <1>wo, <2>1, InItsLine
    <3> QED BY <2>1, <2>2, <3>1, <3>2, LinesStay DEF OthersStay, InLine, Holds
  <2>3. CASE SetWorker(p, w, Idle) /\ Release(p, Session(p, w))
    BY <1>wo, <2>1, <2>3, OneIsIdle, LineLeft
  <2> QED BY <2>1, <2>2, <2>3
<1>6. ASSUME NEW p \in Procs, NEW w \in Workers, StartRunning(p, w) PROVE LockInv'
  <2>1. /\ worker[p][w].pc = "leased" /\ Head(lock[p][Session(p, w)]) = w /\ InLine(p, w)
        /\ \/ worker' = [worker EXCEPT ![p][w].pc = "run"] /\ UNCHANGED lock
           \/ SetWorker(p, w, Idle) /\ Release(p, Session(p, w))
    BY <1>6 DEF StartRunning, InLine, LockInv, HolderIsFirst, Holds
  <2>2. CASE worker' = [worker EXCEPT ![p][w].pc = "run"] /\ UNCHANGED lock
    <3>1. worker'[p][w].pc = "run" /\ worker'[p][w].task = worker[p][w].task /\ OthersStay(p, w)
      <4>1. worker[p][w].pc # "idle" /\ worker' = [worker EXCEPT ![p][w].pc = "run"]
        BY <2>1, <2>2
      <4> QED BY <1>wo, <4>1, OneGoesOn, ZenonT(40)
    <3> QED BY <2>1, <2>2, <3>1, LinesStay DEF OthersStay, InLine, Holds
  <2>3. CASE SetWorker(p, w, Idle) /\ Release(p, Session(p, w))
    BY <1>wo, <2>1, <2>3, OneIsIdle, LineLeft
  <2> QED BY <2>1, <2>2, <2>3
<1>7. ASSUME NEW p \in Procs, NEW w \in Workers, Finish(p, w) \/ Timeout(p, w) PROVE LockInv'
  <2>1. /\ worker[p][w].pc = "run" /\ Head(lock[p][Session(p, w)]) = w /\ InLine(p, w)
        /\ Release(p, Session(p, w))
    BY <1>7 DEF Finish, Timeout, InLine, LockInv, HolderIsFirst, Holds
  <2> QED BY <1>7, <1>wo, <2>1, OneEnds, LineLeft
<1>8. ASSUME NEW p \in Procs, Start(p) \/ Resume(p) PROVE LockInv'
  BY <1>8, <1>same DEF Start, Resume, memory
<1>9. ASSUME NEW p \in Procs, Stop(p) \/ Crash(p) PROVE LockInv'
  BY <1>9, <1>wo, LinesForgotten DEF Stop, Crash
<1>10. ASSUME NEW t \in Tasks, LeaseExpires(t) PROVE LockInv'
  BY <1>10, <1>same DEF LeaseExpires, memory
<1>11. CASE UNCHANGED vars
  BY <1>11, <1>same DEF vars, memory
<1> QED BY <1>1, <1>2, <1>3, <1>4, <1>5, <1>6, <1>7, <1>8, <1>9, <1>10, <1>11
        DEF Next, Proceeds, Ends

-----------------------------------------------------------------------------
(* Types.                                                                    *)

LEMMA RestInit == Init => RestOK
  BY TaskAssumption DEF Init, RestOK

LEMMA RestStep ==
    ASSUME Shape, RestOK, [Next]_vars
    PROVE  RestOK'
<1>wo. WorkersOK
  BY DEF Shape
<1>set. ASSUME NEW f \in [Procs -> SUBSET Tasks], NEW p \in Procs, NEW t \in Tasks
        PROVE  /\ [f EXCEPT ![p] = @ \ {t}] \in [Procs -> SUBSET Tasks]
               /\ [f EXCEPT ![p] = @ \cup {t}] \in [Procs -> SUBSET Tasks]
  OBVIOUS
<1>ev. ASSUME NEW p \in Procs, NEW s, NEW b \in BOOLEAN
       PROVE  [up EXCEPT ![p][s] = b] \in [Procs -> [Sessions -> BOOLEAN]]
  BY DEF RestOK
<1>prune. ASSUME NEW p \in Procs, NEW s, NEW d, PruneEvent(p, s, d)
          PROVE  up' \in [Procs -> [Sessions -> BOOLEAN]]
  BY <1>ev, <1>prune DEF PruneEvent, RestOK
<1>task. \A p \in Procs, w \in Workers : worker[p][w].pc # "idle" => worker[p][w].task \in Tasks
  BY <1>wo DEF WorkersOK
<1>1. ASSUME NEW p \in Procs, NEW t \in Tasks, Submit(p, t) PROVE RestOK'
  BY <1>1 DEF Submit, RestOK
<1>2. ASSUME NEW p \in Procs, NEW t \in Tasks, Cancel(p, t) PROVE RestOK'
  <2>1. cancels' \in 0..MaxCancels
    BY <1>2, TaskAssumption DEF Cancel, RestOK
  <2>2. tokens' \in [Procs -> SUBSET Tasks]
    BY <1>2, <1>set DEF Cancel, RestOK
  <2>3. \/ UNCHANGED <<waiting, up>>
        \/ /\ waiting' = [waiting EXCEPT ![p] = @ \ {t}]
           /\ \E d : PruneEvent(p, SessionOf[t], d)
    BY <1>2 DEF Cancel, Complete
  <2>4. waiting' \in [Procs -> SUBSET Tasks] /\ up' \in [Procs -> [Sessions -> BOOLEAN]]
    <3>1. CASE UNCHANGED <<waiting, up>>
      BY <3>1 DEF RestOK
    <3>2. CASE /\ waiting' = [waiting EXCEPT ![p] = @ \ {t}]
               /\ \E d : PruneEvent(p, SessionOf[t], d)
      <4>1. waiting' \in [Procs -> SUBSET Tasks]
        BY <3>2, <1>set DEF RestOK
      <4> QED BY <3>2, <4>1, <1>prune
    <3> QED BY <2>3, <3>1, <3>2
  <2> QED BY <1>2, <2>1, <2>2, <2>4 DEF Cancel, RestOK
<1>3. ASSUME NEW p \in Procs, NEW t \in Tasks, Wait(p, t) PROVE RestOK'
  BY <1>3, <1>set DEF Wait, RestOK
<1>4. ASSUME NEW p \in Procs, NEW t \in Tasks, RetryAfter(p, t) PROVE RestOK'
  BY <1>4, <1>set DEF RetryAfter, RestOK
<1>5. ASSUME NEW p \in Procs, NEW t \in Tasks, ReleaseQuarantine(p, t) PROVE RestOK'
  BY <1>5, <1>set, <1>ev DEF ReleaseQuarantine, RestOK
<1>6. ASSUME NEW p \in Procs, NEW w \in Workers,
             TakeTask(p, w) \/ EventWakes(p, w) \/ EnterLock(p, w)
      PROVE  RestOK'
  BY <1>6 DEF TakeTask, EventWakes, EnterLock, RestOK
<1>7. ASSUME NEW p \in Procs, NEW w \in Workers, StartRunning(p, w) PROVE RestOK'
  <2>1. worker[p][w].task \in Tasks
    BY <1>7, <1>task DEF StartRunning
  <2>2. tokens' = tokens \/ tokens' = [tokens EXCEPT ![p] = @ \ {worker[p][w].task}]
    BY <1>7 DEF StartRunning
  <2>3. tokens' \in [Procs -> SUBSET Tasks]
    BY <1>set, <2>1, <2>2, SMTT(20) DEF RestOK
  <2> QED BY <1>7, <2>3 DEF StartRunning, RestOK
<1>8. ASSUME NEW p \in Procs, NEW w \in Workers, Finish(p, w) PROVE RestOK'
  <2> DEFINE t == worker[p][w].task
  <2>1. t \in Tasks
    BY <1>8, <1>task DEF Finish
  <2>2. \/ UNCHANGED <<waiting, up>> /\ retries' = [retries EXCEPT ![p] = @ \cup {t}]
        \/ /\ waiting' = [waiting EXCEPT ![p] = @ \ {t}]
           /\ \E d : PruneEvent(p, SessionOf[t], d)
           /\ UNCHANGED retries
    BY <1>8 DEF Finish, Complete
  <2>3. UNCHANGED <<zombies, tokens, cancels>>
    BY <1>8 DEF Finish
  <2> HIDE DEF t
  <2> QED BY <1>set, <1>prune, <2>1, <2>2, <2>3, SMTT(20) DEF RestOK
<1>9. ASSUME NEW p \in Procs, NEW w \in Workers, Timeout(p, w) PROVE RestOK'
  <2> DEFINE t == worker[p][w].task
  <2>1. t \in Tasks
    BY <1>9, <1>task DEF Timeout
  <2>2. /\ waiting' = [waiting EXCEPT ![p] = @ \ {t}]
        /\ zombies' = [zombies EXCEPT ![p] = @ \cup {t}]
        /\ up' = [up EXCEPT ![p][SessionOf[t]] = FALSE]
        /\ UNCHANGED <<retries, tokens, cancels>>
    BY <1>9 DEF Timeout, Session
  <2> HIDE DEF t
  <2> QED BY <1>set, <1>ev, <2>1, <2>2 DEF RestOK
<1>10. ASSUME NEW p \in Procs, Start(p) \/ Resume(p) PROVE RestOK'
  BY <1>10 DEF Start, Resume, memory, RestOK
<1>11. ASSUME NEW p \in Procs, Stop(p) \/ Crash(p) PROVE RestOK'
  <2>1. Forget(p) /\ UNCHANGED cancels
    BY <1>11 DEF Stop, Crash
  <2> QED BY <2>1 DEF Forget, RestOK
<1>12. ASSUME NEW t \in Tasks, LeaseExpires(t) PROVE RestOK'
  BY <1>12 DEF LeaseExpires, memory, RestOK
<1>13. CASE UNCHANGED vars
  BY <1>13 DEF vars, memory, RestOK
<1> QED BY <1>1, <1>2, <1>3, <1>4, <1>5, <1>6, <1>7, <1>8, <1>9, <1>10, <1>11, <1>12, <1>13
        DEF Next, Proceeds, Ends

LEMMA TypesInductive == Spec => [](Shape /\ LockInv /\ RestOK)
<1>1. Init => Shape /\ LockInv /\ RestOK
  BY ShapeInit, LockInit, RestInit
<1>2. Shape /\ LockInv /\ RestOK /\ [Next]_vars => (Shape /\ LockInv /\ RestOK)'
  BY ShapeStep, LockStep, RestStep
<1> QED BY <1>1, <1>2, PTL DEF Spec

\* The types of the task runtime, for any constants: a worker holds or waits for the
\* lock of its session exactly while it is past the session's event.
THEOREM TaskTypesAlways == Spec => []TypeOK
<1>1. Shape /\ LockInv /\ RestOK => TypeOK
  BY DEF Shape, ProcsOK, WorkersOK, WorkerType, LockInv, LinesOK, InLine, RestOK, TypeOK
<1> QED BY <1>1, TypesInductive, PTL

-----------------------------------------------------------------------------
(* One process, no cancel requests.                                          *)

Alone == \A p, q \in Procs : p = q

Inside(p, w) == worker[p][w].pc # "idle"
Knows(p, t) == \/ t \in Range(queue[p])
               \/ \E w \in Workers : Inside(p, w) /\ worker[p][w].task = t

Fresh == {"created", "interrupted"}

\* A process that is down has nothing in memory.
DownIsEmpty ==
    \A p \in Procs : alive[p] = "down" =>
        queue[p] = <<>> /\ zombies[p] = {} /\ \A w \in Workers : ~Inside(p, w)

\* What a process has in its queue or with a worker was queued.
KnownIsQueued == \A p \in Procs, t \in Tasks : Knows(p, t) => db[t].status \notin Fresh

\* Who still has an event that was dropped has a task that is over.
OldIsOver ==
    \A p \in Procs, w \in Workers :
        Inside(p, w) /\ worker[p][w].event # "current" => db[worker[p][w].task].status \in Terminal

\* A session in quarantine is not available, nobody executes for it, and it is in
\* quarantine for one execution.
QuarantineOK ==
    \A p \in Procs : \A t \in zombies[p] :
        /\ ~up[p][SessionOf[t]]
        /\ \A w \in Workers : Holds(p, w) => Session(p, w) # SessionOf[t]
        /\ \A u \in zombies[p] : SessionOf[u] = SessionOf[t] => u = t

QuarInv == DownIsEmpty /\ KnownIsQueued /\ OldIsOver /\ QuarantineOK

\* A tried move to another state than queued changes a record only if it was not over.
LEMMA TryMoveStatus ==
    ASSUME NEW r \in Record, NEW to \in Status \ {"queued"}, NEW res \in BOOLEAN
    PROVE  /\ TryMove(r, to, res).status \in {r.status, to}
           /\ r.status \in Terminal => TryMove(r, to, res).status = r.status
<1>1. CASE Legal(r, to)
  <2> DEFINE m == Move(r, to)
  <2>1. m \in Record /\ m.status = to
    BY MoveType
  <2> HIDE DEF m
  <2>2. [m EXCEPT !.result = @ \/ res].status = to
    BY <2>1 DEF Record
  <2>3. TryMove(r, to, res).status = to
    BY <1>1, <2>2 DEF TryMove, m
  <2>4. r.status \in Terminal => to = r.status
    BY <1>1 DEF Legal, Allowed, Record, Status, Terminal, Active
  <2> QED BY <2>3, <2>4
<1>2. CASE ~Legal(r, to)
  BY <1>2 DEF TryMove
<1> QED BY <1>1, <1>2

LEMMA RangeAppend ==
    ASSUME NEW S, NEW q \in Seq(S), NEW x
    PROVE  Range(Append(q, x)) = Range(q) \cup {x}
<1>1. /\ DOMAIN Append(q, x) = 1 .. Len(q) + 1 /\ Len(q) \in Nat /\ DOMAIN q = 1 .. Len(q)
      /\ \A i \in 1 .. Len(q) : Append(q, x)[i] = q[i]
      /\ Append(q, x)[Len(q) + 1] = x
  OBVIOUS
<1> QED BY <1>1 DEF Range

LEMMA RangeTail ==
    ASSUME NEW S, NEW q \in Seq(S), q # <<>>
    PROVE  Range(Tail(q)) \subseteq Range(q) /\ Head(q) \in Range(q)
<1>1. /\ Len(q) \in Nat \ {0} /\ DOMAIN q = 1 .. Len(q) /\ Head(q) = q[1]
      /\ DOMAIN Tail(q) = 1 .. Len(q) - 1
      /\ \A i \in 1 .. Len(q) - 1 : Tail(q)[i] = q[i + 1] /\ i + 1 \in 1 .. Len(q)
  OBVIOUS
<1> QED BY <1>1 DEF Range

LEMMA RangeConcat ==
    ASSUME NEW S, NEW q \in Seq(S), NEW r \in Seq(S)
    PROVE  Range(q \o r) = Range(q) \cup Range(r)
<1>1. /\ Len(q) \in Nat /\ Len(r) \in Nat /\ DOMAIN q = 1 .. Len(q) /\ DOMAIN r = 1 .. Len(r)
      /\ DOMAIN (q \o r) = 1 .. Len(q) + Len(r)
      /\ \A i \in 1 .. Len(q) + Len(r) :
           (q \o r)[i] = IF i <= Len(q) THEN q[i] ELSE r[i - Len(q)]
  OBVIOUS
<1>2. ASSUME NEW i \in 1 .. Len(q) + Len(r) PROVE (q \o r)[i] \in Range(q) \cup Range(r)
  <2>1. CASE i <= Len(q)
    BY <1>1, <2>1 DEF Range
  <2>2. CASE ~(i <= Len(q))
    <3>1. i - Len(q) \in 1 .. Len(r)
      BY <1>1, <2>2
    <3> QED BY <1>1, <2>2, <3>1 DEF Range
  <2> QED BY <2>1, <2>2
<1>3. ASSUME NEW i \in 1 .. Len(q) PROVE q[i] \in Range(q \o r)
  <2>1. i \in 1 .. Len(q) + Len(r) /\ (q \o r)[i] = q[i]
    BY <1>1
  <2> QED BY <1>1, <2>1 DEF Range
<1>4. ASSUME NEW i \in 1 .. Len(r) PROVE r[i] \in Range(q \o r)
  <2>1. i + Len(q) \in 1 .. Len(q) + Len(r) /\ ~(i + Len(q) <= Len(q)) /\ (i + Len(q)) - Len(q) = i
    BY <1>1
  <2>2. (q \o r)[i + Len(q)] = r[i]
    BY <1>1, <2>1
  <2> QED BY <1>1, <2>1, <2>2 DEF Range
<1>5. Range(q \o r) \subseteq Range(q) \cup Range(r)
  BY <1>1, <1>2 DEF Range
<1>6. Range(q) \subseteq Range(q \o r) /\ Range(r) \subseteq Range(q \o r)
  BY <1>1, <1>3, <1>4 DEF Range
<1> QED BY <1>5, <1>6

\* Resume queues what it finds, or blocks it, and what it enqueues is queued.
LEMMA ResumedStatus ==
    ASSUME Shape, NEW p \in Procs, Resume(p), NEW u \in Tasks
    PROVE  /\ \/ db'[u] = db[u]
              \/ /\ db'[u].status \in {"queued", "blocked"}
                 /\ db[u].status \in {"queued", "interrupted", "retry_wait"}
           /\ db'[u].status = "blocked" => db[u].status = "blocked" \/ u \notin Held(p)
           /\ u \in Range(queue'[p]) => u \in Range(queue[p]) \/ db'[u].status = "queued"
<1>db. db \in [Tasks -> Record]
  BY DEF Shape
<1>1. PICK lost \in SUBSET {t \in Tasks \ Held(p) :
                  db[t].status = "queued" \/ (db[t].status = "interrupted" /\ t \in Plans)} :
         LET resumed == [t \in Tasks |->
                 IF db[t].status = "interrupted" /\ t \in Plans THEN Move(db[t], "queued") ELSE db[t]]
             kept == [t \in Tasks |->
                 IF t \in lost THEN [Move(resumed[t], "blocked") EXCEPT !.missing = TRUE] ELSE resumed[t]]
             claimed == {t \in Tasks : kept[t].status = "retry_wait" /\ Eligible(kept[t], Me(p))}
             found == {t \in Tasks : kept[t].status = "queued"}
         IN  /\ db' = [t \in Tasks |-> IF t \in claimed
                                       THEN [Move(kept[t], "queued") EXCEPT !.owner = Me(p)]
                                       ELSE kept[t]]
             /\ \E q \in InOrder(found), c \in InOrder(claimed) :
                  queue' = [queue EXCEPT ![p] = @ \o q \o c]
  BY DEF Resume
<1> DEFINE resumed == [t \in Tasks |->
                 IF db[t].status = "interrupted" /\ t \in Plans THEN Move(db[t], "queued") ELSE db[t]]
           kept == [t \in Tasks |->
                 IF t \in lost THEN [Move(resumed[t], "blocked") EXCEPT !.missing = TRUE] ELSE resumed[t]]
           claimed == {t \in Tasks : kept[t].status = "retry_wait" /\ Eligible(kept[t], Me(p))}
           found == {t \in Tasks : kept[t].status = "queued"}
           taken(t) == [Move(kept[t], "queued") EXCEPT !.owner = Me(p)]
<1>2. /\ db' = [t \in Tasks |-> IF t \in claimed THEN taken(t) ELSE kept[t]]
      /\ \E q \in InOrder(found), c \in InOrder(claimed) : queue' = [queue EXCEPT ![p] = @ \o q \o c]
  BY <1>1
<1>3. \A t \in Tasks : /\ resumed[t] \in Record
                       /\ \/ resumed[t] = db[t]
                          \/ resumed[t].status = "queued" /\ db[t].status = "interrupted"
  BY <1>db, MoveType, StatusNames
<1> DEFINE block(t) == Move(resumed[t], "blocked")
<1>4. \A t \in Tasks : kept[t] = IF t \in lost THEN [block(t) EXCEPT !.missing = TRUE] ELSE resumed[t]
  OBVIOUS
<1> HIDE DEF resumed, kept
<1>5. \A t \in Tasks : block(t) \in Record /\ block(t).status = "blocked"
  BY <1>3, MoveType, StatusNames
<1> HIDE DEF block
<1>6. \A t \in Tasks :
        /\ kept[t] \in Record
        /\ t \in lost => kept[t].status = "blocked"
        /\ t \notin lost => kept[t] = resumed[t]
  <2>1. ASSUME NEW t \in Tasks
        PROVE  [block(t) EXCEPT !.missing = TRUE] \in Record /\ [block(t) EXCEPT !.missing = TRUE].status = "blocked"
    BY <1>5 DEF Record
  <2> QED BY <1>3, <1>4, <2>1
<1>7. \A t \in Tasks : taken(t).status = "queued"
  <2>1. \A t \in Tasks : Move(kept[t], "queued") \in Record /\ Move(kept[t], "queued").status = "queued"
    BY <1>6, MoveType, StatusNames
  <2> QED BY <2>1 DEF Record
<1>c. claimed \in SUBSET Tasks /\ found \in SUBSET Tasks
  OBVIOUS
<1>u. /\ db'[u] = IF u \in claimed THEN taken(u) ELSE kept[u]
      /\ u \in claimed => kept[u].status = "retry_wait"
      /\ u \in found => kept[u].status = "queued"
  BY <1>2
<1>l. u \in lost => u \notin Held(p) /\ db[u].status \in {"queued", "interrupted"}
  OBVIOUS
<1>8. /\ \/ db'[u] = db[u]
         \/ /\ db'[u].status \in {"queued", "blocked"}
            /\ db[u].status \in {"queued", "interrupted", "retry_wait"}
      /\ db'[u].status = "blocked" => db[u].status = "blocked" \/ u \notin Held(p)
      /\ u \in claimed \cup found => db'[u].status = "queued"
  <2> HIDE DEF taken, claimed, found
  <2>1. CASE u \in lost
    BY <1>6, <1>7, <1>u, <1>l, <2>1
  <2>2. CASE u \notin lost
    BY <1>3, <1>6, <1>7, <1>u, <2>2
  <2> QED BY <2>1, <2>2
<1>9. PICK q \in InOrder(found), c \in InOrder(claimed) : queue' = [queue EXCEPT ![p] = @ \o q \o c]
  BY <1>2
<1>10. q \in Seq(found) /\ c \in Seq(claimed) /\ queue[p] \in Seq(Tasks)
  <2>1. Cardinality(found) \in Nat /\ Cardinality(claimed) \in Nat
    BY <1>c, TaskAssumption, FS_Subset, FS_CardinalityType
  <2>2. queue[p] \in Seq(Tasks)
    BY DEF Shape
  <2> HIDE DEF found, claimed
  <2> QED BY <2>1, <2>2 DEF InOrder
<1>11. queue'[p] = queue[p] \o q \o c
  BY <1>9 DEF Shape
<1>12. u \in Range(queue'[p]) => u \in Range(queue[p]) \/ u \in claimed \cup found
  <2> HIDE DEF found, claimed
  <2>1. Range(q) \subseteq found /\ Range(c) \subseteq claimed
    BY <1>10 DEF Range
  <2>2. Range(queue[p] \o q \o c) \subseteq Range(queue[p]) \cup Range(q) \cup Range(c)
    <3>1. queue[p] \in Seq(Tasks) /\ q \in Seq(Tasks) /\ c \in Seq(Tasks)
      BY <1>10, <1>c
    <3>2. queue[p] \o q \in Seq(Tasks)
      BY <3>1
    <3>3. Range(queue[p] \o q) \subseteq Range(queue[p]) \cup Range(q)
      BY <3>1, RangeConcat
    <3> DEFINE qq == queue[p] \o q
    <3> HIDE DEF qq
    <3>4. qq \in Seq(Tasks)
      BY <3>2 DEF qq
    <3>5. Range(qq \o c) = Range(qq) \cup Range(c)
      BY <3>1, <3>4, RangeConcat
    <3> QED BY <3>3, <3>5 DEF qq
  <2> QED BY <1>11, <2>1, <2>2
<1> QED BY <1>8, <1>12

\* But for a start of the process, a state changes only while the task is not over,
\* and not to created or interrupted.
Moves(u) == \/ db'[u].status = db[u].status
            \/ db'[u].status \notin Fresh /\ db[u].status \notin Terminal

LEMMA StatusStep ==
    ASSUME Shape, [Next]_vars, \A p \in Procs : ~Start(p), NEW u \in Tasks
    PROVE  Moves(u)
<1>db. db \in [Tasks -> Record]
  BY DEF Shape
<1>wo. WorkersOK
  BY DEF Shape
<1>one. ASSUME NEW t, NEW r, db' = [db EXCEPT ![t] = r],
               t = u => r.status = db[u].status \/ (r.status \notin Fresh /\ db[u].status \notin Terminal)
        PROVE  Moves(u)
  BY <1>one, <1>db DEF Moves
<1>1. ASSUME NEW p \in Procs, NEW t \in Tasks, Submit(p, t) PROVE Moves(u)
  <2> DEFINE r == Move(db[t], "queued")
  <2>1. r.status = "queued" /\ db[t].status = "created" /\ db' = [db EXCEPT ![t] = r]
    BY <1>1, <1>db, MoveType, StatusNames DEF Submit
  <2> HIDE DEF r
  <2> QED BY <1>one, <2>1 DEF Fresh, Terminal
<1>2. ASSUME NEW p \in Procs, NEW t \in Tasks, Cancel(p, t) PROVE Moves(u)
  <2> DEFINE asked == [db[t] EXCEPT !.cancel = TRUE]
             r == IF asked.status \in {"queued", "retry_wait"} THEN Move(asked, "cancelled")
                  ELSE asked
             e == [r EXCEPT !.result = @ \/ r.status = "cancelled"]
  <2>1. asked \in Record
    BY <1>db, RecordUpdates
  <2>2. asked.status = db[t].status
    BY <1>db DEF Record
  <2>3. db' = [db EXCEPT ![t] = e]
    BY <1>2 DEF Cancel
  <2> HIDE DEF asked
  <2>4. /\ r \in Record
        /\ \/ r.status = db[t].status
           \/ r.status = "cancelled" /\ db[t].status \in {"queued", "retry_wait"}
    BY <2>1, <2>2, MoveType, StatusNames
  <2> HIDE DEF r
  <2>5. e.status = r.status
    BY <2>4 DEF Record
  <2> HIDE DEF e
  <2> QED BY <1>one, <2>3, <2>4, <2>5 DEF Fresh, Terminal
<1>3. ASSUME NEW p \in Procs, NEW t \in Tasks, Wait(p, t) \/ ReleaseQuarantine(p, t) PROVE Moves(u)
  BY <1>3 DEF Wait, ReleaseQuarantine, Moves
<1>4. ASSUME NEW p \in Procs, NEW t \in Tasks, RetryAfter(p, t) PROVE Moves(u)
  <2> DEFINE r == Move(db[t], "queued")
  <2>1. r.status = "queued"
    BY <1>db, MoveType, StatusNames
  <2>2. UNCHANGED db \/ (db[t].status = "retry_wait" /\ db' = [db EXCEPT ![t] = r])
    BY <1>4 DEF RetryAfter
  <2> HIDE DEF r
  <2> QED BY <1>one, <2>1, <2>2 DEF Fresh, Terminal, Moves
<1>5. ASSUME NEW p \in Procs, NEW w \in Workers, TakeTask(p, w) \/ EventWakes(p, w) PROVE Moves(u)
  BY <1>5 DEF TakeTask, EventWakes, Moves
<1>6. ASSUME NEW p \in Procs, NEW w \in Workers, EnterLock(p, w) PROVE Moves(u)
  <2> DEFINE t == worker[p][w].task
             r == [Move(db[t], "leased") EXCEPT !.owner = Me(p), !.lease = "valid"]
             e == TryMove(db[t], "cancelled", FALSE)
  <2>1. \/ db' = [db EXCEPT ![t] = r] /\ db[t].status = "queued"
        \/ db' = [db EXCEPT ![t] = e] /\ db[t].status \notin Terminal
        \/ db' = [db EXCEPT ![t] = db[t]]
    BY <1>6 DEF EnterLock, MayLease
  <2>2. t \in Tasks
    BY <1>6, <1>wo DEF EnterLock, WorkersOK
  <2>3. Move(db[t], "leased") \in Record /\ Move(db[t], "leased").status = "leased"
    BY <1>db, <2>2, MoveType, StatusNames
  <2>4. r.status = "leased"
    BY <2>3 DEF Record
  <2>5. e.status \in {db[t].status, "cancelled"}
    BY <1>db, <2>2, TryMoveStatus, StatusNames
  <2> HIDE DEF t, r, e
  <2> QED BY <1>one, <2>1, <2>4, <2>5 DEF Fresh, Terminal
<1>7. ASSUME NEW p \in Procs, NEW w \in Workers, StartRunning(p, w) PROVE Moves(u)
  <2> DEFINE t == worker[p][w].task
             r == [Move(db[t], "running") EXCEPT !.attempt = @ + 1]
  <2>1. UNCHANGED db \/ (Legal(db[t], "running") /\ db' = [db EXCEPT ![t] = r])
    BY <1>7 DEF StartRunning
  <2>2. t \in Tasks
    BY <1>7, <1>wo DEF StartRunning, WorkersOK
  <2>3. Move(db[t], "running") \in Record /\ Move(db[t], "running").status = "running"
    BY <1>db, <2>2, MoveType, StatusNames
  <2>4. r.status = "running"
    BY <2>3 DEF Record
  <2>5. Legal(db[t], "running") => db[t].status \notin Terminal
    BY <1>db, <2>2 DEF Legal, Allowed, Record, Status, Terminal, Active
  <2> HIDE DEF t, r
  <2> QED BY <1>one, <2>1, <2>4, <2>5 DEF Fresh, Moves
<1>8. ASSUME NEW p \in Procs, NEW w \in Workers, Finish(p, w) PROVE Moves(u)
  <2> DEFINE t == worker[p][w].task
             r == Move(db[t], "retry_wait")
             e(o) == TryMove(db[t], o, TRUE)
             O == {"completed", "failed", "blocked", "cancelled"}
  <2>1. \/ Legal(db[t], "retry_wait") /\ db' = [db EXCEPT ![t] = r]
        \/ \E o \in O : db' = [db EXCEPT ![t] = e(o)]
    BY <1>8 DEF Finish, MayRetry
  <2>2. t \in Tasks
    BY <1>8, <1>wo DEF Finish, WorkersOK
  <2>3. r.status = "retry_wait"
    BY <1>db, <2>2, MoveType, StatusNames
  <2>4. Legal(db[t], "retry_wait") => db[t].status \notin Terminal
    BY <1>db, <2>2 DEF Legal, Allowed, Record, Status, Terminal, Active
  <2>5. \A o \in O : /\ e(o).status \in {db[t].status, o}
                     /\ db[t].status \in Terminal => e(o).status = db[t].status
    BY <1>db, <2>2, TryMoveStatus, StatusNames
  <2>6. \A o \in O : o \notin Fresh
    BY DEF Fresh
  <2> HIDE DEF t, r, e, O
  <2> QED BY <1>one, <2>1, <2>3, <2>4, <2>5, <2>6 DEF Fresh
<1>9. ASSUME NEW p \in Procs, NEW w \in Workers, Timeout(p, w) PROVE Moves(u)
  <2> DEFINE t == worker[p][w].task
             e == TryMove(db[t], "timed_out", TRUE)
  <2>1. db' = [db EXCEPT ![t] = e]
    BY <1>9 DEF Timeout
  <2>2. t \in Tasks
    BY <1>9, <1>wo DEF Timeout, WorkersOK
  <2>3. /\ e.status \in {db[t].status, "timed_out"}
        /\ db[t].status \in Terminal => e.status = db[t].status
    BY <1>db, <2>2, TryMoveStatus, StatusNames
  <2> HIDE DEF t, e
  <2> QED BY <1>one, <2>1, <2>3 DEF Fresh
<1>10. ASSUME NEW p \in Procs, Resume(p) PROVE Moves(u)
  <2>1. \/ db'[u] = db[u]
        \/ db'[u].status \in {"queued", "blocked"} /\ db[u].status \in {"queued", "interrupted", "retry_wait"}
    BY <1>10, ResumedStatus
  <2> QED BY <2>1 DEF Moves, Fresh, Terminal
<1>11. ASSUME NEW p \in Procs, Stop(p) \/ Crash(p) PROVE Moves(u)
  <2>1. db'[u] = db[u] \/ db'[u] = [db[u] EXCEPT !.lease = "expired"]
    BY <1>11 DEF Stop, Crash
  <2>2. [db[u] EXCEPT !.lease = "expired"].status = db[u].status
    BY <1>db DEF Record
  <2> QED BY <2>1, <2>2 DEF Moves
<1>12. ASSUME NEW t \in Tasks, LeaseExpires(t) PROVE Moves(u)
  <2> DEFINE r == [db[t] EXCEPT !.lease = "expired"]
  <2>1. db' = [db EXCEPT ![t] = r] /\ r.status = db[t].status
    BY <1>12, <1>db DEF LeaseExpires, Record
  <2> HIDE DEF r
  <2> QED BY <1>one, <2>1
<1>13. CASE UNCHANGED vars
  BY <1>13 DEF vars, Moves
<1> QED BY <1>1, <1>2, <1>3, <1>4, <1>5, <1>6, <1>7, <1>8, <1>9, <1>10, <1>11, <1>12, <1>13
        DEF Next, Proceeds, Ends

LEMMA DownStep ==
    ASSUME Alone, Shape, RestOK, DownIsEmpty, [Next]_vars
    PROVE  DownIsEmpty'
<1> SUFFICES ASSUME NEW q \in Procs, alive'[q] = "down"
             PROVE  queue'[q] = <<>> /\ zombies'[q] = {} /\ \A w \in Workers : ~Inside(q, w)'
  BY DEF DownIsEmpty
<1>al. alive \in [Procs -> {"down", "up", "ready"}]
  BY DEF Shape, ProcsOK
<1>same. ASSUME UNCHANGED <<alive, queue, worker, zombies>>
         PROVE  queue'[q] = <<>> /\ zombies'[q] = {} /\ \A w \in Workers : ~Inside(q, w)'
  BY <1>same DEF DownIsEmpty, Inside
<1>busy. ASSUME NEW p \in Procs, alive[p] # "down", UNCHANGED alive PROVE FALSE
  BY <1>busy DEF Alone
<1>1. ASSUME NEW p \in Procs, NEW t \in Tasks,
             Submit(p, t) \/ Cancel(p, t) \/ Wait(p, t) \/ RetryAfter(p, t) \/ ReleaseQuarantine(p, t)
      PROVE  FALSE
  BY <1>1, <1>busy DEF Submit, Cancel, Wait, RetryAfter, ReleaseQuarantine, Free
<1>2. ASSUME NEW p \in Procs, NEW w \in Workers,
             TakeTask(p, w) \/ EventWakes(p, w) \/ EnterLock(p, w) \/ Finish(p, w) \/ Timeout(p, w)
      PROVE  FALSE
  BY <1>2, <1>busy DEF TakeTask, EventWakes, EnterLock, Finish, Timeout, Free
<1>3. ASSUME NEW p \in Procs, NEW w \in Workers, StartRunning(p, w) PROVE FALSE
  BY <1>3, <1>busy DEF StartRunning, DownIsEmpty, Inside
<1>4. ASSUME NEW p \in Procs, Start(p) \/ Resume(p) PROVE FALSE
  <2>1. alive'[p] \in {"up", "ready"}
    BY <1>4, <1>al DEF Start, Resume
  <2> QED BY <2>1 DEF Alone
<1>5. ASSUME NEW p \in Procs, Stop(p) \/ Crash(p)
      PROVE  queue'[q] = <<>> /\ zombies'[q] = {} /\ \A w \in Workers : ~Inside(q, w)'
  <2>1. p = q /\ Forget(p)
    BY <1>5 DEF Alone, Stop, Crash
  <2>2. queue \in [Procs -> Seq(Tasks)] /\ worker \in [Procs -> [Workers -> WorkerType]]
    BY DEF Shape, WorkersOK
  <2>3. queue'[p] = <<>> /\ worker'[p] = [w \in Workers |-> Idle]
    BY <2>1, <2>2 DEF Forget
  <2>4. zombies'[p] = {}
    BY <2>1 DEF Forget, RestOK
  <2> QED BY <2>1, <2>3, <2>4, IdleType DEF Inside
<1>6. ASSUME NEW t \in Tasks, LeaseExpires(t) PROVE UNCHANGED <<alive, queue, worker, zombies>>
  BY <1>6 DEF LeaseExpires, memory
<1>7. CASE UNCHANGED vars
  BY <1>7, <1>same DEF vars, memory
<1> QED BY <1>1, <1>2, <1>3, <1>4, <1>5, <1>6, <1>7, <1>same DEF Next, Proceeds, Ends

LEMMA KnownStep ==
    ASSUME Alone, Shape, DownIsEmpty, KnownIsQueued, [Next]_vars
    PROVE  KnownIsQueued'
<1>wo. WorkersOK
  BY DEF Shape
<1>qu. queue \in [Procs -> Seq(Tasks)]
  BY DEF Shape
<1>db. db \in [Tasks -> Record]
  BY DEF Shape
<1> SUFFICES ASSUME NEW q \in Procs, NEW u \in Tasks, Knows(q, u)'
             PROVE  db'[u].status \notin Fresh
  BY DEF KnownIsQueued
<1> DEFINE Fine == Knows(q, u) \/ db'[u].status = "queued"
<1>less. ASSUME Range(queue'[q]) \subseteq Range(queue[q]),
                \A v \in Workers : Inside(q, v)' => /\ Inside(q, v)
                                                    /\ worker'[q][v].task = worker[q][v].task
         PROVE  Fine
  BY <1>less DEF Knows
<1>stay. ASSUME AllStay, UNCHANGED queue PROVE Fine
  BY <1>stay, <1>less DEF AllStay, Inside
<1>1. ASSUME NEW p \in Procs, Start(p) PROVE FALSE
  <2>1. p = q /\ alive[q] = "down" /\ UNCHANGED <<queue, worker>>
    BY <1>1 DEF Alone, Start, memory
  <2>2. queue'[q] = <<>> /\ \A v \in Workers : ~Inside(q, v)'
    BY <2>1 DEF DownIsEmpty, Inside
  <2>3. Range(<<>>) = {}
    BY DEF Range
  <2> QED BY <2>2, <2>3 DEF Knows
<1>2. ASSUME NEW p \in Procs, NEW t \in Tasks, Submit(p, t) \/ RetryAfter(p, t) PROVE Fine
  <2>1. UNCHANGED worker
    BY <1>2 DEF Submit, RetryAfter
  <2>2. CASE UNCHANGED queue
    BY <2>1, <2>2, <1>stay DEF AllStay
  <2>3. CASE queue' = [queue EXCEPT ![p] = Append(@, t)] /\ db' = [db EXCEPT ![t] = Move(@, "queued")]
    <3>1. p = q /\ queue'[q] = Append(queue[q], t)
      BY <2>3, <1>qu DEF Alone
    <3>2. Range(queue'[q]) = Range(queue[q]) \cup {t}
      BY <3>1, <1>qu, RangeAppend
    <3>3. db'[t].status = "queued"
      BY <2>3, <1>db, MoveType, StatusNames
    <3>4. u \in Range(queue'[q]) => u \in Range(queue[q]) \/ u = t
      BY <3>2
    <3> QED BY <2>1, <3>3, <3>4 DEF Knows, Inside
  <2> QED BY <1>2, <2>2, <2>3 DEF Submit, RetryAfter
<1>3. ASSUME NEW p \in Procs, NEW t \in Tasks, Cancel(p, t) \/ Wait(p, t) \/ ReleaseQuarantine(p, t)
      PROVE  Fine
  <2>1. AllStay
    BY <1>3, <1>wo, CancelStays DEF Wait, ReleaseQuarantine, AllStay
  <2>2. UNCHANGED queue
    BY <1>3 DEF Cancel, Wait, ReleaseQuarantine
  <2> QED BY <2>1, <2>2, <1>stay
<1>4. ASSUME NEW p \in Procs, NEW w \in Workers, TakeTask(p, w) PROVE Fine
  <2> DEFINE t == Head(queue[p])
             r(c) == [pc |-> c, task |-> t, event |-> "current"]
  <2>1. /\ p = q /\ queue[p] # <<>> /\ queue[p] \in Seq(Tasks) /\ queue'[q] = Tail(queue[p])
        /\ worker' = worker \/ SetWorker(p, w, r("lock")) \/ SetWorker(p, w, r("event"))
    BY <1>4, <1>qu DEF TakeTask, Alone
  <2>2. Range(queue'[q]) \subseteq Range(queue[q]) /\ t \in Range(queue[q])
    BY <2>1, RangeTail
  <2>3. CASE worker' = worker
    BY <2>2, <2>3, <1>less DEF Inside
  <2>4. ASSUME NEW c \in {"lock", "event"}, SetWorker(p, w, r(c)) PROVE Fine
    <3>1. worker'[p][w].task = t /\ \A v \in Workers \ {w} : worker'[p][v] = worker[p][v]
      BY <2>4, <1>wo DEF SetWorker, WorkersOK
    <3> HIDE DEF t
    <3> QED BY <2>1, <2>2, <3>1 DEF Knows, Inside
  <2> QED BY <2>1, <2>3, <2>4
<1>5. ASSUME NEW p \in Procs, NEW w \in Workers, EventWakes(p, w) PROVE Fine
  <2>1. worker[p][w].pc # "idle" /\ worker' = [worker EXCEPT ![p][w].pc = "lock"] /\ UNCHANGED queue
    BY <1>5 DEF EventWakes
  <2>2. worker'[p][w].task = worker[p][w].task /\ OthersStay(p, w)
    BY <1>wo, <2>1, OneGoesOn
  <2> QED BY <2>1, <2>2, <1>less DEF OthersStay, Inside
<1>6. ASSUME NEW p \in Procs, NEW w \in Workers, EnterLock(p, w) PROVE Fine
  <2> DEFINE t == worker[p][w].task
  <2>1. /\ p = q /\ worker[p][w].pc # "idle" /\ Knows(q, t) /\ t \in Tasks
        /\ \/ worker' = [worker EXCEPT ![p][w].pc = "leased"]
           \/ SetWorker(p, w, Idle)
        /\ queue' = queue \/ queue' = [queue EXCEPT ![p] = Append(@, t)]
    BY <1>6, <1>wo DEF EnterLock, Alone, Knows, Inside, WorkersOK
  <2>2. \A v \in Workers : Inside(q, v)' => Inside(q, v) /\ worker'[q][v].task = worker[q][v].task
    <3>1. CASE worker' = [worker EXCEPT ![p][w].pc = "leased"]
      <4>1. worker'[p][w].task = worker[p][w].task /\ OthersStay(p, w)
        BY <1>wo, <2>1, <3>1, OneGoesOn, ZenonT(40)
      <4> QED BY <2>1, <4>1 DEF OthersStay, Inside
    <3>2. CASE SetWorker(p, w, Idle)
      <4>1. worker'[p][w].pc = "idle" /\ OthersStay(p, w)
        BY <1>wo, <3>2, OneIsIdle
      <4> QED BY <2>1, <4>1 DEF OthersStay, Inside
    <3> QED BY <2>1, <3>1, <3>2
  <2>3. u \in Range(queue'[q]) => u \in Range(queue[q]) \/ u = t
    <3>1. CASE queue' = queue
      BY <3>1
    <3>2. CASE queue' = [queue EXCEPT ![p] = Append(@, t)]
      <4>1. queue'[q] = Append(queue[q], t) /\ queue[q] \in Seq(Tasks)
        BY <2>1, <3>2, <1>qu
      <4> QED BY <4>1, RangeAppend
    <3> QED BY <2>1, <3>1, <3>2
  <2> HIDE DEF t
  <2>4. CASE u \in Range(queue'[q])
    BY <2>1, <2>3, <2>4 DEF Knows
  <2>5. CASE \E v \in Workers : Inside(q, v)' /\ worker'[q][v].task = u
    BY <2>2, <2>5 DEF Knows
  <2> QED BY <2>4, <2>5 DEF Knows
<1>7. ASSUME NEW p \in Procs, NEW w \in Workers, StartRunning(p, w) PROVE Fine
  <2>1. /\ worker[p][w].pc # "idle" /\ UNCHANGED queue
        /\ worker' = [worker EXCEPT ![p][w].pc = "run"] \/ SetWorker(p, w, Idle)
    BY <1>7 DEF StartRunning
  <2>2. CASE worker' = [worker EXCEPT ![p][w].pc = "run"]
    <3>1. worker'[p][w].task = worker[p][w].task /\ OthersStay(p, w)
      BY <1>wo, <2>1, <2>2, OneGoesOn, ZenonT(40)
    <3> QED BY <2>1, <3>1, <1>less DEF OthersStay, Inside
  <2>3. CASE SetWorker(p, w, Idle)
    <3>1. worker'[p][w].pc = "idle" /\ OthersStay(p, w)
      BY <1>wo, <2>3, OneIsIdle
    <3> QED BY <2>1, <3>1, <1>less DEF OthersStay, Inside
  <2> QED BY <2>1, <2>2, <2>3
<1>8. ASSUME NEW p \in Procs, NEW w \in Workers, Finish(p, w) \/ Timeout(p, w) PROVE Fine
  <2>1. UNCHANGED queue
    BY <1>8 DEF Finish, Timeout
  <2>2. worker'[p][w].pc = "idle" /\ OthersStay(p, w)
    BY <1>8, <1>wo, OneEnds
  <2> QED BY <2>1, <2>2, <1>less DEF OthersStay, Inside
<1>9. ASSUME NEW p \in Procs, Resume(p) PROVE Fine
  <2>1. p = q /\ UNCHANGED worker
    BY <1>9 DEF Alone, Resume
  <2>2. u \in Range(queue'[q]) => u \in Range(queue[q]) \/ db'[u].status = "queued"
    BY <1>9, <2>1, ResumedStatus
  <2> QED BY <2>1, <2>2 DEF Knows, Inside
<1>10. ASSUME NEW p \in Procs, Stop(p) \/ Crash(p) PROVE FALSE
  <2>1. p = q /\ Forget(p)
    BY <1>10 DEF Alone, Stop, Crash
  <2>2. queue'[q] = <<>> /\ worker'[q] = [w \in Workers |-> Idle]
    BY <2>1, <1>qu, <1>wo DEF Forget, WorkersOK
  <2>3. Range(<<>>) = {}
    BY DEF Range
  <2> QED BY <2>2, <2>3, IdleType DEF Knows, Inside
<1>11. ASSUME NEW t \in Tasks, LeaseExpires(t) PROVE Fine
  BY <1>11, <1>stay DEF LeaseExpires, memory, AllStay
<1>12. ASSUME UNCHANGED vars PROVE Fine
  <2>1. UNCHANGED <<worker, queue>>
    BY <1>12 DEF vars, memory
  <2> QED BY <2>1, <1>stay DEF AllStay
<1>13. Fine
  <2> HIDE DEF Fine
  <2> QED BY <1>1, <1>2, <1>3, <1>4, <1>5, <1>6, <1>7, <1>8, <1>9, <1>10, <1>11, <1>12
  DEF Next, Proceeds, Ends
<1>14. Moves(u)
  BY <1>1, StatusStep
<1> QED BY <1>13, <1>14 DEF Moves, KnownIsQueued, Fresh

\* A worker's event is dropped only when the session has no active task left.
LEMMA PruneDrops ==
    ASSUME WorkersOK, NEW p \in Procs, NEW s, NEW d, NEW ws \in [Workers -> WorkerType],
           PruneWorkers(p, s, d, ws), NEW v \in Workers
    PROVE  \/ worker'[p][v] = ws[v]
           \/ NoActiveTask(s, d) /\ SessionOf[worker'[p][v].task] = s
<1>1. worker'[p] = IF NoActiveTask(s, d) THEN KeepOldEvent(p, s, ws) ELSE ws
  BY DEF PruneWorkers, WorkersOK
<1>2. CASE NoActiveTask(s, d)
  <2>1. worker'[p][v] = KeepOldEvent(p, s, ws)[v] /\ worker'[p][v].task = ws[v].task
    BY <1>1, <1>2, EventsOnly
  <2> QED BY <1>2, <2>1 DEF KeepOldEvent
<1>3. CASE ~NoActiveTask(s, d)
  BY <1>1, <1>3
<1> QED BY <1>2, <1>3

LEMMA OldStep ==
    ASSUME Alone, Shape, Shape', DownIsEmpty, OldIsOver, KnownIsQueued', [Next]_vars
    PROVE  OldIsOver'
<1>wo. WorkersOK
  BY DEF Shape
<1>db. db' \in [Tasks -> Record]
  BY DEF Shape
<1> SUFFICES ASSUME NEW q \in Procs, NEW v \in Workers, Inside(q, v)', worker'[q][v].event # "current"
             PROVE  db'[worker'[q][v].task].status \in Terminal
  BY DEF OldIsOver
<1>v. PICK u \in Tasks : u = worker'[q][v].task
  BY DEF Shape, WorkersOK, Inside
<1> DEFINE Fine == \/ Inside(q, v) /\ worker'[q][v].event = worker[q][v].event
                                   /\ worker'[q][v].task = worker[q][v].task
                   \/ db'[u].status \notin Active
<1>u. Knows(q, u)'
  BY <1>v DEF Knows
<1>same. ASSUME UNCHANGED worker PROVE Fine
  BY <1>same DEF Inside
<1>1. ASSUME NEW p \in Procs, Start(p) PROVE FALSE
  <2>1. p = q /\ alive[q] = "down" /\ UNCHANGED worker
    BY <1>1 DEF Alone, Start, memory
  <2> QED BY <2>1 DEF DownIsEmpty, Inside
<1>2. ASSUME NEW p \in Procs, NEW t \in Tasks,
             Submit(p, t) \/ RetryAfter(p, t) \/ Wait(p, t) \/ ReleaseQuarantine(p, t)
      PROVE  Fine
  BY <1>2, <1>same DEF Submit, RetryAfter, Wait, ReleaseQuarantine
<1>prune. ASSUME NEW p \in Procs, NEW s, NEW ws \in [Workers -> WorkerType],
                 \A x \in Workers : ws[x] = worker[p][x] \/ ws[x] = Idle,
                 PruneWorkers(p, s, db', ws)
          PROVE  Fine
  <2>1. p = q
    BY DEF Alone
  <2>2. worker'[p][v].pc = ws[v].pc /\ worker'[p][v].task = ws[v].task
    BY <1>wo, <1>prune, PruneKeeps
  <2>3. ws[v] = worker[p][v] /\ Inside(q, v)
    BY <1>prune, <2>1, <2>2, IdleType DEF Inside
  <2>4. CASE worker'[p][v] = ws[v]
    BY <2>1, <2>3, <2>4
  <2>5. CASE NoActiveTask(s, db') /\ SessionOf[worker'[p][v].task] = s
    BY <1>v, <2>1, <2>5 DEF NoActiveTask
  <2> QED BY <1>wo, <1>prune, <2>4, <2>5, PruneDrops
<1>3. ASSUME NEW p \in Procs, NEW t \in Tasks, Cancel(p, t) PROVE Fine
  <2>1. UNCHANGED worker \/ PruneWorkers(p, SessionOf[t], db', worker[p])
    BY <1>3 DEF Cancel, Complete
  <2>2. worker[p] \in [Workers -> WorkerType]
    BY <1>wo DEF WorkersOK
  <2> QED BY <2>1, <2>2, <1>same, <1>prune
<1>4. ASSUME NEW p \in Procs, NEW w \in Workers, TakeTask(p, w) PROVE Fine
  <2> DEFINE r(c) == [pc |-> c, task |-> Head(queue[p]), event |-> "current"]
  <2>1. p = q /\ (worker' = worker \/ SetWorker(p, w, r("lock")) \/ SetWorker(p, w, r("event")))
    BY <1>4 DEF TakeTask, Alone
  <2>2. ASSUME NEW c \in {"lock", "event"}, SetWorker(p, w, r(c)) PROVE Fine
    <3>1. worker'[p][w].event = "current" /\ \A x \in Workers \ {w} : worker'[p][x] = worker[p][x]
      BY <2>2, <1>wo DEF SetWorker, WorkersOK
    <3>2. v # w
      BY <2>1, <3>1
    <3>3. worker'[q][v] = worker[q][v]
      BY <2>1, <3>1, <3>2
    <3> QED BY <3>3 DEF Inside
  <2> QED BY <2>1, <2>2, <1>same
<1>on. ASSUME NEW p \in Procs, NEW w \in Workers, worker[p][w].pc # "idle",
              NEW c \in {"lock", "leased", "run"}, worker' = [worker EXCEPT ![p][w].pc = c]
       PROVE  Fine
  <2>1. /\ worker'[p][w].task = worker[p][w].task /\ worker'[p][w].event = worker[p][w].event
        /\ \A x \in Procs, y \in Workers : x # p \/ y # w => worker'[x][y] = worker[x][y]
    BY <1>wo, <1>on, OneGoesOn
  <2> QED BY <1>on, <2>1 DEF Inside
<1>idle. ASSUME NEW p \in Procs, NEW w \in Workers, SetWorker(p, w, Idle) PROVE Fine
  <2>1. /\ worker'[p][w].pc = "idle"
        /\ \A x \in Procs, y \in Workers : x # p \/ y # w => worker'[x][y] = worker[x][y]
    BY <1>wo, <1>idle, OneIsIdle
  <2> QED BY <2>1 DEF Inside
<1>5. ASSUME NEW p \in Procs, NEW w \in Workers, EventWakes(p, w) PROVE Fine
  BY <1>5, <1>on DEF EventWakes
<1>6. ASSUME NEW p \in Procs, NEW w \in Workers, EnterLock(p, w) PROVE Fine
  <2>1. /\ worker[p][w].pc # "idle"
        /\ worker' = [worker EXCEPT ![p][w].pc = "leased"] \/ SetWorker(p, w, Idle)
    BY <1>6 DEF EnterLock
  <2> QED BY <2>1, <1>on, <1>idle
<1>7. ASSUME NEW p \in Procs, NEW w \in Workers, StartRunning(p, w) PROVE Fine
  <2>1. /\ worker[p][w].pc # "idle"
        /\ worker' = [worker EXCEPT ![p][w].pc = "run"] \/ SetWorker(p, w, Idle)
    BY <1>7 DEF StartRunning
  <2> QED BY <2>1, <1>on, <1>idle
<1>8. ASSUME NEW p \in Procs, NEW w \in Workers, Finish(p, w) \/ Timeout(p, w) PROVE Fine
  <2> DEFINE ws == [worker[p] EXCEPT ![w] = Idle]
  <2>1. \/ SetWorker(p, w, Idle)
        \/ PruneWorkers(p, SessionOf[worker[p][w].task], db', ws)
    BY <1>8 DEF Finish, Timeout, Complete, Session
  <2>2. /\ ws \in [Workers -> WorkerType]
        /\ \A x \in Workers : ws[x] = worker[p][x] \/ ws[x] = Idle
    BY <1>wo, IdleType DEF WorkersOK
  <2> HIDE DEF ws
  <2> QED BY <2>1, <2>2, <1>prune, <1>idle
<1>9. ASSUME NEW p \in Procs, Resume(p) PROVE Fine
  BY <1>9, <1>same DEF Resume
<1>10. ASSUME NEW p \in Procs, Stop(p) \/ Crash(p) PROVE FALSE
  <2>1. p = q /\ Forget(p)
    BY <1>10 DEF Alone, Stop, Crash
  <2>2. worker'[q] = [w \in Workers |-> Idle]
    BY <2>1, <1>wo DEF Forget, WorkersOK
  <2> QED BY <2>2, IdleType DEF Inside
<1>11. ASSUME NEW t \in Tasks, LeaseExpires(t) PROVE Fine
  BY <1>11, <1>same DEF LeaseExpires, memory
<1>12. ASSUME UNCHANGED vars PROVE Fine
  BY <1>12, <1>same DEF vars, memory
<1>13. Fine
  <2> HIDE DEF Fine
  <2> QED BY <1>1, <1>2, <1>3, <1>4, <1>5, <1>6, <1>7, <1>8, <1>9, <1>10, <1>11, <1>12
          DEF Next, Proceeds, Ends
<1>14. Moves(u)
  BY <1>1, <1>u, StatusStep
<1>15. CASE db'[u].status \notin Active
  <2>1. db'[u].status \in Status /\ db'[u].status \notin Fresh
    BY <1>db, <1>u DEF Record, KnownIsQueued
  <2> QED BY <1>v, <2>1, <1>15 DEF Status, Fresh
<1>16. CASE /\ Inside(q, v) /\ worker'[q][v].event = worker[q][v].event
            /\ worker'[q][v].task = worker[q][v].task
  BY <1>v, <1>14, <1>16 DEF OldIsOver, Moves
<1> QED BY <1>v, <1>13, <1>15, <1>16

LEMMA OneOrNone ==
    ASSUME NEW S, \A x, y \in S : x = y
    PROVE  Cardinality(S) \in Int
<1>1. CASE S = {}
  BY <1>1, FS_EmptySet
<1>2. CASE S # {}
  <2>1. PICK x \in S : S = {x}
    BY <1>2
  <2> QED BY <2>1, FS_Singleton
<1> QED BY <1>1, <1>2

LEMMA QuarantineStep ==
    ASSUME Alone, MaxCancels = 0, Shape, LockInv, RestOK, OldIsOver, QuarantineOK, [Next]_vars
    PROVE  QuarantineOK'
<1>wo. WorkersOK
  BY DEF Shape
<1>up. up \in [Procs -> [Sessions -> BOOLEAN]]
  BY DEF RestOK
<1>zo. zombies \in [Procs -> SUBSET Tasks]
  BY DEF RestOK
<1>se. \A t \in Tasks : SessionOf[t] \in Sessions
  BY TaskAssumption
<1> DEFINE Stay(q, v) == Holds(q, v)' => Holds(q, v) /\ Session(q, v)' = Session(q, v)
<1>same. ASSUME UNCHANGED <<up, zombies>>, \A q \in Procs, v \in Workers : Stay(q, v)
         PROVE  QuarantineOK'
  BY <1>same DEF QuarantineOK
<1>quiet. ASSUME UNCHANGED <<up, zombies, worker>> PROVE QuarantineOK'
  BY <1>quiet, <1>same DEF Holds, Session
<1>others. ASSUME NEW p \in Procs, NEW w \in Workers, OthersStay(p, w)
           PROVE  \A q \in Procs, v \in Workers : q # p \/ v # w => Stay(q, v)
  BY <1>others DEF OthersStay, Holds, Session
<1>1. ASSUME NEW p \in Procs, NEW t \in Tasks, Submit(p, t) \/ RetryAfter(p, t) \/ Wait(p, t)
      PROVE  QuarantineOK'
  BY <1>1, <1>quiet DEF Submit, RetryAfter, Wait
<1>2. ASSUME NEW p \in Procs, NEW t \in Tasks, Cancel(p, t) PROVE FALSE
  BY <1>2, TaskAssumption DEF Cancel, RestOK
<1>3. ASSUME NEW p \in Procs, NEW t \in Tasks, ReleaseQuarantine(p, t) PROVE QuarantineOK'
  <2>1. /\ t \in zombies[p] /\ UNCHANGED worker
        /\ zombies' = [zombies EXCEPT ![p] = @ \ {t}]
        /\ up' = [up EXCEPT ![p][SessionOf[t]] = TRUE]
    BY <1>3 DEF ReleaseQuarantine
  <2> SUFFICES ASSUME NEW q \in Procs, NEW u \in zombies'[q]
               PROVE  /\ ~up'[q][SessionOf[u]]
                      /\ \A w \in Workers : Holds(q, w)' => Session(q, w)' # SessionOf[u]
                      /\ \A x \in zombies'[q] : SessionOf[x] = SessionOf[u] => x = u
    BY DEF QuarantineOK
  <2>2. p = q /\ zombies'[q] = zombies[q] \ {t}
    BY <2>1, <1>zo DEF Alone
  <2>3. SessionOf[u] # SessionOf[t]
    BY <2>1, <2>2 DEF QuarantineOK
  <2>4. up'[q][SessionOf[u]] = up[q][SessionOf[u]]
    BY <2>1, <2>3, <1>up, <1>se
  <2> QED BY <2>1, <2>2, <2>4 DEF QuarantineOK, Holds, Session
<1>4. ASSUME NEW p \in Procs, NEW w \in Workers, TakeTask(p, w) PROVE QuarantineOK'
  <2> DEFINE r(c) == [pc |-> c, task |-> Head(queue[p]), event |-> "current"]
  <2>1. /\ UNCHANGED <<up, zombies>>
        /\ worker' = worker \/ SetWorker(p, w, r("lock")) \/ SetWorker(p, w, r("event"))
    BY <1>4 DEF TakeTask
  <2>2. ASSUME NEW c \in {"lock", "event"}, SetWorker(p, w, r(c)) PROVE QuarantineOK'
    <3>1. /\ worker'[p][w].pc = c
          /\ \A q \in Procs, v \in Workers : q # p \/ v # w => worker'[q][v] = worker[q][v]
      BY <2>2, <1>wo DEF SetWorker, WorkersOK
    <3>2. OthersStay(p, w) /\ ~Holds(p, w)'
      BY <3>1 DEF OthersStay, Holds
    <3> QED BY <2>1, <3>2, <1>same, <1>others
  <2> QED BY <2>1, <2>2, <1>quiet
<1>on. ASSUME NEW p \in Procs, NEW w \in Workers, worker[p][w].pc # "idle", UNCHANGED <<up, zombies>>,
              NEW c \in {"lock", "leased", "run"}, worker' = [worker EXCEPT ![p][w].pc = c],
              c = "lock" \/ Holds(p, w)
       PROVE  QuarantineOK'
  <2>1. worker'[p][w].pc = c /\ worker'[p][w].task = worker[p][w].task /\ OthersStay(p, w)
    BY <1>wo, <1>on, OneGoesOn, ZenonT(40)
  <2>2. Stay(p, w)
    BY <1>on, <2>1 DEF Holds, Session
  <2> QED BY <1>on, <2>1, <2>2, <1>same, <1>others
<1>idle. ASSUME NEW p \in Procs, NEW w \in Workers, SetWorker(p, w, Idle), UNCHANGED <<up, zombies>>
         PROVE  QuarantineOK'
  <2>1. worker'[p][w].pc = "idle" /\ OthersStay(p, w)
    BY <1>wo, <1>idle, OneIsIdle
  <2>2. Stay(p, w)
    BY <2>1 DEF Holds
  <2> QED BY <1>idle, <2>1, <2>2, <1>same, <1>others
<1>5. ASSUME NEW p \in Procs, NEW w \in Workers, EventWakes(p, w) PROVE QuarantineOK'
  BY <1>5, <1>on DEF EventWakes
<1>6. ASSUME NEW p \in Procs, NEW w \in Workers, EnterLock(p, w) PROVE QuarantineOK'
  <2> DEFINE s == Session(p, w)
  <2>1. /\ worker[p][w].pc = "lock" /\ UNCHANGED <<up, zombies>>
        /\ \/ /\ EventIsSet(p, w) /\ db[worker[p][w].task].status \notin Terminal
              /\ worker' = [worker EXCEPT ![p][w].pc = "leased"]
           \/ SetWorker(p, w, Idle)
    BY <1>6 DEF EnterLock, StillAvailable
  <2>2. CASE /\ EventIsSet(p, w) /\ db[worker[p][w].task].status \notin Terminal
             /\ worker' = [worker EXCEPT ![p][w].pc = "leased"]
    <3>1. up[p][s]
      BY <2>1, <2>2 DEF OldIsOver, Inside, EventIsSet
    <3>2. worker'[p][w].task = worker[p][w].task /\ OthersStay(p, w)
      BY <1>wo, <2>1, <2>2, OneGoesOn, ZenonT(40)
    <3>3. Session(p, w)' = s
      BY <3>2 DEF Session
    <3>4. \A t \in zombies[p] : SessionOf[t] # s
      BY <3>1 DEF QuarantineOK
    <3>5. ASSUME NEW q \in Procs, NEW t \in zombies'[q], NEW v \in Workers, Holds(q, v)'
          PROVE  Session(q, v)' # SessionOf[t]
      <4>1. CASE q = p /\ v = w
        BY <2>1, <3>3, <3>4, <3>5, <4>1
      <4>2. CASE q # p \/ v # w
        BY <2>1, <3>2, <3>5, <4>2, <1>others DEF QuarantineOK
      <4> QED BY <4>1, <4>2
    <3> QED BY <2>1, <3>5 DEF QuarantineOK
  <2> QED BY <2>1, <2>2, <1>idle
<1>7. ASSUME NEW p \in Procs, NEW w \in Workers, StartRunning(p, w) PROVE QuarantineOK'
  <2>1. /\ worker[p][w].pc = "leased" /\ UNCHANGED <<up, zombies>>
        /\ worker' = [worker EXCEPT ![p][w].pc = "run"] \/ SetWorker(p, w, Idle)
    BY <1>7 DEF StartRunning
  <2>2. Holds(p, w)
    BY <2>1 DEF Holds
  <2> QED BY <2>1, <2>2, <1>on, <1>idle
<1>ends. ASSUME NEW p \in Procs, NEW w \in Workers, worker[p][w].pc = "run",
                Finish(p, w) \/ Timeout(p, w)
         PROVE  /\ Holds(p, w) /\ Session(p, w) \in Sessions
                /\ \A q \in Procs, v \in Workers :
                     Stay(q, v) /\ (Holds(q, v)' => Session(q, v) # Session(p, w))
                /\ \A t \in zombies[p] : SessionOf[t] # Session(p, w)
  <2>1. Holds(p, w) /\ Session(p, w) \in Sessions
    BY <1>ends, <1>wo, HasSession DEF Holds
  <2>2. worker'[p][w].pc = "idle" /\ OthersStay(p, w)
    BY <1>ends, <1>wo, OneEnds
  <2>3. ASSUME NEW q \in Procs, NEW v \in Workers
        PROVE  Stay(q, v) /\ (Holds(q, v)' => Session(q, v) # Session(p, w))
    <3>1. CASE q = p /\ v = w
      BY <2>2, <3>1 DEF Holds
    <3>2. CASE q # p \/ v # w
      <4>1. Stay(q, v)
        BY <2>2, <3>2, <1>others
      <4>2. ASSUME Holds(q, v), Session(q, v) = Session(p, w) PROVE FALSE
        BY <2>1, <3>2, <4>2 DEF LockInv, HolderIsFirst, Alone
      <4> QED BY <4>1, <4>2
    <3> QED BY <3>1, <3>2
  <2> QED BY <2>1, <2>3 DEF QuarantineOK
<1>8. ASSUME NEW p \in Procs, NEW w \in Workers, Finish(p, w) PROVE QuarantineOK'
  <2> DEFINE s == SessionOf[worker[p][w].task]
  <2>1. /\ worker[p][w].pc = "run" /\ UNCHANGED zombies
        /\ up' = up \/ up' = [up EXCEPT ![p][s] = TRUE]
    BY <1>8 DEF Finish, Complete, PruneEvent
  <2>2. /\ \A q \in Procs, v \in Workers : Stay(q, v)
        /\ s \in Sessions /\ \A t \in zombies[p] : SessionOf[t] # s
    BY <1>8, <2>1, <1>ends DEF Session
  <2>3. ASSUME NEW q \in Procs, NEW t \in zombies[q] PROVE ~up'[q][SessionOf[t]]
    <3>1. t \in Tasks /\ p = q /\ SessionOf[t] # s
      BY <1>zo, <2>2 DEF Alone
    <3>2. up'[q][SessionOf[t]] = up[q][SessionOf[t]]
      BY <2>1, <2>2, <3>1, <1>up, <1>se
    <3> QED BY <3>2 DEF QuarantineOK
  <2> QED BY <2>1, <2>2, <2>3 DEF QuarantineOK
<1>9. ASSUME NEW p \in Procs, NEW w \in Workers, Timeout(p, w) PROVE QuarantineOK'
  <2> DEFINE t == worker[p][w].task
             s == SessionOf[t]
  <2>1. /\ worker[p][w].pc = "run" /\ t \in Tasks
        /\ zombies' = [zombies EXCEPT ![p] = @ \cup {t}]
        /\ up' = [up EXCEPT ![p][s] = FALSE]
    BY <1>9, <1>wo DEF Timeout, Session, WorkersOK
  <2>2. /\ \A q \in Procs, v \in Workers : Stay(q, v) /\ (Holds(q, v)' => Session(q, v) # s)
        /\ s \in Sessions /\ \A u \in zombies[p] : SessionOf[u] # s
    BY <1>9, <2>1, <1>ends DEF Session
  <2> SUFFICES ASSUME NEW q \in Procs, NEW u \in zombies'[q]
               PROVE  /\ ~up'[q][SessionOf[u]]
                      /\ \A v \in Workers : Holds(q, v)' => Session(q, v)' # SessionOf[u]
                      /\ \A x \in zombies'[q] : SessionOf[x] = SessionOf[u] => x = u
    BY DEF QuarantineOK
  <2>3. p = q /\ zombies'[q] = zombies[q] \cup {t} /\ zombies[q] \subseteq Tasks
    BY <2>1, <1>zo DEF Alone
  <2>4. u \in Tasks /\ (u = t \/ u \in zombies[q])
    BY <2>1, <2>3
  <2>5. ~up'[q][SessionOf[u]]
    <3>1. up'[q][SessionOf[u]] = IF SessionOf[u] = s THEN FALSE ELSE up[q][SessionOf[u]]
      BY <2>1, <2>2, <2>3, <2>4, <1>up, <1>se
    <3> QED BY <2>4, <3>1 DEF QuarantineOK
  <2>6. ASSUME NEW v \in Workers, Holds(q, v)' PROVE Session(q, v)' # SessionOf[u]
    BY <2>2, <2>4, <2>6 DEF QuarantineOK
  <2>7. ASSUME NEW x \in zombies'[q], SessionOf[x] = SessionOf[u] PROVE x = u
    BY <2>2, <2>3, <2>4, <2>7 DEF QuarantineOK
  <2> QED BY <2>5, <2>6, <2>7
<1>10. ASSUME NEW p \in Procs, Start(p) \/ Resume(p) PROVE QuarantineOK'
  BY <1>10, <1>quiet DEF Start, Resume, memory
<1>11. ASSUME NEW p \in Procs, Stop(p) \/ Crash(p) PROVE QuarantineOK'
  <2>1. Forget(p)
    BY <1>11 DEF Stop, Crash
  <2>2. \A q \in Procs : zombies'[q] = {}
    BY <2>1, <1>zo DEF Forget, Alone
  <2> QED BY <2>2 DEF QuarantineOK
<1>12. ASSUME NEW t \in Tasks, LeaseExpires(t) PROVE QuarantineOK'
  BY <1>12, <1>quiet DEF LeaseExpires, memory
<1>13. CASE UNCHANGED vars
  BY <1>13, <1>quiet DEF vars, memory
<1> QED BY <1>1, <1>2, <1>3, <1>4, <1>5, <1>6, <1>7, <1>8, <1>9, <1>10, <1>11, <1>12, <1>13
        DEF Next, Proceeds, Ends

LEMMA QuarInit == Init => QuarInv
<1> SUFFICES ASSUME Init PROVE QuarInv
  OBVIOUS
<1>1. \A p \in Procs : /\ queue[p] = <<>> /\ zombies[p] = {}
                       /\ \A w \in Workers : ~Inside(p, w)
  BY IdleType DEF Init, Inside
<1>2. Range(<<>>) = {}
  BY DEF Range
<1>3. \A p \in Procs, t \in Tasks : ~Knows(p, t)
  BY <1>1, <1>2 DEF Knows
<1> QED BY <1>1, <1>3 DEF QuarInv, DownIsEmpty, KnownIsQueued, OldIsOver, QuarantineOK

\* class TaskRuntime: "one active task per session".  In one process, without cancel
\* requests, whatever times out, fails, is retried, crashes or is restarted, executions
\* and the zombies still in quarantine never overlap within a session.
THEOREM OneActivePerSessionAlways ==
    ASSUME Alone, MaxCancels = 0
    PROVE  Spec => []OneActivePerSession
<1> DEFINE I == Shape /\ LockInv /\ RestOK /\ QuarInv
<1>1. Init => I
  BY ShapeInit, LockInit, RestInit, QuarInit
<1>2. I /\ [Next]_vars => I'
  <2> SUFFICES ASSUME I, [Next]_vars PROVE I'
    OBVIOUS
  <2>1. Shape' /\ LockInv' /\ RestOK'
    BY ShapeStep, LockStep, RestStep
  <2>2. DownIsEmpty'
    BY DownStep DEF QuarInv
  <2>3. KnownIsQueued'
    BY KnownStep DEF QuarInv
  <2>4. OldIsOver'
    BY <2>1, <2>3, OldStep DEF QuarInv
  <2>5. QuarantineOK'
    BY QuarantineStep DEF QuarInv
  <2> QED BY <2>1, <2>2, <2>3, <2>4, <2>5 DEF QuarInv
<1>3. I => OneActivePerSession
  <2> SUFFICES ASSUME I, NEW s \in Sessions
               PROVE  Cardinality(Running(s)) + Cardinality(Quarantined(s)) <= 1
    BY DEF OneActivePerSession
  <2>1. ASSUME NEW x \in Running(s)
        PROVE  /\ x \in Procs \X Workers /\ x[1] \in Procs /\ x[2] \in Workers /\ x = <<x[1], x[2]>>
               /\ Holds(x[1], x[2]) /\ Session(x[1], x[2]) = s
    BY DEF Running, Holds
  <2>2. ASSUME NEW x \in Quarantined(s)
        PROVE  /\ x[1] \in Procs /\ x[2] \in Tasks /\ x = <<x[1], x[2]>>
               /\ x[2] \in zombies[x[1]] /\ SessionOf[x[2]] = s
    BY DEF Quarantined
  <2>3. \A x, y \in Running(s) : x = y
    <3> SUFFICES ASSUME NEW x \in Running(s), NEW y \in Running(s) PROVE x = y
      OBVIOUS
    <3>1. x[1] = y[1]
      BY <2>1 DEF Alone
    <3>2. x[2] = y[2]
      BY <2>1, <3>1 DEF LockInv, HolderIsFirst
    <3>3. x = <<x[1], x[2]>> /\ y = <<y[1], y[2]>>
      BY <2>1
    <3> QED BY <3>1, <3>2, <3>3
  <2>4. \A x, y \in Quarantined(s) : x = y
    <3> SUFFICES ASSUME NEW x \in Quarantined(s), NEW y \in Quarantined(s) PROVE x = y
      OBVIOUS
    <3>1. x[1] = y[1]
      BY <2>2 DEF Alone
    <3>2. x[2] = y[2]
      BY <2>2, <3>1 DEF QuarInv, QuarantineOK
    <3>3. x = <<x[1], x[2]>> /\ y = <<y[1], y[2]>>
      BY <2>2
    <3> QED BY <3>1, <3>2, <3>3
  <2>5. Running(s) = {} \/ Quarantined(s) = {}
    <3> SUFFICES ASSUME NEW x \in Running(s), NEW y \in Quarantined(s) PROVE FALSE
      OBVIOUS
    <3>1. x[1] = y[1]
      BY <2>1, <2>2 DEF Alone
    <3> QED BY <2>1, <2>2, <3>1 DEF QuarInv, QuarantineOK
  <2>6. Cardinality(Running(s)) <= 1 /\ Cardinality(Quarantined(s)) <= 1
    BY <2>3, <2>4, AtMostOne
  <2>7. Cardinality({}) = 0
    BY FS_EmptySet
  <2>8. Cardinality(Running(s)) \in Int /\ Cardinality(Quarantined(s)) \in Int
    BY <2>3, <2>4, OneOrNone
  <2>9. CASE Running(s) = {}
    <3>1. Cardinality(Running(s)) = 0
      BY <2>7, <2>9
    <3> QED BY <2>6, <2>8, <3>1
  <2>10. CASE Quarantined(s) = {}
    <3>1. Cardinality(Quarantined(s)) = 0
      BY <2>7, <2>10
    <3> QED BY <2>6, <2>8, <3>1
  <2> QED BY <2>5, <2>9, <2>10
<1> QED BY <1>1, <1>2, <1>3, PTL DEF Spec

-----------------------------------------------------------------------------
(* Whoever waits for a task, in one life of one process.                      *)

RecordFine(r) == ~r.cancel /\ r.status # "interrupted" /\ (r.status \in Terminal => r.result)

\* Nothing is cancelled or interrupted, and what is over has its result.
RecordsFine == \A t \in Tasks : RecordFine(db[t])

\* What is queued is in the queue or with a worker: Resume blocks only what is not.
QueuedIsKnown == \A p \in Procs, t \in Tasks : db[t].status = "queued" => Knows(p, t)

BeforeStart == \A p \in Procs : alive[p] = "down" => \A t \in Tasks : db[t].status = "created"

WaitInv == RecordsFine /\ QueuedIsKnown /\ BeforeStart /\ WaitersAnswered

LEMMA InOrderCovers ==
    ASSUME NEW S \in SUBSET Tasks, NEW q \in InOrder(S)
    PROVE  Range(q) = S
<1> DEFINE n == Cardinality(S)
<1>1. IsFiniteSet(S) /\ n \in Nat
  BY TaskAssumption, FS_Subset, FS_CardinalityType
<1>2. q \in [1..n -> S] /\ \A a, b \in 1..n : a < b => q[a] < q[b]
  BY DEF InOrder
<1>3. \A a \in 1..n : q[a] \in Nat
  BY <1>2, TaskAssumption
<1> HIDE DEF n
<1>4. \A a, b \in 1..n : q[a] = q[b] => a = b
  BY <1>1, <1>2, <1>3
<1>5. q \in Injection(1..n, S)
  BY <1>2, <1>4 DEF Injection, IsInjective
<1>6. Cardinality(1..n) = n
  BY <1>1, FS_Interval
<1>7. q \in Surjection(1..n, S)
  BY <1>1, <1>5, <1>6, FS_Injection DEF n
<1> QED BY <1>2, <1>7 DEF Surjection, Range

LEMMA RangeHead ==
    ASSUME NEW S, NEW q \in Seq(S), q # <<>>
    PROVE  Range(q) \subseteq Range(Tail(q)) \cup {Head(q)}
<1>1. /\ Len(q) \in Nat \ {0} /\ DOMAIN q = 1 .. Len(q) /\ Head(q) = q[1]
      /\ DOMAIN Tail(q) = 1 .. Len(q) - 1
      /\ \A i \in 1 .. Len(q) - 1 : Tail(q)[i] = q[i + 1]
  OBVIOUS
<1>2. ASSUME NEW i \in 1 .. Len(q), i # 1 PROVE q[i] \in Range(Tail(q))
  <2>1. i - 1 \in 1 .. Len(q) - 1 /\ Tail(q)[i - 1] = q[i]
    BY <1>1, <1>2
  <2> QED BY <1>1, <2>1 DEF Range
<1> QED BY <1>1, <1>2 DEF Range

\* When nothing is lost, Resume only takes what waits for its retry.
LEMMA ResumeClaims ==
    ASSUME Shape, NEW p \in Procs, Resume(p), NEW u \in Tasks,
           \A t \in Tasks : db[t].status # "interrupted" /\ (db[t].status = "queued" => t \in Held(p))
    PROVE  /\ \/ db'[u] = db[u]
              \/ /\ db[u].status = "retry_wait" /\ u \in Range(queue'[p])
                 /\ db'[u] = [Move(db[u], "queued") EXCEPT !.owner = Me(p)]
           /\ Range(queue[p]) \subseteq Range(queue'[p])
<1>1. PICK lost \in SUBSET {t \in Tasks \ Held(p) :
                  db[t].status = "queued" \/ (db[t].status = "interrupted" /\ t \in Plans)} :
         LET resumed == [t \in Tasks |->
                 IF db[t].status = "interrupted" /\ t \in Plans THEN Move(db[t], "queued") ELSE db[t]]
             kept == [t \in Tasks |->
                 IF t \in lost THEN [Move(resumed[t], "blocked") EXCEPT !.missing = TRUE] ELSE resumed[t]]
             claimed == {t \in Tasks : kept[t].status = "retry_wait" /\ Eligible(kept[t], Me(p))}
             found == {t \in Tasks : kept[t].status = "queued"}
         IN  /\ db' = [t \in Tasks |-> IF t \in claimed
                                       THEN [Move(kept[t], "queued") EXCEPT !.owner = Me(p)]
                                       ELSE kept[t]]
             /\ \E q \in InOrder(found), c \in InOrder(claimed) :
                  queue' = [queue EXCEPT ![p] = @ \o q \o c]
  BY DEF Resume
<1> DEFINE resumed == [t \in Tasks |->
                 IF db[t].status = "interrupted" /\ t \in Plans THEN Move(db[t], "queued") ELSE db[t]]
           kept == [t \in Tasks |->
                 IF t \in lost THEN [Move(resumed[t], "blocked") EXCEPT !.missing = TRUE] ELSE resumed[t]]
           claimed == {t \in Tasks : kept[t].status = "retry_wait" /\ Eligible(kept[t], Me(p))}
           found == {t \in Tasks : kept[t].status = "queued"}
<1>2. /\ db' = [t \in Tasks |-> IF t \in claimed
                                THEN [Move(kept[t], "queued") EXCEPT !.owner = Me(p)] ELSE kept[t]]
      /\ \E q \in InOrder(found), c \in InOrder(claimed) : queue' = [queue EXCEPT ![p] = @ \o q \o c]
  BY <1>1
<1>3. lost = {}
  OBVIOUS
<1>4. \A t \in Tasks : kept[t] = db[t]
  BY <1>3
<1>5. claimed \in SUBSET Tasks /\ found \in SUBSET Tasks
  OBVIOUS
<1>6. u \in claimed => db[u].status = "retry_wait"
  BY <1>4
<1> HIDE DEF kept, claimed, found
<1>7. PICK q \in InOrder(found), c \in InOrder(claimed) : queue' = [queue EXCEPT ![p] = @ \o q \o c]
  BY <1>2
<1>8. queue[p] \in Seq(Tasks) /\ queue'[p] = queue[p] \o q \o c
  BY <1>7 DEF Shape
<1>9. q \in Seq(Tasks) /\ c \in Seq(Tasks) /\ Range(c) = claimed
  BY <1>5, InOrderType, InOrderCovers
<1> DEFINE qq == queue[p] \o q
<1>10. qq \in Seq(Tasks) /\ Range(qq) = Range(queue[p]) \cup Range(q)
  BY <1>8, <1>9, RangeConcat
<1> HIDE DEF qq
<1>11. Range(qq \o c) = Range(qq) \cup Range(c)
  BY <1>9, <1>10, RangeConcat
<1>12. Range(queue[p]) \subseteq Range(queue'[p]) /\ claimed \subseteq Range(queue'[p])
  BY <1>8, <1>9, <1>10, <1>11 DEF qq
<1>13. CASE u \in claimed
  BY <1>2, <1>4, <1>6, <1>12, <1>13
<1>14. CASE u \notin claimed
  BY <1>2, <1>4, <1>12, <1>14
<1> QED BY <1>13, <1>14

LEMMA MoveFields ==
    ASSUME NEW r \in Record, NEW to \in Status
    PROVE  Move(r, to).cancel = r.cancel /\ Move(r, to).result = r.result
  BY DEF Move, Record

\* Ending an execution leaves a fine record.
LEMMA TryMoveFine ==
    ASSUME NEW r \in Record, RecordFine(r), NEW to \in Terminal
    PROVE  RecordFine(TryMove(r, to, TRUE))
<1>1. to \in Status /\ to # "interrupted"
  BY DEF Status, Terminal
<1>2. CASE Legal(r, to)
  <2> DEFINE m == Move(r, to)
  <2>1. m \in Record /\ m.status = to /\ m.cancel = r.cancel
    BY <1>1, MoveType, MoveFields
  <2> HIDE DEF m
  <2> DEFINE e == [m EXCEPT !.result = @ \/ TRUE]
  <2>2. e.status = to /\ e.cancel = r.cancel /\ e.result
    BY <2>1 DEF Record
  <2>3. TryMove(r, to, TRUE) = e
    BY <1>2 DEF TryMove, m
  <2> HIDE DEF e
  <2> QED BY <1>1, <2>2, <2>3 DEF RecordFine
<1>3. CASE ~Legal(r, to)
  BY <1>3 DEF TryMove
<1> QED BY <1>2, <1>3

LEMMA WaitStep ==
    ASSUME Alone, MaxCancels = 0, MaxStarts = 1, Shape, LeaseInv, RestOK, DownIsEmpty, WaitInv, [Next]_vars
    PROVE  WaitInv'
<1>db. db \in [Tasks -> Record]
  BY DEF Shape
<1>wo. WorkersOK
  BY DEF Shape
<1>qu. queue \in [Procs -> Seq(Tasks)]
  BY DEF Shape
<1>wa. waiting \in [Procs -> SUBSET Tasks]
  BY DEF RestOK
<1>fine. \A t \in Tasks : RecordFine(db[t])
  BY DEF WaitInv, RecordsFine
<1>life. ASSUME NEW p \in Procs, alive[p] # "down" PROVE ~(starts[p] < MaxStarts)
  BY <1>life DEF Shape, ProcsOK
\* One record changes, in a process that is not down.
<1>one. ASSUME NEW p \in Procs, alive'[p] # "down", NEW t \in Tasks, NEW r, db' = [db EXCEPT ![t] = r],
               RecordFine(r),
               r.status = "queued" => Knows(p, t)',
               \A u \in Tasks : Knows(p, u) /\ (u # t \/ r.status = "queued") => Knows(p, u)',
               waiting'[p] \subseteq waiting[p],
               r.status \in Terminal => t \notin waiting'[p]
        PROVE  WaitInv'
  <2>1. db'[t] = r /\ \A u \in Tasks \ {t} : db'[u] = db[u]
    BY <1>one, <1>db
  <2>2. RecordsFine'
    BY <1>one, <1>fine, <2>1 DEF RecordsFine
  <2>3. QueuedIsKnown'
    <3> SUFFICES ASSUME NEW q \in Procs, NEW u \in Tasks, db'[u].status = "queued" PROVE Knows(q, u)'
      BY DEF QueuedIsKnown
    <3>1. q = p
      BY DEF Alone
    <3>2. CASE u = t
      BY <1>one, <2>1, <3>1, <3>2
    <3>3. CASE u # t
      <4>1. Knows(q, u)
        BY <2>1, <3>3 DEF WaitInv, QueuedIsKnown
      <4> QED BY <1>one, <3>1, <3>3, <4>1
    <3> QED BY <3>2, <3>3
  <2>4. BeforeStart'
    BY <1>one DEF Alone, BeforeStart
  <2>5. WaitersAnswered'
    <3> SUFFICES ASSUME NEW q \in Procs, NEW u \in waiting'[q] PROVE db'[u].status \notin Terminal
      BY DEF WaitersAnswered
    <3>1. q = p
      BY DEF Alone
    <3>2. u \in waiting[q] /\ u \in Tasks
      BY <1>one, <1>wa, <3>1
    <3> QED BY <1>one, <2>1, <3>1, <3>2 DEF WaitInv, WaitersAnswered
  <2> QED BY <2>2, <2>3, <2>4, <2>5 DEF WaitInv
\* No record changes.
<1>none. ASSUME UNCHANGED db, \A q \in Procs : alive'[q] = "down" => alive[q] = "down",
                \A q \in Procs, u \in Tasks : Knows(q, u) /\ db[u].status = "queued" => Knows(q, u)',
                \A q \in Procs : waiting'[q] \subseteq waiting[q] \cup {u \in Tasks : ~db[u].result}
         PROVE  WaitInv'
  <2>1. RecordsFine' /\ QueuedIsKnown' /\ BeforeStart'
    BY <1>none DEF WaitInv, RecordsFine, QueuedIsKnown, BeforeStart
  <2>2. WaitersAnswered'
    BY <1>none, <1>fine DEF WaitInv, WaitersAnswered, RecordFine
  <2> QED BY <2>1, <2>2 DEF WaitInv
<1>more. ASSUME NEW p \in Procs, Range(queue[p]) \subseteq Range(queue'[p]),
                \A v \in Workers : Inside(p, v) => /\ Inside(p, v)'
                                                   /\ worker'[p][v].task = worker[p][v].task
         PROVE  \A u \in Tasks : Knows(p, u) => Knows(p, u)'
  BY <1>more DEF Knows
<1>1. ASSUME NEW p \in Procs, NEW t \in Tasks, Submit(p, t) PROVE WaitInv'
  <2> DEFINE r == Move(db[t], "queued")
  <2>1. /\ db' = [db EXCEPT ![t] = r] /\ UNCHANGED <<worker, waiting, alive>> /\ alive[p] # "down"
        /\ queue'[p] = Append(queue[p], t)
    BY <1>1, <1>qu DEF Submit, Free
  <2>2. r.status = "queued" /\ RecordFine(r)
    <3>1. r.status = "queued" /\ r.cancel = db[t].cancel
      BY <1>db, MoveType, MoveFields, StatusNames
    <3> HIDE DEF r
    <3> QED BY <1>fine, <3>1 DEF RecordFine, Terminal
  <2>3. Range(queue'[p]) = Range(queue[p]) \cup {t}
    BY <2>1, <1>qu, RangeAppend
  <2>4. Knows(p, t)' /\ \A u \in Tasks : Knows(p, u) => Knows(p, u)'
    BY <2>1, <2>3 DEF Knows, Inside
  <2> HIDE DEF r
  <2> QED BY <2>1, <2>2, <2>4, <1>one DEF Terminal
<1>2. ASSUME NEW p \in Procs, NEW t \in Tasks, RetryAfter(p, t) PROVE WaitInv'
  <2> DEFINE r == Move(db[t], "queued")
  <2>1. /\ UNCHANGED <<worker, waiting, alive>> /\ alive[p] # "down"
        /\ \/ UNCHANGED <<db, queue>>
           \/ db' = [db EXCEPT ![t] = r] /\ queue'[p] = Append(queue[p], t)
    BY <1>2, <1>qu DEF RetryAfter, Free
  <2>2. r.status = "queued" /\ RecordFine(r)
    <3>1. r.status = "queued" /\ r.cancel = db[t].cancel
      BY <1>db, MoveType, MoveFields, StatusNames
    <3> HIDE DEF r
    <3> QED BY <1>fine, <3>1 DEF RecordFine, Terminal
  <2> HIDE DEF r
  <2>3. CASE db' = [db EXCEPT ![t] = r] /\ queue'[p] = Append(queue[p], t)
    <3>1. Range(queue'[p]) = Range(queue[p]) \cup {t}
      BY <2>3, <1>qu, RangeAppend
    <3>2. Knows(p, t)' /\ \A u \in Tasks : Knows(p, u) => Knows(p, u)'
      BY <2>1, <3>1 DEF Knows, Inside
    <3> QED BY <2>1, <2>2, <2>3, <3>2, <1>one DEF Terminal
  <2>4. CASE UNCHANGED <<db, queue>>
    BY <2>1, <2>4, <1>none DEF Knows, Inside
  <2> QED BY <2>1, <2>3, <2>4
<1>3. ASSUME NEW p \in Procs, NEW t \in Tasks, Cancel(p, t) PROVE FALSE
  BY <1>3, TaskAssumption DEF Cancel, RestOK
<1>4. ASSUME NEW p \in Procs, NEW t \in Tasks, Wait(p, t) \/ ReleaseQuarantine(p, t) PROVE WaitInv'
  <2>1. UNCHANGED <<db, alive, queue, worker>>
    BY <1>4 DEF Wait, ReleaseQuarantine
  <2>2. \A q \in Procs : waiting'[q] \subseteq waiting[q] \cup {u \in Tasks : ~db[u].result}
    <3>1. CASE Wait(p, t)
      BY <3>1, <1>wa DEF Wait
    <3>2. CASE ReleaseQuarantine(p, t)
      BY <3>2 DEF ReleaseQuarantine
    <3> QED BY <1>4, <3>1, <3>2
  <2> QED BY <2>1, <2>2, <1>none DEF Knows, Inside
<1>5. ASSUME NEW p \in Procs, NEW w \in Workers, TakeTask(p, w) PROVE WaitInv'
  <2> DEFINE t == Head(queue[p])
             r(c) == [pc |-> c, task |-> t, event |-> "current"]
  <2>1. /\ queue[p] # <<>> /\ queue[p] \in Seq(Tasks) /\ queue'[p] = Tail(queue[p])
        /\ UNCHANGED <<db, waiting, alive>> /\ ~Inside(p, w)
        /\ \/ worker' = worker /\ db[t].status \in Terminal
           \/ SetWorker(p, w, r("lock")) \/ SetWorker(p, w, r("event"))
    BY <1>5, <1>qu DEF TakeTask, Inside
  <2>2. Range(queue[p]) \subseteq Range(queue'[p]) \cup {t}
    BY <2>1, RangeHead
  <2> SUFFICES ASSUME NEW q \in Procs, NEW u \in Tasks, Knows(q, u), db[u].status = "queued"
               PROVE  Knows(q, u)'
    BY <2>1, <1>none
  <2>3. p = q
    BY DEF Alone
  <2>4. CASE worker' = worker /\ db[t].status \in Terminal
    <3>1. u # t
      BY <2>4 DEF Terminal
    <3> QED BY <2>2, <2>3, <2>4, <3>1 DEF Knows, Inside
  <2>5. ASSUME NEW c \in {"lock", "event"}, SetWorker(p, w, r(c)) PROVE Knows(q, u)'
    <3>1. /\ worker'[p][w].task = t /\ worker'[p][w].pc = c
          /\ \A v \in Workers \ {w} : worker'[p][v] = worker[p][v]
      BY <2>5, <1>wo DEF SetWorker, WorkersOK
    <3> HIDE DEF t
    <3> QED BY <2>1, <2>2, <2>3, <3>1 DEF Knows, Inside
  <2> QED BY <2>1, <2>4, <2>5
<1>6. ASSUME NEW p \in Procs, NEW w \in Workers, EventWakes(p, w) PROVE WaitInv'
  <2>1. /\ worker[p][w].pc # "idle" /\ worker' = [worker EXCEPT ![p][w].pc = "lock"]
        /\ UNCHANGED <<db, alive, queue, waiting>>
    BY <1>6 DEF EventWakes
  <2>2. worker'[p][w].pc = "lock" /\ worker'[p][w].task = worker[p][w].task /\ OthersStay(p, w)
    BY <1>wo, <2>1, OneGoesOn, ZenonT(40)
  <2>3. \A u \in Tasks : Knows(p, u) => Knows(p, u)'
    BY <2>1, <2>2, <1>more DEF OthersStay, Inside
  <2> QED BY <2>1, <2>3, <1>none DEF Alone
\* A worker leaves a task that is not queued.
<1>leave. ASSUME NEW p \in Procs, NEW w \in Workers, worker'[p][w].pc = "idle", OthersStay(p, w),
                 Range(queue[p]) \subseteq Range(queue'[p])
          PROVE  \A u \in Tasks : Knows(p, u) /\ u # worker[p][w].task => Knows(p, u)'
  BY <1>leave DEF Knows, Inside, OthersStay
<1>7. ASSUME NEW p \in Procs, NEW w \in Workers, EnterLock(p, w) PROVE WaitInv'
  <2> DEFINE t == worker[p][w].task
             r == [Move(db[t], "leased") EXCEPT !.owner = Me(p), !.lease = "valid"]
  <2>1. t \in Tasks /\ alive[p] # "down" /\ worker[p][w].pc # "idle" /\ UNCHANGED <<alive, waiting>>
    BY <1>7, <1>wo DEF EnterLock, Free, WorkersOK
  <2>2. RecordFine(db[t])
    BY <1>fine, <2>1
  <2>3. CASE /\ db' = [db EXCEPT ![t] = r] /\ worker' = [worker EXCEPT ![p][w].pc = "leased"]
             /\ UNCHANGED queue
    <3> DEFINE m == Move(db[t], "leased")
    <3>1. m \in Record /\ m.status = "leased" /\ m.cancel = db[t].cancel
      BY <1>db, <2>1, MoveType, MoveFields, StatusNames
    <3>2. r = [m EXCEPT !.owner = Me(p), !.lease = "valid"]
      OBVIOUS
    <3> HIDE DEF m
    <3>3. r.status = "leased" /\ r.cancel = db[t].cancel
      BY <3>1, <3>2 DEF Record
    <3> HIDE DEF r
    <3>4. RecordFine(r) /\ r.status \notin Terminal
      BY <2>2, <3>3 DEF RecordFine, Terminal
    <3>5. worker'[p][w].pc = "leased" /\ worker'[p][w].task = worker[p][w].task /\ OthersStay(p, w)
      BY <1>wo, <2>1, <2>3, OneGoesOn, ZenonT(40)
    <3>6. \A u \in Tasks : Knows(p, u) => Knows(p, u)'
      BY <2>1, <2>3, <3>5, <1>more DEF OthersStay, Inside
    <3> HIDE DEF t
    <3> QED BY <2>1, <2>3, <3>3, <3>4, <3>6, <1>one
  <2>4. CASE /\ UNCHANGED db /\ SetWorker(p, w, Idle)
             /\ \/ queue' = [queue EXCEPT ![p] = Append(@, t)]
                \/ UNCHANGED queue /\ db[t].status # "queued"
    <3>1. worker'[p][w].pc = "idle" /\ OthersStay(p, w)
      BY <1>wo, <2>4, OneIsIdle
    <3>2. Range(queue[p]) \subseteq Range(queue'[p]) /\ (db[t].status = "queued" => t \in Range(queue'[p]))
      <4>1. CASE queue' = [queue EXCEPT ![p] = Append(@, t)]
        <5>1. queue'[p] = Append(queue[p], t) /\ queue[p] \in Seq(Tasks)
          BY <4>1, <1>qu
        <5>2. Range(queue'[p]) = Range(queue[p]) \cup {t}
          BY <5>1, RangeAppend
        <5> QED BY <5>2
      <4>2. CASE UNCHANGED queue /\ db[t].status # "queued"
        BY <4>2
      <4> QED BY <2>4, <4>1, <4>2
    <3>3. \A u \in Tasks : Knows(p, u) /\ db[u].status = "queued" => Knows(p, u)'
      BY <3>1, <3>2, <1>leave DEF Knows
    <3> QED BY <2>1, <2>4, <3>3, <1>none DEF Alone
  <2>5. \/ /\ db' = [db EXCEPT ![t] = r] /\ worker' = [worker EXCEPT ![p][w].pc = "leased"]
           /\ UNCHANGED queue
        \/ /\ db' = [db EXCEPT ![t] = db[t]] /\ SetWorker(p, w, Idle)
           /\ \/ queue' = [queue EXCEPT ![p] = Append(@, t)]
              \/ UNCHANGED queue /\ db[t].status # "queued"
    <3>1. ~db[t].cancel
      BY <2>2 DEF RecordFine
    <3>2. db[t].status = "queued" => db[t].status \notin Terminal
      BY DEF Terminal
    <3> QED BY <1>7, <3>1, <3>2 DEF EnterLock, MayLease
  <2>6. [db EXCEPT ![t] = db[t]] = db
    BY <1>db
  <2> QED BY <2>3, <2>4, <2>5, <2>6
<1>8. ASSUME NEW p \in Procs, NEW w \in Workers, StartRunning(p, w) PROVE WaitInv'
  <2> DEFINE t == worker[p][w].task
             r == [Move(db[t], "running") EXCEPT !.attempt = @ + 1]
  <2>1. worker[p][w].pc = "leased" /\ t \in Tasks /\ UNCHANGED <<alive, waiting, queue>>
    BY <1>8, <1>wo DEF StartRunning, WorkersOK
  <2>2. RecordFine(db[t]) /\ alive[p] # "down" /\ db[t].status \in {"leased", "cancelled"}
    <3>1. LeaseHeld(p, w)
      BY <2>1 DEF LeaseInv, HolderIsOwner, Holds
    <3> QED BY <1>fine, <2>1, <3>1 DEF LeaseHeld
  <2>3. CASE db' = [db EXCEPT ![t] = r] /\ worker' = [worker EXCEPT ![p][w].pc = "run"]
    <3> DEFINE m == Move(db[t], "running")
    <3>1. m \in Record /\ m.status = "running" /\ m.cancel = db[t].cancel
      BY <1>db, <2>1, MoveType, MoveFields, StatusNames
    <3>2. r = [m EXCEPT !.attempt = @ + 1]
      OBVIOUS
    <3> HIDE DEF m
    <3>3. r.status = "running" /\ r.cancel = db[t].cancel
      BY <3>1, <3>2 DEF Record
    <3> HIDE DEF r
    <3>4. RecordFine(r) /\ r.status \notin Terminal
      BY <2>2, <3>3 DEF RecordFine, Terminal
    <3>5. worker'[p][w].pc = "run" /\ worker'[p][w].task = worker[p][w].task /\ OthersStay(p, w)
      <4>1. worker[p][w].pc # "idle" /\ worker' = [worker EXCEPT ![p][w].pc = "run"]
        BY <2>1, <2>3
      <4> QED BY <1>wo, <4>1, OneGoesOn, ZenonT(40)
    <3>6. \A u \in Tasks : Knows(p, u) => Knows(p, u)'
      BY <2>1, <2>3, <3>5, <1>more DEF OthersStay, Inside
    <3> HIDE DEF t
    <3> QED BY <2>1, <2>2, <2>3, <3>3, <3>4, <3>6, <1>one
  <2>4. CASE UNCHANGED db /\ SetWorker(p, w, Idle)
    <3>1. worker'[p][w].pc = "idle" /\ OthersStay(p, w)
      BY <1>wo, <2>4, OneIsIdle
    <3>2. \A u \in Tasks : Knows(p, u) /\ db[u].status = "queued" => Knows(p, u)'
      BY <2>1, <2>2, <3>1, <1>leave
    <3> QED BY <2>1, <2>4, <3>2, <1>none DEF Alone
  <2> QED BY <1>8, <2>3, <2>4 DEF StartRunning
<1>end. ASSUME NEW p \in Procs, NEW w \in Workers, worker[p][w].pc = "run", Finish(p, w) \/ Timeout(p, w),
               NEW r, db' = [db EXCEPT ![worker[p][w].task] = r], RecordFine(r), r.status # "queued",
               waiting'[p] \subseteq waiting[p],
               r.status \in Terminal => worker[p][w].task \notin waiting'[p]
        PROVE  WaitInv'
  <2>1. worker[p][w].task \in Tasks /\ UNCHANGED <<alive, queue>>
    BY <1>end, <1>wo DEF Finish, Timeout, WorkersOK
  <2>2. alive[p] # "down"
    BY <1>end DEF LeaseInv, HolderIsOwner, Holds, LeaseHeld
  <2>3. worker'[p][w].pc = "idle" /\ OthersStay(p, w)
    BY <1>end, <1>wo, OneEnds
  <2>4. \A u \in Tasks : Knows(p, u) /\ u # worker[p][w].task => Knows(p, u)'
    BY <2>1, <2>3, <1>leave
  <2> QED BY <1>end, <2>1, <2>2, <2>4, <1>one
<1>9. ASSUME NEW p \in Procs, NEW w \in Workers, Finish(p, w) PROVE WaitInv'
  <2> DEFINE t == worker[p][w].task
             O == {"completed", "failed", "blocked", "cancelled"}
             e(o) == TryMove(db[t], o, TRUE)
             r == Move(db[t], "retry_wait")
  <2>1. /\ worker[p][w].pc = "run" /\ t \in Tasks
        /\ \/ db' = [db EXCEPT ![t] = r] /\ UNCHANGED waiting
           \/ /\ \E o \in O : db' = [db EXCEPT ![t] = e(o)]
              /\ waiting' = [waiting EXCEPT ![p] = @ \ {t}]
    BY <1>9, <1>wo DEF Finish, Complete, WorkersOK
  <2>2. RecordFine(db[t]) /\ db[t].status \in {"running", "cancelled"}
    <3>1. LeaseHeld(p, w)
      BY <2>1 DEF LeaseInv, HolderIsOwner, Holds
    <3> QED BY <1>fine, <2>1, <3>1 DEF LeaseHeld
  <2>3. CASE db' = [db EXCEPT ![t] = r] /\ UNCHANGED waiting
    <3>1. r.status = "retry_wait" /\ r.cancel = db[t].cancel
      BY <1>db, <2>1, MoveType, MoveFields, StatusNames
    <3> HIDE DEF r
    <3>2. RecordFine(r) /\ r.status \notin Terminal /\ r.status # "queued"
      BY <2>2, <3>1 DEF RecordFine, Terminal
    <3> QED BY <1>9, <2>1, <2>3, <3>2, <1>end
  <2>4. ASSUME NEW o \in O, db' = [db EXCEPT ![t] = e(o)], waiting' = [waiting EXCEPT ![p] = @ \ {t}]
        PROVE  WaitInv'
    <3>1. o \in Terminal /\ o \in Status \ {"queued"}
      BY DEF Terminal, Status
    <3>2. RecordFine(e(o)) /\ e(o).status \in {db[t].status, o}
      BY <1>db, <2>1, <2>2, <3>1, TryMoveFine, TryMoveStatus
    <3>3. waiting'[p] \subseteq waiting[p] /\ t \notin waiting'[p]
      BY <2>4, <1>wa
    <3>4. PICK x : x = e(o)
      OBVIOUS
    <3>5. db' = [db EXCEPT ![t] = x] /\ RecordFine(x) /\ x.status # "queued"
      BY <2>2, <2>4, <3>1, <3>2, <3>4
    <3> QED BY <1>9, <2>1, <3>3, <3>5, <1>end
  <2> QED BY <2>1, <2>3, <2>4
<1>10. ASSUME NEW p \in Procs, NEW w \in Workers, Timeout(p, w) PROVE WaitInv'
  <2> DEFINE t == worker[p][w].task
             e == TryMove(db[t], "timed_out", TRUE)
  <2>1. /\ worker[p][w].pc = "run" /\ t \in Tasks
        /\ db' = [db EXCEPT ![t] = e] /\ waiting' = [waiting EXCEPT ![p] = @ \ {t}]
    BY <1>10, <1>wo DEF Timeout, WorkersOK
  <2>2. RecordFine(db[t]) /\ db[t].status \in {"running", "cancelled"}
    <3>1. LeaseHeld(p, w)
      BY <2>1 DEF LeaseInv, HolderIsOwner, Holds
    <3> QED BY <1>fine, <2>1, <3>1 DEF LeaseHeld
  <2>3. "timed_out" \in Terminal /\ "timed_out" \in Status \ {"queued"}
    BY DEF Terminal, Status
  <2>4. RecordFine(e) /\ e.status \in {db[t].status, "timed_out"}
    BY <1>db, <2>1, <2>2, <2>3, TryMoveFine, TryMoveStatus
  <2>5. waiting'[p] \subseteq waiting[p] /\ t \notin waiting'[p]
    BY <2>1, <1>wa
  <2> HIDE DEF e
  <2>6. e.status # "queued"
    BY <2>2, <2>4
  <2> QED BY <1>10, <2>1, <2>4, <2>5, <2>6, <1>end
<1>11. ASSUME NEW p \in Procs, Start(p) PROVE WaitInv'
  <2>1. /\ alive[p] = "down" /\ UNCHANGED <<queue, worker, waiting>>
        /\ alive' = [alive EXCEPT ![p] = "up"]
    BY <1>11 DEF Start, memory
  <2>2. \A t \in Tasks : db[t].status = "created"
    BY <2>1 DEF WaitInv, BeforeStart
  <2>3. db' = [t \in Tasks |-> db[t]]
    BY <1>11, <2>2 DEF Start, Recoverable, Reopened
  <2>4. db' = db
    BY <2>3, <1>db
  <2>5. alive'[p] = "up"
    BY <2>1 DEF Shape, ProcsOK
  <2> QED BY <2>1, <2>4, <2>5, <1>none DEF Alone, Knows, Inside
<1>12. ASSUME NEW p \in Procs, Resume(p) PROVE WaitInv'
  <2>1. UNCHANGED <<worker, waiting>> /\ alive' = [alive EXCEPT ![p] = "ready"]
    BY <1>12 DEF Resume
  <2>2. alive'[p] # "down"
    BY <2>1 DEF Shape, ProcsOK
  <2>3. \A t \in Tasks : db[t].status # "interrupted" /\ (db[t].status = "queued" => t \in Held(p))
    BY <1>fine DEF RecordFine, WaitInv, QueuedIsKnown, Knows, Held
  <2>4. ASSUME NEW u \in Tasks
        PROVE  /\ \/ db'[u] = db[u]
                  \/ /\ db[u].status = "retry_wait" /\ u \in Range(queue'[p])
                     /\ db'[u] = [Move(db[u], "queued") EXCEPT !.owner = Me(p)]
               /\ Range(queue[p]) \subseteq Range(queue'[p])
    BY <1>12, <2>3, ResumeClaims
  <2>5. ASSUME NEW u \in Tasks
        PROVE  /\ [Move(db[u], "queued") EXCEPT !.owner = Me(p)].status = "queued"
               /\ [Move(db[u], "queued") EXCEPT !.owner = Me(p)].cancel = db[u].cancel
    <3> DEFINE m == Move(db[u], "queued")
    <3>1. m \in Record /\ m.status = "queued" /\ m.cancel = db[u].cancel
      BY <1>db, MoveType, MoveFields, StatusNames
    <3> HIDE DEF m
    <3>2. [m EXCEPT !.owner = Me(p)].status = "queued" /\ [m EXCEPT !.owner = Me(p)].cancel = db[u].cancel
      BY <3>1 DEF Record
    <3> QED BY <3>2 DEF m
  <2>6. ASSUME NEW u \in Tasks
        PROVE  /\ RecordFine(db'[u])
               /\ db'[u].status \in Terminal => db[u].status \in Terminal
               /\ db'[u].status = "queued" => db[u].status = "queued" \/ u \in Range(queue'[p])
    <3>1. RecordFine(db[u])
      BY <1>fine
    <3>2. CASE db'[u] = db[u]
      BY <3>1, <3>2
    <3>3. CASE u \in Range(queue'[p]) /\ db'[u].status = "queued" /\ db'[u].cancel = db[u].cancel
      BY <3>1, <3>3 DEF RecordFine, Terminal
    <3> QED BY <2>4, <2>5, <3>2, <3>3
  <2>7. RecordsFine'
    BY <2>6 DEF RecordsFine
  <2>8. QueuedIsKnown'
    <3> SUFFICES ASSUME NEW q \in Procs, NEW u \in Tasks, db'[u].status = "queued" PROVE Knows(q, u)'
      BY DEF QueuedIsKnown
    <3>1. p = q
      BY DEF Alone
    <3>2. CASE u \in Range(queue'[p])
      BY <3>1, <3>2 DEF Knows
    <3>3. CASE db[u].status = "queued"
      <4>1. Knows(q, u)
        BY <3>3 DEF WaitInv, QueuedIsKnown
      <4> QED BY <2>1, <2>4, <3>1, <4>1 DEF Knows, Inside
    <3> QED BY <2>6, <3>2, <3>3
  <2>9. BeforeStart'
    BY <2>2 DEF Alone, BeforeStart
  <2>10. WaitersAnswered'
    BY <2>1, <2>6, <1>wa DEF WaitInv, WaitersAnswered
  <2> QED BY <2>7, <2>8, <2>9, <2>10 DEF WaitInv
<1>13. ASSUME NEW p \in Procs, Stop(p) \/ Crash(p) PROVE FALSE
  BY <1>13, <1>life DEF Stop, Crash, Free
<1>14. ASSUME NEW t \in Tasks, LeaseExpires(t) PROVE WaitInv'
  <2>1. UNCHANGED <<alive, queue, worker, waiting>> /\ db' = [db EXCEPT ![t] = [@ EXCEPT !.lease = "expired"]]
    BY <1>14, <1>db DEF LeaseExpires, memory
  <2>2. [db[t] EXCEPT !.lease = "expired"].status = db[t].status
        /\ [db[t] EXCEPT !.lease = "expired"].cancel = db[t].cancel
        /\ [db[t] EXCEPT !.lease = "expired"].result = db[t].result
    BY <1>db DEF Record
  <2>3. \A u \in Tasks : db'[u].status = db[u].status /\ db'[u].cancel = db[u].cancel
                         /\ db'[u].result = db[u].result
    BY <1>db, <2>1, <2>2
  <2>4. RecordsFine'
    BY <1>fine, <2>3 DEF RecordsFine, RecordFine
  <2>5. QueuedIsKnown'
    BY <2>1, <2>3 DEF WaitInv, QueuedIsKnown, Knows, Inside
  <2>6. BeforeStart' /\ WaitersAnswered'
    BY <2>1, <2>3, <1>wa DEF WaitInv, BeforeStart, WaitersAnswered
  <2> QED BY <2>4, <2>5, <2>6 DEF WaitInv
<1>15. CASE UNCHANGED vars
  <2>1. UNCHANGED <<db, alive, queue, worker, waiting>>
    BY <1>15 DEF vars, memory
  <2> QED BY <2>1, <1>none DEF Knows, Inside
<1> QED BY <1>1, <1>2, <1>3, <1>4, <1>5, <1>6, <1>7, <1>8, <1>9, <1>10, <1>11, <1>12, <1>13,
           <1>14, <1>15 DEF Next, Proceeds, Ends

LEMMA WaitInit == Init => WaitInv
  BY DEF Init, WaitInv, RecordsFine, RecordFine, QueuedIsKnown, BeforeStart, WaitersAnswered, Terminal

\* Whoever waits for a task is answered when it ends: in one life of one process, without
\* cancel requests, nobody waits for a task that is over.
THEOREM WaitersAnsweredAlways ==
    ASSUME Alone, MaxCancels = 0, MaxStarts = 1
    PROVE  Spec => []WaitersAnswered
<1> DEFINE I == Shape /\ LeaseInv /\ RestOK /\ DownIsEmpty /\ WaitInv
<1>1. Init => I
  BY ShapeInit, LeaseInit, RestInit, QuarInit, WaitInit DEF QuarInv
<1>2. I /\ [Next]_vars => I'
  BY ShapeStep, LeaseStep, RestStep, DownStep, WaitStep
<1>3. I => WaitersAnswered
  BY DEF WaitInv
<1> QED BY <1>1, <1>2, <1>3, PTL DEF Spec
=============================================================================
