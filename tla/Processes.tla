------------------------------ MODULE Processes ------------------------------
(* The long-lived child processes of an agent (core/process_manager.py) and   *)
(* the journal from which a later gateway kills those a crash left behind     *)
(* (core/orphan_processes.py).  Threads: the tools' callers, the watchdog and *)
(* the clean-up of the agent.                                                 *)
EXTENDS Naturals, FiniteSets

CONSTANTS
  Pids,          \* process ids of the machine
  ProcCallers,   \* threads in which proc_start, proc_stop, proc_send and proc_read run
  MaxSessions,   \* max_processes of the sandbox profile
  MaxBirths,     \* bound: processes started on the machine
  MaxGateways,   \* bound: gateway processes one after the other
  ReuseListed,   \* whether the machine may reuse a pid that an ended session still lists
  CleanRaces     \* whether the agent may be cleaned up while proc_start is running

VARIABLES
  proc,          \* per pid: free, live or zombie, whose child (0: not a gateway's) and its start identity
  journal,       \* per pid: its last record
  gateway,       \* number of the gateway process, and whether it runs
  sess,          \* _sessions: per id, none or the session's status, process and idleness
  lock,          \* who holds ProcessManager._lock
  thread,        \* per thread: where it is, and the session and process it works on
  doomed,        \* sessions the clean-up has still to close
  births

procVars == <<proc, journal, gateway, sess, lock, thread, doomed, births>>

ProcIds == 1..MaxBirths
Threads == ProcCallers \cup {"watchdog", "cleaner"}
NoSession == [status |-> "none", pid |-> 0, birth |-> 0, idle |-> FALSE]
Ended == {"exited", "killed", "idle_killed"}
CallerIdle == [at |-> "idle", id |-> 0, pid |-> 0]
SessionListed == {i \in ProcIds : sess[i].status # "none"}
Free(p) == proc[p].at = "free"
Up == gateway.up /\ thread["cleaner"].at # "done"
Goes(t, where) == thread' = [thread EXCEPT ![t] = where]

\* A killed or exited child that was waited for leaves its pid to others.
Waited(p) == [proc EXCEPT ![p].at = "free"]
-----------------------------------------------------------------------------
\* The machine: a child ends by itself, somebody else's process takes a free pid, an idle time-out passes.
ChildExits(p) ==
  /\ proc[p].at = "live"
  /\ proc' = [proc EXCEPT ![p].at = IF gateway.up /\ proc[p].by = gateway.n THEN "zombie" ELSE "free"]
  /\ UNCHANGED <<journal, gateway, sess, lock, thread, doomed, births>>

Reusable(p) ==
  /\ Free(p) /\ births < MaxBirths
  /\ ReuseListed \/ ((\A i \in SessionListed : sess[i].pid # p) /\ (\A t \in Threads : thread[t].pid # p))

OtherStarts(p) ==
  /\ Reusable(p) /\ births' = births + 1
  /\ proc' = [proc EXCEPT ![p] = [at |-> "live", by |-> 0, birth |-> births + 1]]
  /\ UNCHANGED <<journal, gateway, sess, lock, thread, doomed>>

TimePasses(i) ==
  /\ sess[i].status = "running" /\ ~sess[i].idle /\ sess' = [sess EXCEPT ![i].idle = TRUE]
  /\ UNCHANGED <<proc, journal, gateway, lock, thread, doomed, births>>
-----------------------------------------------------------------------------
\* start: the limit is compared under the lock; at the limit the oldest ended session is closed first, with the lock held.
StartBegins(c) ==
  /\ Up /\ thread[c] = CallerIdle /\ lock = "free" /\ (CleanRaces \/ thread["cleaner"] = CallerIdle)
  /\ IF Cardinality(SessionListed) < MaxSessions THEN Goes(c, [CallerIdle EXCEPT !.at = "spawn"]) /\ UNCHANGED lock
     ELSE \E i \in SessionListed : /\ sess[i].status \in Ended /\ lock' = c
                            /\ Goes(c, [at |-> "close", id |-> i, pid |-> sess[i].pid])
  /\ UNCHANGED <<proc, journal, gateway, sess, doomed, births>>

ProcSpawns(c, p) ==
  /\ thread[c].at = "spawn" /\ Reusable(p) /\ births' = births + 1
  /\ proc' = [proc EXCEPT ![p] = [at |-> "live", by |-> gateway.n, birth |-> births + 1]]
  /\ Goes(c, [at |-> "record", id |-> births + 1, pid |-> p])
  /\ UNCHANGED <<journal, gateway, sess, lock, doomed>>

SpawnFails(c) ==
  /\ thread[c].at = "spawn" /\ Goes(c, CallerIdle)
  /\ UNCHANGED <<proc, journal, gateway, sess, lock, doomed, births>>

\* A plausible slip: the identity is left out of the record.
RecordBare(p, active) == [active |-> active, owner |-> gateway.n, birth |-> 0]

\* record: the identity is read while the child is there, and only for a start.
Record(p, active) == [active |-> active, owner |-> gateway.n, birth |-> IF active THEN proc[p].birth ELSE 0]

StartRecords(c) ==
  /\ thread[c].at = "record" /\ journal' = [journal EXCEPT ![thread[c].pid] = Record(thread[c].pid, TRUE)]
  /\ Goes(c, [thread[c] EXCEPT !.at = "insert"])
  /\ UNCHANGED <<proc, gateway, sess, lock, doomed, births>>

\* The readers cannot be started: the child is killed, its record stays.
ReadersFail(c) ==
  /\ thread[c].at = "insert" /\ proc' = Waited(thread[c].pid) /\ Goes(c, CallerIdle)
  /\ UNCHANGED <<journal, gateway, sess, lock, doomed, births>>

StartInserts(c) ==
  /\ thread[c].at = "insert" /\ lock = "free"
  /\ sess' = [sess EXCEPT ![thread[c].id] =
       [status |-> "running", pid |-> thread[c].pid, birth |-> thread[c].id, idle |-> FALSE]]
  /\ Goes(c, CallerIdle)
  /\ UNCHANGED <<proc, journal, gateway, lock, doomed, births>>

\* send and read refresh last_active.
Uses(c, i) ==
  /\ thread[c] = CallerIdle /\ sess[i].status # "none" /\ sess' = [sess EXCEPT ![i].idle = FALSE]
  /\ UNCHANGED <<proc, journal, gateway, lock, thread, doomed, births>>

\* stop: kill the tree and wait for it, then set the status.
SessionStopKills(c, i) ==
  /\ Up /\ thread[c] = CallerIdle /\ sess[i].status = "running"
  /\ proc' = IF proc[sess[i].pid].birth = sess[i].birth THEN Waited(sess[i].pid) ELSE proc
  /\ Goes(c, [at |-> "killed", id |-> i, pid |-> sess[i].pid])
  /\ UNCHANGED <<journal, gateway, sess, lock, doomed, births>>
-----------------------------------------------------------------------------
\* The watchdog: an exit it sees by poll, an idle session it kills, an ended one it closes when it was kept long enough.
Watches(i) ==
  /\ Up /\ thread["watchdog"] = CallerIdle /\ sess[i].status = "running"
  /\ LET gone == proc[sess[i].pid].birth # sess[i].birth \/ proc[sess[i].pid].at # "live" IN
     /\ gone \/ sess[i].idle
     /\ Goes("watchdog", [at |-> IF gone THEN "exited" ELSE "idle_killed", id |-> i, pid |-> sess[i].pid])
     /\ proc' = IF proc[sess[i].pid].birth = sess[i].birth THEN Waited(sess[i].pid) ELSE proc
  /\ UNCHANGED <<journal, gateway, sess, lock, doomed, births>>

\* The status is set under the session's own lock, whatever it is by now; the session object may be out of the table.
Marks(t) ==
  /\ thread[t].at \in Ended
  /\ sess' = [sess EXCEPT ![thread[t].id].status = IF @ = "none" THEN @ ELSE thread[t].at]
  /\ Goes(t, CallerIdle)
  /\ UNCHANGED <<proc, journal, gateway, lock, doomed, births>>

RetentionEnds(i) ==
  /\ Up /\ thread["watchdog"] = CallerIdle /\ sess[i].status \in Ended
  /\ Goes("watchdog", [at |-> "close", id |-> i, pid |-> sess[i].pid])
  /\ UNCHANGED <<proc, journal, gateway, sess, lock, doomed, births>>

\* _close_session: the journal, the readers and pipes, and under the lock the table.
CloseRecords(t) ==
  /\ thread[t].at = "close" /\ journal' = [journal EXCEPT ![thread[t].pid] = Record(thread[t].pid, FALSE)]
  /\ Goes(t, [thread[t] EXCEPT !.at = "remove"])
  /\ UNCHANGED <<proc, gateway, sess, lock, doomed, births>>

CloseRemoves(t) ==
  /\ thread[t].at = "remove" /\ lock = "free" /\ sess' = [sess EXCEPT ![thread[t].id] = NoSession]
  /\ Goes(t, IF t = "cleaner" THEN [CallerIdle EXCEPT !.at = "clean"] ELSE CallerIdle)
  /\ UNCHANGED <<proc, journal, gateway, lock, doomed, births>>
-----------------------------------------------------------------------------
\* cleanup_all: what is listed now is killed and closed one after the other, then the table is cleared.
CleanBegins ==
  /\ Up /\ thread["cleaner"] = CallerIdle /\ (CleanRaces \/ \A c \in ProcCallers : thread[c] = CallerIdle)
  /\ Goes("cleaner", [CallerIdle EXCEPT !.at = "clean"]) /\ doomed' = SessionListed
  /\ UNCHANGED <<proc, journal, gateway, sess, lock, births>>

Cleans(i) ==
  /\ thread["cleaner"].at = "clean" /\ i \in doomed /\ doomed' = doomed \ {i}
  /\ IF sess[i].status = "none" THEN UNCHANGED <<proc, thread>>
     ELSE /\ proc' = IF sess[i].status = "running" /\ proc[sess[i].pid].birth = sess[i].birth
                     THEN Waited(sess[i].pid) ELSE proc
          /\ Goes("cleaner", [at |-> "close", id |-> i, pid |-> sess[i].pid])
  /\ UNCHANGED <<journal, gateway, sess, lock, births>>

CleanEnds ==
  /\ thread["cleaner"].at = "clean" /\ doomed = {} /\ sess' = [i \in ProcIds |-> NoSession]
  /\ Goes("cleaner", [CallerIdle EXCEPT !.at = "done"])
  /\ UNCHANGED <<proc, journal, gateway, lock, doomed, births>>
-----------------------------------------------------------------------------
\* The gateway is killed: its children, leaders of their own sessions, live on.
Crash ==
  /\ gateway.up /\ gateway' = [gateway EXCEPT !.up = FALSE]
  /\ sess' = [i \in ProcIds |-> NoSession] /\ thread' = [t \in Threads |-> CallerIdle] /\ lock' = "free" /\ doomed' = {}
  /\ proc' = [p \in Pids |-> IF proc[p].at = "zombie" THEN [proc[p] EXCEPT !.at = "free"] ELSE proc[p]]
  /\ UNCHANGED <<journal, births>>

\* A plausible slip: a pid that is in use is the child that was recorded.
SameProcessAlways(p) == TRUE

\* The pid may have been reused: the start identity has to match.
SameProcess(p) == journal[p].birth = 0 \/ proc[p].birth = journal[p].birth

\* reap_stale_orphans with its last record of each pid; owners other than this process are dead.
Orphans(self) == {p \in Pids : journal[p].active /\ journal[p].owner # self /\ proc[p].at = "live" /\ SameProcess(p)}

GatewayStarts ==
  /\ ~gateway.up /\ gateway.n < MaxGateways /\ gateway' = [n |-> gateway.n + 1, up |-> TRUE]
  /\ proc' = [p \in Pids |-> IF p \in Orphans(gateway.n + 1) THEN [proc[p] EXCEPT !.at = "free"] ELSE proc[p]]
  /\ UNCHANGED <<journal, sess, lock, thread, doomed, births>>
-----------------------------------------------------------------------------
ProcInit ==
  /\ proc = [p \in Pids |-> [at |-> "free", by |-> 0, birth |-> 0]]
  /\ journal = [p \in Pids |-> [active |-> FALSE, owner |-> 0, birth |-> 0]]
  /\ gateway = [n |-> 1, up |-> TRUE] /\ sess = [i \in ProcIds |-> NoSession] /\ lock = "free"
  /\ thread = [t \in Threads |-> CallerIdle] /\ doomed = {} /\ births = 0

CallerStep(c) ==
  \/ StartBegins(c) \/ SpawnFails(c) \/ StartRecords(c) \/ ReadersFail(c) \/ StartInserts(c)
  \/ \E p \in Pids : ProcSpawns(c, p)
  \/ \E i \in ProcIds : Uses(c, i) \/ SessionStopKills(c, i)

ProcNext ==
  \/ \E c \in ProcCallers : CallerStep(c)
  \/ \E p \in Pids : ChildExits(p) \/ OtherStarts(p)
  \/ \E i \in ProcIds : TimePasses(i) \/ Watches(i) \/ RetentionEnds(i) \/ Cleans(i)
  \/ \E t \in Threads : Marks(t) \/ CloseRecords(t) \/ CloseRemoves(t)
  \/ CleanBegins \/ CleanEnds \/ Crash \/ GatewayStarts

ProcSpec == ProcInit /\ [][ProcNext]_procVars

\* A thread that can go on does.
ProcFairness == \A t \in Threads : WF_procVars(CloseRecords(t)) /\ WF_procVars(CloseRemoves(t))
FairProc == ProcSpec /\ ProcFairness
-----------------------------------------------------------------------------
\* Types.
ProcTypeOK ==
  /\ \A p \in Pids : proc[p].at \in {"free", "live", "zombie"} /\ proc[p].by \in 0..MaxGateways /\ proc[p].birth \in 0..MaxBirths
  /\ \A p \in Pids : journal[p].owner \in 0..MaxGateways /\ journal[p].birth \in 0..MaxBirths
  /\ \A i \in ProcIds : sess[i].status \in Ended \cup {"none", "running"} /\ lock \in Threads \cup {"free"}

\* A child that is listed as running is in the journal under its own identity, so that a crash at any moment leaves it to
\* the next start of the gateway (core/orphan_processes.py:107).
RunningIsJournalled ==
  \A i \in SessionListed : LET p == sess[i].pid IN
    sess[i].status = "running" /\ proc[p].at = "live" /\ proc[p].birth = sess[i].birth
      /\ thread["cleaner"].at \notin {"remove"}
    => journal[p] = [active |-> TRUE, owner |-> gateway.n, birth |-> sess[i].birth]

\* Whom the next start of the gateway would kill is a child of an earlier one, however pids were reused in between.
ReapedAreOrphans == ~gateway.up => \A p \in Orphans(gateway.n + 1) : proc[p].by \in 1..gateway.n

\* Deviations of the code (see the README).
WithinLimit == Cardinality(SessionListed) <= MaxSessions
CleanedIsGone == gateway.up /\ thread["cleaner"].at = "done" =>
  \A p \in Pids : proc[p].at = "live" => proc[p].by # gateway.n
StatusIsFinal == [][\A i \in ProcIds : sess[i].status \in Ended => sess'[i].status \in {sess[i].status, "none"}]_procVars

\* An ended session that proc_start evicts at the limit makes room: the call returns (process_manager.py:110).
EvictionReturns == \A c \in ProcCallers : thread[c].at \in {"close", "remove"} ~> thread[c] = CallerIdle
=============================================================================
