------------------------------ MODULE Scheduler ------------------------------
(* Cron jobs (gateway/scheduler.py) of gateway instances that share the      *)
(* leader lease of runtime.db.  Time is counted in slots: every job is due   *)
(* once per slot.  A fire is a run of a job; on_inbound (dispatcher.py)      *)
(* awaits the whole turn, so the tick that fired a job stands still.         *)
EXTENDS Naturals, FiniteSets

CONSTANTS
  Instances,      \* gateway processes, one of them may be stopped and started
  JobNames,       \* names of jobs
  PersistJobs,    \* jobs with session = "persist"; the others are isolated
  MaxConcurrent,  \* max_concurrent
  MaxClock,       \* bound: slots
  MaxFires,       \* bound: fires
  MaxSchedOps,    \* bound: commands and restarts
  PunctualRuns,   \* whether a run still working is never past its watchdog
  LeaderReturns   \* whether an instance that led before may lead again

VARIABLES
  clock,          \* the slot that came last
  lease,          \* holder of the unexpired lease, or "none"
  sched,          \* per instance the fields of its Scheduler
  fire,           \* fires: job, instance, slot, where the run is, how it was recorded
  schedOps        \* commands and restarts so far

schedVars == <<clock, lease, sched, fire, schedOps>>

ASSUME SchedAssumption ==
  /\ PersistJobs \subseteq JobNames /\ "none" \notin Instances
  /\ MaxConcurrent \in Nat \ {0}
  /\ MaxClock \in Nat /\ MaxFires \in Nat /\ MaxSchedOps \in Nat

Fires == 1 .. MaxFires
NoFire == [job |-> "none", inst |-> "none", slot |-> 0, at |-> "off", late |-> FALSE, end |-> "open"]
\* A Scheduler after start(); nf is _next_fire, on the fire that the tick awaits,
\* last the recorded last_fire, missed the misfire tasks.
Started(last, paused, jobs, missed) ==
  [up |-> TRUE, todo |-> {}, now |-> 0, on |-> 0,
   nf |-> [j \in JobNames |-> 0], running |-> {}, pending |-> {}, expired |-> {},
   last |-> last, paused |-> paused, jobs |-> jobs, missed |-> missed]

\* session_key of _fire
FireKey(r) == IF fire[r].job \in PersistJobs THEN <<fire[r].job, 0>> ELSE <<fire[r].job, r>>
\* The entry of _pending under the key of fire r
PendingFor(i, r) == {p \in sched[i].pending : FireKey(p) = FireKey(r)}
\* _job_active
JobActive(s, j) == j \in s.jobs \ s.paused
\* Commands and replies come when the event loop is free.
LoopFree(i) == sched[i].up /\ (sched[i].todo = {} \/ sched[i].on # 0)
SchedOp == schedOps < MaxSchedOps /\ schedOps' = schedOps + 1
-----------------------------------------------------------------------------
\* A plausible slip: the lease row is taken over without looking at its expiry.
MayLeadAlways(i) == TRUE
\* try_acquire_lease, through acquire_leader_lease
MayLead(i) ==
  /\ lease \in {i, "none"}
  /\ LeaderReturns \/ lease = i \/ \A j \in JobNames : sched[i].nf[j] = 0

\* A living leader renews at every tick: a lease expires while its tick stands still
\* or its process is down.
LeaseExpires ==
  /\ lease # "none"
  /\ ~sched[lease].up \/ sched[lease].on # 0
  /\ lease' = "none"
  /\ UNCHANGED <<clock, sched, fire, schedOps>>

SlotComes ==
  /\ clock < MaxClock
  /\ clock' = clock + 1
  /\ UNCHANGED <<lease, sched, fire, schedOps>>

\* _sweep_watchdogs: overdue fires are recorded as errors, late replies expected
SweepWatchdogs(i) ==
  LET over == {p \in sched[i].pending : fire[p].late}
  IN /\ sched' = [sched EXCEPT ![i] =
          [sched[i] EXCEPT !.todo = sched[i].jobs, !.now = clock,
                           !.pending = @ \ over,
                           !.running = @ \ {fire[p].job : p \in over},
                           !.expired = @ \cup {FireKey(p) : p \in over},
                           !.last = [j \in JobNames |->
                                       IF \E p \in over : fire[p].job = j THEN clock ELSE @[j]]]]
     /\ fire' = [r \in Fires |-> IF r \in over THEN [fire[r] EXCEPT !.end = "dog"] ELSE fire[r]]

\* _tick_loop and the start of _tick_once
TickBegins(i) ==
  /\ sched[i].up /\ sched[i].todo = {} /\ sched[i].on = 0
  /\ MayLead(i) /\ lease' = i
  /\ SweepWatchdogs(i)
  /\ UNCHANGED <<clock, schedOps>>

\* _fire up to on_inbound
Fired(i, j, slot, s) ==
  LET free == {r \in Fires : fire[r].at = "off"}
      r == CHOOSE x \in free : \A y \in free : x <= y
      f == [NoFire EXCEPT !.job = j, !.inst = i, !.slot = slot, !.at = "live"]
      same == {p \in s.pending : j \in PersistJobs /\ fire[p].job = j}
  IN /\ free # {}
     /\ fire' = [fire EXCEPT ![r] = f]
     /\ sched' = [sched EXCEPT ![i] =
          [s EXCEPT !.running = @ \cup {j}, !.pending = (@ \ same) \cup {r},
                    !.on = IF slot # 0 THEN r ELSE @]]

\* A plausible slip: the limit admits one more run.
MayFireOneMore(i, j) ==
  /\ j \notin sched[i].running
  /\ Cardinality(sched[i].running) <= MaxConcurrent
\* The checks of _try_fire and _cmd_run
MayFire(i, j) ==
  /\ j \notin sched[i].running
  /\ Cardinality(sched[i].running) < MaxConcurrent

\* _try_fire of a due job, or the record of a skip
TryFire(i, j, slot, s) ==
  IF MayFire(i, j)
  THEN Fired(i, j, slot, s)
  ELSE /\ sched' = [sched EXCEPT ![i] = [s EXCEPT !.last[j] = clock,
                                             !.nf[j] = IF slot = 0 THEN @ ELSE clock + 1]]
       /\ UNCHANGED fire

\* One round of the loop over the jobs in _tick_once; after the last the loop sleeps.
TickJob(i) ==
  LET s == sched[i]
      j == CHOOSE x \in s.todo : TRUE
      rest == [s EXCEPT !.todo = @ \ {j}]
  IN /\ s.up /\ s.on = 0 /\ s.todo # {}
     /\ IF JobActive(s, j) /\ s.nf[j] # 0 /\ s.now >= s.nf[j]
        THEN TryFire(i, j, s.nf[j], rest)
        ELSE /\ sched' = [sched EXCEPT ![i] = [rest EXCEPT !.nf[j] =
                   IF ~JobActive(s, j) THEN 0 ELSE IF @ = 0 THEN s.now + 1 ELSE @]]
             /\ UNCHANGED fire
     /\ UNCHANGED <<clock, lease, schedOps>>

\* on_inbound returns: at the end of the turn, or at once when the session is busy
\* or the gateway is full and the message stays queued.
TickResumes(i) ==
  /\ sched[i].up /\ sched[i].on # 0
  /\ sched' = [sched EXCEPT ![i].on = 0, ![i].nf[fire[sched[i].on].job] = clock + 1]
  /\ UNCHANGED <<clock, lease, fire, schedOps>>
-----------------------------------------------------------------------------
\* A plausible slip: on_reply leaves the mark of the job in _running_jobs.
OnReplyKeepsMark(i, r) ==
  LET own == PendingFor(i, r)
  IN /\ sched' = [sched EXCEPT ![i].pending = @ \ own, ![i].last[fire[r].job] = clock]
     /\ fire' = [x \in Fires |->
          [fire[x] EXCEPT !.at = IF x = r THEN "done" ELSE @,
                          !.end = IF x \in own THEN "reply" ELSE @]]
\* on_reply: the reply ends the fire registered under its key, else it is a late one.
OnReply(i, r) ==
  LET own == PendingFor(i, r)
  IN /\ sched' = [sched EXCEPT ![i] =
          IF own # {}
          THEN [sched[i] EXCEPT !.pending = @ \ own, !.running = @ \ {fire[r].job},
                                !.last[fire[r].job] = clock]
          ELSE [sched[i] EXCEPT !.expired = @ \ {FireKey(r)}]]
     /\ fire' = [x \in Fires |->
          [fire[x] EXCEPT !.at = IF x = r THEN "done" ELSE @,
                          !.end = IF x \in own THEN "reply" ELSE @]]

ReplyArrives(r) ==
  /\ fire[r].at = "live" /\ LoopFree(fire[r].inst)
  /\ OnReply(fire[r].inst, r)
  /\ UNCHANGED <<clock, lease, schedOps>>

\* No reply will come: the message was a duplicate, the turn was stopped, or the
\* delivery failed.
ReplyLost(r) ==
  /\ fire[r].at = "live"
  /\ fire' = [fire EXCEPT ![r].at = "lost"]
  /\ UNCHANGED <<clock, lease, sched, schedOps>>

\* _watchdog_deadline is past
DeadlinePasses(r) ==
  /\ fire[r].at \in {"live", "lost"} /\ ~fire[r].late
  /\ PunctualRuns => fire[r].at = "lost"
  /\ fire' = [fire EXCEPT ![r].late = TRUE]
  /\ UNCHANGED <<clock, lease, sched, schedOps>>

\* _cmd_run: any instance, whoever leads
CmdRun(i, j) ==
  /\ LoopFree(i) /\ SchedOp
  /\ j \in sched[i].jobs /\ MayFire(i, j)
  /\ Fired(i, j, 0, sched[i])
  /\ UNCHANGED <<clock, lease>>

\* _cmd_pause, both ways
CmdPause(i, j, pause) ==
  /\ LoopFree(i) /\ SchedOp
  /\ j \in sched[i].jobs
  /\ sched' = [sched EXCEPT ![i].paused = IF pause THEN @ \cup {j} ELSE @ \ {j}, ![i].nf[j] = 0]
  /\ UNCHANGED <<clock, lease, fire>>

\* add_job, delete_job and the handlers of api_scheduler: the list is written and
\* loaded again (reload_config forgets every next fire).
WriteJobs(i, js) ==
  /\ LoopFree(i) /\ SchedOp
  /\ sched' = [sched EXCEPT ![i].jobs = js, ![i].nf = [j \in JobNames |-> 0]]
  /\ UNCHANGED <<clock, lease, fire>>
AddJob(i, j) == WriteJobs(i, sched[i].jobs \cup {j})
DeleteJob(i, j) == j \in sched[i].jobs /\ WriteJobs(i, sched[i].jobs \ {j})
-----------------------------------------------------------------------------
\* stop(), or the process dies: its turns end without a reply.
InstanceStops(i) ==
  /\ sched[i].up /\ SchedOp
  /\ sched' = [sched EXCEPT ![i] = [Started(@.last, @.paused, @.jobs, {}) EXCEPT !.up = FALSE]]
  /\ fire' = [r \in Fires |-> IF fire[r].inst = i /\ fire[r].at = "live"
                              THEN [fire[r] EXCEPT !.at = "lost"] ELSE fire[r]]
  /\ UNCHANGED <<clock, lease>>

\* start() with _check_misfires (misfire_policy run_once)
InstanceStarts(i) ==
  LET s == sched[i]
      missed == {j \in JobNames : JobActive(s, j) /\ s.last[j] # 0 /\ clock > s.last[j]}
  IN /\ ~s.up
     /\ sched' = [sched EXCEPT ![i] = Started(s.last, s.paused, s.jobs, missed)]
     /\ UNCHANGED <<clock, lease, fire, schedOps>>

\* A task made by _check_misfires
MisfireRuns(i, j) ==
  /\ LoopFree(i) /\ j \in sched[i].missed
  /\ TryFire(i, j, 0, [sched[i] EXCEPT !.missed = @ \ {j}])
  /\ UNCHANGED <<clock, lease, schedOps>>
-----------------------------------------------------------------------------
SchedInit ==
  /\ clock = 0 /\ lease = "none" /\ schedOps = 0
  /\ sched = [i \in Instances |-> Started([j \in JobNames |-> 0], {}, JobNames, {})]
  /\ fire = [r \in Fires |-> NoFire]

SchedNext ==
  \/ LeaseExpires \/ SlotComes
  \/ \E i \in Instances :
       \/ TickBegins(i) \/ TickJob(i) \/ TickResumes(i)
       \/ InstanceStops(i) \/ InstanceStarts(i)
       \/ \E j \in JobNames :
            \/ CmdRun(i, j) \/ CmdPause(i, j, TRUE) \/ CmdPause(i, j, FALSE)
            \/ AddJob(i, j) \/ DeleteJob(i, j) \/ MisfireRuns(i, j)
  \/ \E r \in Fires : ReplyArrives(r) \/ ReplyLost(r) \/ DeadlinePasses(r)

SchedSpec == SchedInit /\ [][SchedNext]_schedVars
-----------------------------------------------------------------------------
SchedRecord ==
  [up : BOOLEAN, todo : SUBSET JobNames, now : 0 .. MaxClock, on : 0 .. MaxFires,
   nf : [JobNames -> 0 .. MaxClock + 1], running : SUBSET JobNames,
   pending : SUBSET Fires, expired : SUBSET (JobNames \X (0 .. MaxFires)),
   last : [JobNames -> 0 .. MaxClock], paused : SUBSET JobNames, jobs : SUBSET JobNames,
   missed : SUBSET JobNames]
FireRecord ==
  [job : JobNames, inst : Instances, slot : 0 .. MaxClock, at : {"live", "lost", "done"},
   late : BOOLEAN, end : {"open", "reply", "dog"}]

SchedTypeOK ==
  /\ clock \in 0 .. MaxClock /\ lease \in Instances \cup {"none"} /\ schedOps \in 0 .. MaxSchedOps
  /\ sched \in [Instances -> SchedRecord]
  /\ fire \in [Fires -> FireRecord \cup {NoFire}]

(* The marks in _running_jobs are the fires that wait in _pending, one per job, and   *)
(* never more than max_concurrent, whichever of cron, misfire and /cron run fired.     *)
MarksArePending ==
  \A i \in Instances :
    /\ sched[i].running = {fire[p].job : p \in sched[i].pending}
    /\ Cardinality(sched[i].pending) = Cardinality(sched[i].running)
    /\ Cardinality(sched[i].running) <= MaxConcurrent

(* A fire recorded as answered was answered by its own run (on_reply finds fires by    *)
(* session key only).                                                                  *)
AnswersAreOwn == \A r \in Fires : fire[r].end = "reply" => fire[r].at = "done"

(* One slot of a job is fired by one tick, although several instances tick             *)
(* (the purpose of leader_lease).                                                      *)
SlotFiredOnce ==
  \A p, q \in Fires : fire[p].slot # 0 /\ fire[p].job = fire[q].job /\ fire[p].slot = fire[q].slot => p = q
=============================================================================
