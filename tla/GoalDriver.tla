------------------------------ MODULE GoalDriver ------------------------------
(* Durable goals: GoalRuntime (core/goal/runtime.py), GoalRoundDriver        *)
(* (core/goal/driver.py) and the handlers and tools that change a goal.  The *)
(* goals of one session.  A round runs as a task of the task runtime, of     *)
(* which only creation, end and cancel request are seen.  Actions of a job   *)
(* are the parts of _drive() between two awaits.                             *)
EXTENDS Naturals, Sequences, FiniteSets

CONSTANTS
  Goals,         \* goal ids
  Jobs,          \* names for coroutines running _drive()
  FirstLimit,    \* [Goals -> max_rounds given to create]
  RoundCap,      \* bound: the highest max_rounds
  MaxGoalTasks,  \* bound: rounds somebody still refers to; other ids are used again
  MaxGoalOps,    \* bound: operations of users, agents and the process
  PromptCancels, \* whether a round nobody awaits any more ends before the next is reserved
  QuietRounds,   \* whether user work leaves running rounds alone
  PromptTools    \* whether a tool's read and write of a goal are not interleaved

VARIABLES
  goal,          \* the stored goals
  job,           \* per coroutine its goal, where it is, its round, a pending call_soon
  jobs,          \* _jobs: goal -> coroutine, or "none"
  line,          \* waiters of the session's gate, in order
  round,         \* runtime tasks: "none", "live", "asked" (to cancel) or how they ended
  pausing,       \* goals whose pause_async awaits the cancel hook
  triggers,      \* goals with a trigger that a tool put on the loop
  toolRead,      \* what the thread of a tool has read: a goal's id and record
  userWork,      \* _user_work_waiting
  goalOps        \* operations so far

goalVars == <<goal, job, jobs, line, round, pausing, triggers, toolRead, userWork, goalOps>>

GoalAssumption ==
  /\ "none" \notin Jobs \cup Goals
  /\ RoundCap \in Nat /\ MaxGoalTasks \in Nat /\ MaxGoalOps \in Nat
  /\ FirstLimit \in [Goals -> 1 .. RoundCap]

ASSUME GoalAssumption

Rounds == 1 .. MaxGoalTasks
GoalTerminal == {"completed", "cancelled"}
RoundRuns == {"live", "asked"}
RoundEnded == {"completed", "failed", "cancelled"}
NoJob == [goal |-> "none", at |-> "off", task |-> 0, soon |-> FALSE, error |-> FALSE]
NoRead == [id |-> "none"]

\* Goal.is_armed
IsArmed(r) == r.status = "active" /\ r.armed
\* The test that _drive makes three times before it reserves a round.
WantsRound(r) == IsArmed(r) /\ r.current = 0
\* A plausible slip: the limit is compared one round too late.
RoundsSpentLate(r) == r.rounds > r.max
\* The limit at which _drive, and reserve_round itself, block the goal
RoundsSpent(r) == r.rounds >= r.max
-----------------------------------------------------------------------------
(* GoalRuntime: pure changes of a stored goal                                *)

\* A plausible slip: rounds are not counted.
ReserveRoundUncounted(r, t) == [r EXCEPT !.current = t]
\* reserve_round
ReserveRound(r, t) == [r EXCEPT !.rounds = @ + 1, !.current = t]
\* finish_round
FinishRound(r) == [r EXCEPT !.current = 0]
\* pause
PauseRecord(r) == [r EXCEPT !.status = "paused", !.armed = FALSE, !.current = 0]
\* resume
ResumeRecord(r) == [r EXCEPT !.status = "active", !.armed = TRUE, !.current = 0]
\* A plausible slip: a stopped round leaves its id.
DisarmRecordKeeps(r) == IF r.status \in GoalTerminal THEN r ELSE [r EXCEPT !.armed = FALSE]
\* disarm
DisarmRecord(r) ==
  IF r.status \in GoalTerminal THEN r ELSE [r EXCEPT !.armed = FALSE, !.current = 0]
\* A plausible slip: a blocked goal stays armed.
BlockRecordArmed(r) == [r EXCEPT !.current = 0]
\* block
BlockRecord(r) == [r EXCEPT !.status = "blocked", !.armed = FALSE, !.current = 0]
\* cancel
CancelRecord(r) == [r EXCEPT !.status = "cancelled", !.armed = FALSE, !.current = 0]
\* _finish_complete
CompleteRecord(r) == [r EXCEPT !.status = "completed", !.armed = FALSE, !.current = 0]
-----------------------------------------------------------------------------
(* GoalRoundDriver                                                           *)

FreeJobs(js) == {j \in Jobs : js[j].at = "off"}

\* trigger: nothing while the registered job of the goal is not done
TriggerGoal(g, js, reg) ==
  IF reg[g] # "none" /\ js[reg[g]].at # "done"
  THEN job' = js /\ jobs' = reg
  ELSE /\ FreeJobs(js) # {}
       /\ LET j == CHOOSE x \in FreeJobs(js) : TRUE
          IN /\ job' = [js EXCEPT ![j] = [NoJob EXCEPT !.goal = g, !.at = "sleep"]]
             /\ jobs' = [reg EXCEPT ![g] = j]

\* A coroutine that has returned: its trigger by call_soon, or the round of an error.
Left(w, soon, error) ==
  [w EXCEPT !.at = "done", !.task = IF error THEN w.task ELSE 0, !.soon = soon, !.error = error]

\* _drive returns: its callback is scheduled, after a call_soon it made.
Leave(j, soon, error) == job' = [job EXCEPT ![j] = Left(@, soon, error)]

\* A plausible slip: the gate is given back once the round is submitted.
GateHoldersSubmit == {j \in Jobs : job[j].at = "submit"}

\* The jobs inside the gate of the session
GateHolders == {j \in Jobs : job[j].at \in {"submit", "wait", "timeout"}}

AwaitsRound(t) == \E j \in Jobs : job[j].task = t /\ job[j].at = "wait"

\* With the gate held, the goal is read again: nothing to do, the limit of rounds
\* is reached, or a round is reserved.
UnderGate(j) ==
  LET r == goal[job[j].goal]
      fresh == {t \in Rounds : round[t] = "none"}
  IN \/ /\ ~WantsRound(r)
        /\ Leave(j, FALSE, FALSE) /\ UNCHANGED <<goal, round>>
     \/ /\ WantsRound(r) /\ RoundsSpent(r)
        /\ goal' = [goal EXCEPT ![job[j].goal] = BlockRecord(@)]
        /\ Leave(j, FALSE, FALSE) /\ UNCHANGED round
     \/ /\ WantsRound(r) /\ ~RoundsSpent(r)
        /\ fresh # {}
        /\ PromptCancels => \A t \in Rounds : round[t] \in RoundRuns => AwaitsRound(t)
        /\ LET t == CHOOSE x \in fresh : \A y \in fresh : x <= y
           IN /\ goal' = [goal EXCEPT ![job[j].goal] = ReserveRound(@, t)]
              /\ round' = [round EXCEPT ![t] = "reserved"]
              /\ job' = [job EXCEPT ![j].at = "submit", ![j].task = t]

\* After idle_delay, and after each poll while user work is waiting.
Wake(j) ==
  /\ job[j].at \in {"sleep", "drain"}
  /\ \/ /\ ~WantsRound(goal[job[j].goal])
        /\ Leave(j, FALSE, FALSE) /\ UNCHANGED <<goal, round, line>>
     \/ /\ WantsRound(goal[job[j].goal]) /\ userWork /\ job[j].at = "sleep"
        /\ job' = [job EXCEPT ![j].at = "drain"] /\ UNCHANGED <<goal, round, line>>
     \/ /\ WantsRound(goal[job[j].goal]) /\ ~userWork
        /\ IF GateHolders = {} /\ line = <<>>
           THEN UnderGate(j) /\ UNCHANGED line
           ELSE /\ line' = Append(line, j)
                /\ job' = [job EXCEPT ![j].at = "gate"] /\ UNCHANGED <<goal, round>>
  /\ UNCHANGED <<jobs, pausing, triggers, toolRead, userWork, goalOps>>

\* The gate is released to its first waiter.
GateOpens(j) ==
  /\ job[j].at = "gate" /\ Head(line) = j /\ GateHolders = {}
  /\ line' = Tail(line)
  /\ UnderGate(j)
  /\ UNCHANGED <<jobs, pausing, triggers, toolRead, userWork, goalOps>>

\* submit_goal_task, once a slot of the limiter is free
SubmitRound(j) ==
  /\ job[j].at = "submit"
  /\ round' = [round EXCEPT ![job[j].task] = "live"]
  /\ job' = [job EXCEPT ![j].at = "wait"]
  /\ UNCHANGED <<goal, jobs, line, pausing, triggers, toolRead, userWork, goalOps>>

\* submit_goal_task raises: session capacity, or a closed runtime.
SubmitRoundRaises(j) ==
  /\ job[j].at = "submit"
  /\ Leave(j, FALSE, TRUE)
  /\ UNCHANGED <<goal, round, jobs, line, pausing, triggers, toolRead, userWork, goalOps>>

\* The result of the round; of one that has been replaced it is dropped.
RoundReturns(j) ==
  /\ job[j].at = "wait" /\ round[job[j].task] \in RoundEnded
  /\ LET g == job[j].goal
         r == goal[g]
         how == round[job[j].task]
         done == FinishRound(r)
     IN IF r.current # job[j].task
        THEN Leave(j, FALSE, FALSE) /\ UNCHANGED goal
        ELSE /\ goal' = [goal EXCEPT ![g] =
                  CASE how = "completed" -> done
                    [] how = "cancelled" -> DisarmRecord(r)
                    [] OTHER -> BlockRecord(r)]
             /\ Leave(j, how = "completed" /\ IsArmed(done) /\ ~userWork, FALSE)
  /\ round' = [round EXCEPT ![job[j].task] = "none"]
  /\ UNCHANGED <<jobs, line, pausing, triggers, toolRead, userWork, goalOps>>

\* wait_for runs into round_wait_seconds: the goal is blocked first.
RoundTimesOut(j) ==
  /\ job[j].at = "wait" /\ round[job[j].task] \in RoundRuns
  /\ IF goal[job[j].goal].current # job[j].task
     THEN Leave(j, FALSE, FALSE) /\ UNCHANGED goal
     ELSE /\ goal' = [goal EXCEPT ![job[j].goal] = BlockRecord(@)]
          /\ job' = [job EXCEPT ![j].at = "timeout"]
  /\ UNCHANGED <<jobs, line, round, pausing, triggers, toolRead, userWork, goalOps>>

AskRound(t) ==
  [round EXCEPT ![t] = IF round[t] = "live" THEN "asked" ELSE round[t]]

\* ... and the task is cancelled after that.
CancelLateRound(j) ==
  /\ job[j].at = "timeout"
  /\ round' = AskRound(job[j].task)
  /\ Leave(j, FALSE, FALSE)
  /\ UNCHANGED <<goal, jobs, line, pausing, triggers, toolRead, userWork, goalOps>>

\* The trigger that a completed round put on the loop.
SoonTrigger(j) ==
  /\ job[j].at = "done" /\ job[j].soon
  /\ TriggerGoal(job[j].goal, [job EXCEPT ![j].soon = FALSE], jobs)
  /\ UNCHANGED <<goal, line, round, pausing, triggers, toolRead, userWork, goalOps>>

\* A plausible slip: a job that ends never triggers again.
JobDoneSilent(j) ==
  /\ job[j].at = "done" /\ ~job[j].soon
  /\ goal' = IF job[j].error /\ goal[job[j].goal].status \notin GoalTerminal \cup {"gone"}
             THEN [goal EXCEPT ![job[j].goal] = BlockRecord(@)] ELSE goal
  /\ round' = IF job[j].error THEN [round EXCEPT ![job[j].task] = "none"] ELSE round
  /\ jobs' = [jobs EXCEPT ![job[j].goal] = "none"]
  /\ job' = [job EXCEPT ![j] = NoJob]
  /\ UNCHANGED <<line, pausing, triggers, toolRead, userWork, goalOps>>

\* _job_done: forgets whatever job is registered; blocks the goal after an error,
\* otherwise triggers again.
JobDone(j) ==
  /\ job[j].at = "done" /\ ~job[j].soon
  /\ LET g == job[j].goal
         js == [job EXCEPT ![j] = NoJob]
         reg == [jobs EXCEPT ![g] = "none"]
     IN \/ /\ job[j].error
           /\ goal' = IF goal[g].status \in GoalTerminal \cup {"gone"} THEN goal
                      ELSE [goal EXCEPT ![g] = BlockRecord(@)]
           /\ round' = [round EXCEPT ![job[j].task] = "none"]
           /\ job' = js /\ jobs' = reg
        \/ /\ ~job[j].error /\ WantsRound(goal[g]) /\ ~userWork
           /\ TriggerGoal(g, js, reg) /\ UNCHANGED <<goal, round>>
        \/ /\ ~job[j].error /\ ~(WantsRound(goal[g]) /\ ~userWork)
           /\ job' = js /\ jobs' = reg /\ UNCHANGED <<goal, round>>
  /\ UNCHANGED <<line, pausing, triggers, toolRead, userWork, goalOps>>
-----------------------------------------------------------------------------
(* Users, agents, plans and the process                                      *)

\* save_goal: the whole record, no version compared
SaveGoal(g, r) == goal' = [goal EXCEPT ![g] = r]
\* delete_goal
DeleteGoal(g) == goal' = [goal EXCEPT ![g] = [CancelRecord(@) EXCEPT !.status = "gone"]]
\* create
NewGoal(r) == [r EXCEPT !.status = "active", !.armed = TRUE]
GoalOp == goalOps < MaxGoalOps /\ goalOps' = goalOps + 1
Open(g) == goal[g].status \in {"active", "paused", "blocked"}

\* The create handler and the /goal command
CreateGoal(g) ==
  /\ goal[g].status = "none"
  /\ SaveGoal(g, NewGoal(goal[g]))
  /\ TriggerGoal(g, job, jobs)
  /\ UNCHANGED <<line, round, pausing, triggers, toolRead, userWork, goalOps>>

\* create_goal of an agent, in the agent's thread: the trigger is put on the loop.
CreateGoalTool(g) ==
  /\ goal[g].status = "none"
  /\ SaveGoal(g, NewGoal(goal[g]))
  /\ triggers' = triggers \cup {g}
  /\ UNCHANGED <<job, jobs, line, round, pausing, toolRead, userWork, goalOps>>

TriggersSoon(g) ==
  /\ g \in triggers /\ triggers' = triggers \ {g}
  /\ TriggerGoal(g, job, jobs)
  /\ UNCHANGED <<goal, line, round, pausing, toolRead, userWork, goalOps>>

\* pause_async up to the cancel hook it awaits
AskPause(g) ==
  /\ GoalOp
  /\ goal[g].status = "active" /\ goal[g].current # 0 /\ g \notin pausing
  /\ round' = AskRound(goal[g].current)
  /\ pausing' = pausing \cup {g}
  /\ UNCHANGED <<goal, job, jobs, line, triggers, toolRead, userWork>>

\* pause: the end of pause_async, or the hook of a stopped parent turn; a goal
\* that is not active any more raises.
PauseGoal(g) ==
  /\ g \in pausing \/ goalOps < MaxGoalOps
  /\ goalOps' = IF g \in pausing THEN goalOps ELSE goalOps + 1
  /\ g \in pausing \/ goal[g].status = "active"
  /\ pausing' = pausing \ {g}
  /\ IF goal[g].status = "active"
     THEN /\ SaveGoal(g, PauseRecord(goal[g]))
          /\ round' = IF goal[g].current = 0 THEN round ELSE AskRound(goal[g].current)
     ELSE UNCHANGED <<goal, round>>
  /\ UNCHANGED <<job, jobs, line, triggers, toolRead, userWork>>

\* The resume handler, also for an active goal
ResumeGoal(g) ==
  /\ GoalOp /\ Open(g)
  /\ SaveGoal(g, ResumeRecord(goal[g]))
  /\ TriggerGoal(g, job, jobs)
  /\ UNCHANGED <<line, round, pausing, triggers, toolRead, userWork>>

\* resume_goal of an agent
ResumeGoalTool(g) ==
  /\ GoalOp /\ Open(g)
  /\ SaveGoal(g, ResumeRecord(goal[g]))
  /\ triggers' = triggers \cup {g}
  /\ UNCHANGED <<job, jobs, line, round, pausing, toolRead, userWork>>

\* The cancel handler: the running round is not asked.
CancelGoal(g) ==
  /\ GoalOp /\ Open(g)
  /\ SaveGoal(g, CancelRecord(goal[g]))
  /\ UNCHANGED <<job, jobs, line, round, pausing, triggers, toolRead, userWork>>

\* complete (complete_async awaits nothing without acceptance conditions)
CompleteGoal(g) ==
  /\ GoalOp /\ goal[g].status = "active"
  /\ SaveGoal(g, CompleteRecord(goal[g]))
  /\ UNCHANGED <<job, jobs, line, round, pausing, triggers, toolRead, userWork>>

\* reconcile_plan: the plan of the goal has failed or was cancelled (a completed one
\* completes the goal).
ReconcilePlan(g) ==
  /\ GoalOp /\ Open(g)
  /\ SaveGoal(g, BlockRecord(goal[g]))
  /\ UNCHANGED <<job, jobs, line, round, pausing, triggers, toolRead, userWork>>

\* stop_session_runtime: the round is asked, then the goal is cancelled.
StopGoal(g) ==
  /\ GoalOp /\ Open(g)
  /\ round' = IF goal[g].current = 0 THEN round ELSE AskRound(goal[g].current)
  /\ SaveGoal(g, CancelRecord(goal[g]))
  /\ UNCHANGED <<job, jobs, line, pausing, triggers, toolRead, userWork>>

\* archive deletes the row, of an open goal too.
ArchiveGoal(g) ==
  /\ GoalOp /\ goal[g].status \notin {"none", "gone"}
  /\ DeleteGoal(g)
  /\ UNCHANGED <<job, jobs, line, round, pausing, triggers, toolRead, userWork>>

\* update_max_rounds refuses a limit below the rounds already started.
UpdateMaxRounds(g) ==
  /\ GoalOp /\ Open(g)
  /\ \E n \in 1 .. RoundCap : n >= goal[g].rounds /\ goal' = [goal EXCEPT ![g].max = n]
  /\ UNCHANGED <<job, jobs, line, round, pausing, triggers, toolRead, userWork>>

\* A tool in an agent's thread reads a goal it is going to cancel ...
ToolReads(g) ==
  /\ GoalOp /\ toolRead = NoRead /\ Open(g)
  /\ toolRead' = [id |-> g, record |-> goal[g]]
  /\ UNCHANGED <<goal, job, jobs, line, round, pausing, triggers, userWork>>

\* ... and writes it back with the changed status (save_goal compares no version).
ToolWrites ==
  /\ toolRead # NoRead
  /\ SaveGoal(toolRead.id, CancelRecord(toolRead.record))
  /\ toolRead' = NoRead
  /\ UNCHANGED <<job, jobs, line, round, pausing, triggers, userWork, goalOps>>

\* User, system or plan work of the session comes and goes.
UserWorkStarts ==
  /\ GoalOp /\ ~userWork
  /\ QuietRounds => \A j \in Jobs : job[j].at \in {"off", "sleep", "drain"}
  /\ userWork' = TRUE
  /\ UNCHANGED <<goal, job, jobs, line, round, pausing, triggers, toolRead>>

UserWorkEnds ==
  /\ userWork /\ userWork' = FALSE
  /\ UNCHANGED <<goal, job, jobs, line, round, pausing, triggers, toolRead, goalOps>>

\* The task runtime ends a round; one that was asked may still finish by itself.
RoundEnds(t) ==
  /\ round[t] \in RoundRuns
  /\ \E how \in {"completed", "failed"} \cup (IF round[t] = "asked" THEN {"cancelled"} ELSE {}) :
       round' = [round EXCEPT ![t] =
                   IF AwaitsRound(t) THEN how ELSE "none"]
  /\ UNCHANGED <<goal, job, jobs, line, pausing, triggers, toolRead, userWork, goalOps>>

\* The process restarts: jobs are gone, running rounds are not replayed, and
\* recover_persisted_plans disarms a goal whose round was cut and triggers the others.
RestartGoals ==
  /\ GoalOp
  /\ goal' = [g \in Goals |-> IF IsArmed(goal[g]) /\ goal[g].current # 0
                              THEN DisarmRecord(goal[g]) ELSE goal[g]]
  /\ round' = [t \in Rounds |-> "none"]
  /\ LET again == {g \in Goals : WantsRound(goal[g])}
         f == CHOOSE x \in [again -> Jobs] : \A g, h \in again : x[g] = x[h] => g = h
     IN   /\ jobs' = [g \in Goals |-> IF g \in again THEN f[g] ELSE "none"]
          /\ job' = [j \in Jobs |->
               IF \E g \in again : f[g] = j
               THEN [NoJob EXCEPT !.goal = CHOOSE g \in again : f[g] = j, !.at = "sleep"]
               ELSE NoJob]
  /\ line' = <<>> /\ pausing' = {} /\ triggers' = {} /\ toolRead' = NoRead
  /\ UNCHANGED userWork

GoalInit ==
  /\ goal = [g \in Goals |-> [status |-> "none", armed |-> FALSE, rounds |-> 0,
                              max |-> FirstLimit[g], current |-> 0]]
  /\ job = [j \in Jobs |-> NoJob]
  /\ jobs = [g \in Goals |-> "none"]
  /\ line = <<>>
  /\ round = [t \in Rounds |-> "none"]
  /\ pausing = {}
  /\ triggers = {}
  /\ toolRead = NoRead
  /\ userWork = FALSE
  /\ goalOps = 0

DriveGoal(j) ==
  \/ Wake(j) \/ GateOpens(j) \/ SubmitRound(j) \/ RoundReturns(j) \/ CancelLateRound(j)
  \/ SoonTrigger(j) \/ JobDone(j)

GoalNext ==
  \/ ToolWrites
  \/ /\ PromptTools => toolRead = NoRead
     /\ \/ \E j \in Jobs : DriveGoal(j) \/ SubmitRoundRaises(j) \/ RoundTimesOut(j)
        \/ \E g \in Goals :
             \/ CreateGoal(g) \/ CreateGoalTool(g) \/ TriggersSoon(g) \/ AskPause(g) \/ PauseGoal(g) \/ ResumeGoal(g)
             \/ ResumeGoalTool(g) \/ CancelGoal(g) \/ CompleteGoal(g) \/ ReconcilePlan(g) \/ StopGoal(g)
             \/ ArchiveGoal(g) \/ UpdateMaxRounds(g) \/ ToolReads(g)
        \/ UserWorkStarts \/ UserWorkEnds \/ RestartGoals
        \/ \E t \in Rounds : RoundEnds(t)

GoalFairness ==
  /\ \A j \in Jobs : WF_goalVars(DriveGoal(j))
  /\ \A t \in Rounds : WF_goalVars(RoundEnds(t))
  /\ \A g \in Goals : WF_goalVars(TriggersSoon(g))
  /\ WF_goalVars(UserWorkEnds) /\ WF_goalVars(ToolWrites)

GoalSpec == GoalInit /\ [][GoalNext]_goalVars /\ GoalFairness
-----------------------------------------------------------------------------
(* Properties                                                                *)

\* The variables have their types.
GoalTypeOK ==
  /\ goal \in [Goals -> [status : {"none", "active", "paused", "blocked", "gone"} \cup GoalTerminal,
                         armed : BOOLEAN, rounds : 0 .. RoundCap, max : 1 .. RoundCap,
                         current : 0 .. MaxGoalTasks]]
  /\ \A j \in Jobs : job[j].at \in {"off", "sleep", "drain", "gate", "submit", "wait", "timeout", "done"}
  /\ jobs \in [Goals -> Jobs \cup {"none"}]
  /\ line \in Seq(Jobs)
  /\ round \in [Rounds -> {"none", "reserved"} \cup RoundRuns \cup RoundEnded]
  /\ pausing \subseteq Goals /\ triggers \subseteq Goals /\ userWork \in BOOLEAN /\ goalOps \in 0 .. MaxGoalOps

\* At most one autonomous round of the session is in the task runtime, also while
\* goals are paused, resumed, cancelled or deleted around it.
OneRoundPerSession ==
  Cardinality({t \in Rounds : round[t] \in RoundRuns}) <= 1

\* A goal never takes more rounds than its limit, which may be changed while one runs.
RoundsWithinLimit == \A g \in Goals : goal[g].rounds <= goal[g].max

\* An armed goal without a round has a job, or a trigger, on its way to one: nothing but a
\* user's next operation could move it otherwise.
ArmedIsDriven ==
  \A g \in Goals : WantsRound(goal[g]) => g \in triggers \/ \E j \in Jobs : job[j].goal = g

\* The round a goal waits for belongs to a job that will take its result.
CurrentIsAwaited ==
  \A g \in Goals : goal[g].current # 0 =>
    \E j \in Jobs : job[j].goal = g /\ job[j].task = goal[g].current

\* An ended goal stays ended, whatever its running round does afterwards, and the
\* rounds of a goal are never forgotten.
GoalsEndOnce ==
  [][\A g \in Goals :
       /\ goal[g].status \in GoalTerminal => goal'[g].status \in {goal[g].status, "gone"}
       /\ goal[g].status = "gone" => goal'[g].status = "gone"
       /\ goal'[g].rounds >= goal[g].rounds]_goalVars

\* An armed goal does not stay armed for ever: its rounds go on until it is
\* completed, stopped or blocked at its limit.
GoalSettles == \A g \in Goals : IsArmed(goal[g]) ~> ~IsArmed(goal[g])

\* Triggers of one goal coalesce into one job.
OneJobPerGoal ==
  \A j, k \in Jobs : (job[j].goal = job[k].goal /\ {job[j].at, job[k].at} \cap {"off", "done"} = {})
                     => j = k
=============================================================================
