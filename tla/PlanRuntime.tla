----------------------------- MODULE PlanRuntime -----------------------------
(* Durable plans: PlanManager (core/plan/manager.py), PlanExecutor           *)
(* (core/plan/runtime.py), its adapter gateway/plan_runtime.py and the plan  *)
(* handlers of the web interface.  One plan.  A step runs as a task of the   *)
(* task runtime, of which only creation, end and cancel request are seen.    *)
(* Actions of the executor are the parts of run() between two awaits.        *)
EXTENDS Naturals, FiniteSets

CONSTANTS
  Steps,        \* the PlanTasks: 1..n in the order of the list
  DependsOn,    \* [Steps -> SUBSET Steps]
  RetryLimit,   \* retry_limit of every step
  Gated,        \* steps with acceptance conditions
  Executors,    \* names for coroutines running run()
  MaxPlanTasks, \* bound: runtime tasks created for the plan
  MaxPlanOps,   \* bound: pauses, resumes and restarts together
  SlowWaits,    \* whether wait_task may run into its time-out
  PromptCallbacks \* whether a done callback runs before any other handler

VARIABLES
  plan,         \* the stored plan: status, and per step its status, attempts, task_id
  stepTask,     \* runtime tasks: "none", "live", "asked" (to cancel) or how they ended
  taskStep,     \* the step a runtime task was made for
  planExec,     \* per executor where it is, and plan_task and runtime_task_id of run()
  planRunner,   \* _running: an executor, or "none"
  startSoon,    \* whether a start that a tool asked for is on the loop
  planOps       \* pauses, resumes and restarts so far

planVars == <<plan, stepTask, taskStep, planExec, planRunner, startSoon, planOps>>

PlanAssumption ==
  /\ Steps \subseteq Nat \ {0} /\ RetryLimit \in Nat /\ MaxPlanTasks \in Nat /\ MaxPlanOps \in Nat
  /\ DependsOn \in [Steps -> SUBSET Steps]
  /\ \A s \in Steps : \A d \in DependsOn[s] : d < s
  /\ "none" \notin Executors

ASSUME PlanAssumption

PlanTasks == 1 .. MaxPlanTasks
PlanTerminal == {"completed", "failed", "cancelled"}
StepTerminal == {"completed", "blocked", "cancelled"}
StepRuns == {"in_progress"}
TaskEnded == {"completed", "failed", "cancelled"}
NoStep == 0

\* The lowest of a set of steps: the first in the order of plan.tasks.
FirstOf(S) == CHOOSE s \in S : \A t \in S : s <= t
-----------------------------------------------------------------------------
(* PlanManager: pure changes of the stored plan                              *)

SetStep(p, s, v) == [p EXCEPT !.step[s] = v]

\* _PLAN_TRANSITIONS, for the states a plan can be in between two operations
PlanMoves == [awaiting_approval |-> {"approved", "cancelled"},
              approved |-> {"active", "cancelled"},
              active |-> {"paused", "completed", "failed", "cancelled"},
              paused |-> {"active", "cancelled"}]
\* transition() raises otherwise.
MayMove(p, st) == p.status \in DOMAIN PlanMoves /\ st \in PlanMoves[p.status]

\* create_preview: draft, and awaiting_approval at once
Preview(p) == [p EXCEPT !.status = "awaiting_approval"]
\* approve
Approved(p) == [p EXCEPT !.status = "approved"]
\* pause
Paused(p) == [p EXCEPT !.status = "paused"]

\* A plausible slip: a dependency that was started counts as done.
RefreshReadyEarly(p) ==
  [p EXCEPT !.step = [s \in Steps |->
    IF p.step[s] = "pending" /\ \A d \in DependsOn[s] : p.step[d] \notin {"pending", "ready"}
    THEN "ready" ELSE p.step[s]]]

\* _refresh_ready
RefreshReady(p) ==
  [p EXCEPT !.step = [s \in Steps |->
    IF p.step[s] = "pending" /\ \A d \in DependsOn[s] : p.step[d] = "completed"
    THEN "ready" ELSE p.step[s]]]

\* The pending steps that depend on f, directly or through pending ones.
Downstream(p, f) ==
  LET waits == {t \in Steps : p.step[t] = "pending"}
  IN {t \in waits : \A C \in SUBSET Steps :
        (f \in C /\ \A u \in waits : DependsOn[u] \cap C # {} => u \in C) => t \in C}

\* _block_downstream
BlockDownstream(p, f) ==
  [p EXCEPT !.step = [s \in Steps |->
    IF s \in Downstream(p, f) THEN "blocked" ELSE p.step[s]]]

\* _refresh_terminal
RefreshTerminal(p) ==
  IF \E s \in Steps : p.step[s] \notin StepTerminal THEN p
  ELSE [p EXCEPT !.status =
          IF \A s \in Steps : p.step[s] = "completed" THEN "completed" ELSE "failed"]

\* activate: approved or paused -> active
Activate(p) == RefreshTerminal(RefreshReady([p EXCEPT !.status = "active"]))

\* finish_task raises for a plan that is gone and for a step that is not running.
FinishRaises(p, s) ==
  \/ p.status \notin {"active", "paused"} \cup PlanTerminal
  \/ (p.status \notin PlanTerminal /\ p.step[s] \notin StepRuns)

\* finish_task: completed, ready for another attempt, or blocked with all that depend on it.
FinishTask(p, s, success) ==
  IF p.status \in PlanTerminal THEN p
  ELSE LET q == IF success THEN SetStep(p, s, "completed")
                ELSE IF p.tries[s] <= RetryLimit THEN SetStep(p, s, "ready")
                ELSE BlockDownstream(SetStep(p, s, "blocked"), s)
           r == RefreshReady(q)
       IN IF p.status = "active" THEN RefreshTerminal(r) ELSE r

\* assign_task and start_task, between which nothing is awaited
AssignTask(p, s, t) ==
  [p EXCEPT !.step[s] = "in_progress", !.tries[s] = @ + 1, !.link[s] = t]

\* manager.cancel
CancelPlan(p) ==
  [p EXCEPT !.status = "cancelled",
            !.step = [s \in Steps |->
              IF p.step[s] \in StepTerminal THEN p.step[s] ELSE "cancelled"]]
-----------------------------------------------------------------------------
(* PlanExecutor                                                              *)

NewTasks == {t \in PlanTasks : stepTask[t] = "none" /\ taskStep[t] = NoStep}
PlanAt(e, where) == planExec[e].at = where
NoPlanRun == [at |-> "off", step |-> NoStep, task |-> 0]

\* run() returns: the coroutine is done, its callback is scheduled.
PlanReturns(e) ==
  planExec' = [planExec EXCEPT ![e] = [NoPlanRun EXCEPT !.at = "done"]] /\ UNCHANGED planRunner

\* The head of the loop, up to the next await: leave, wait for the task of a step
\* that is in flight, or assign the first ready step to a fresh task.
LoopTop(e, p) ==
  LET flying == {s \in Steps : p.step[s] \in StepRuns}
      ready == {s \in Steps : p.step[s] = "ready"}
  IN \/ /\ p.status # "active" \/ flying \cup ready = {}
        /\ plan' = p /\ PlanReturns(e) /\ UNCHANGED taskStep
     \/ /\ p.status = "active" /\ flying # {}
        /\ plan' = p /\ UNCHANGED <<taskStep, planRunner>>
        /\ planExec' = [planExec EXCEPT ![e] =
             [at |-> "wait", step |-> FirstOf(flying), task |-> p.link[FirstOf(flying)]]]
     \/ /\ p.status = "active" /\ flying = {} /\ ready # {}
        /\ NewTasks # {}
        /\ LET s == FirstOf(ready)
               t == FirstOf(NewTasks)
           IN /\ plan' = AssignTask(p, s, t)
              /\ taskStep' = [taskStep EXCEPT ![t] = s]
              /\ planExec' = [planExec EXCEPT ![e] = [at |-> "submit", step |-> s, task |-> t]]
              /\ UNCHANGED planRunner

\* A failure that ends run(): finish_task, whose own exception ends it as well.
FailAndReturn(e) ==
  /\ plan' = IF FinishRaises(plan, planExec[e].step) THEN plan
             ELSE FinishTask(plan, planExec[e].step, FALSE)
  /\ PlanReturns(e)
  /\ UNCHANGED <<stepTask, taskStep, startSoon, planOps>>

\* finish_task with a result, then the end of run() or the head of the loop.
FinishAndLoop(e, success) ==
  IF FinishRaises(plan, planExec[e].step)
  THEN PlanReturns(e) /\ UNCHANGED <<plan, taskStep>>
  ELSE LoopTop(e, FinishTask(plan, planExec[e].step, success))

\* start(): nothing while the planRunner coroutine is not done
StartExecutor(reg, ex) ==
  /\ PromptCallbacks => \A e \in Executors : ex[e].at # "done"
  /\ IF reg # "none" /\ ex[reg].at # "done"
     THEN planRunner' = reg /\ planExec' = ex
     ELSE \E e \in Executors :
            /\ ex[e].at = "off"
            /\ planRunner' = e
            /\ planExec' = [ex EXCEPT ![e] = [NoPlanRun EXCEPT !.at = "begin"]]

\* run() up to its first await
BeginPlan(e) ==
  /\ PlanAt(e, "begin")
  /\ LoopTop(e, IF plan.status = "approved" THEN Activate(plan) ELSE plan)
  /\ UNCHANGED <<stepTask, startSoon, planOps>>

\* submit_task: the task exists once a slot of the limiter is free.
SubmitStep(e) ==
  /\ PlanAt(e, "submit")
  /\ stepTask' = [stepTask EXCEPT ![planExec[e].task] = "live"]
  /\ planExec' = [planExec EXCEPT ![e].at = "wait"]
  /\ UNCHANGED <<plan, taskStep, planRunner, startSoon, planOps>>

\* submit_task raises (no session, no channel, runtime disabled).
SubmitStepRaises(e) == PlanAt(e, "submit") /\ FailAndReturn(e)

\* wait_task: unknown task after a restart, or time-out
WaitFails(e) ==
  /\ PlanAt(e, "wait")
  /\ stepTask[planExec[e].task] = "none" \/ (SlowWaits /\ stepTask[planExec[e].task] \notin TaskEnded)
  /\ FailAndReturn(e)

\* wait_task returns a result.
WaitReturns(e) ==
  /\ PlanAt(e, "wait")
  /\ stepTask[planExec[e].task] \in TaskEnded
  /\ LET ok == stepTask[planExec[e].task] = "completed"
     IN IF plan.status \in PlanTerminal \cup {"none"}
        THEN PlanReturns(e) /\ UNCHANGED <<plan, taskStep>>
        ELSE IF ok /\ planExec[e].step \in Gated
        THEN planExec' = [planExec EXCEPT ![e].at = "gate"] /\ UNCHANGED <<plan, taskStep, planRunner>>
        ELSE FinishAndLoop(e, ok)
  /\ UNCHANGED <<stepTask, startSoon, planOps>>

\* The quality gate answers from its thread.
GateAnswers(e) ==
  /\ PlanAt(e, "gate")
  /\ \E passed \in BOOLEAN : FinishAndLoop(e, passed)
  /\ UNCHANGED <<stepTask, startSoon, planOps>>

\* The done callback forgets whatever coroutine is planRunner.
DoneCallback(e) ==
  /\ PlanAt(e, "done")
  /\ planExec' = [planExec EXCEPT ![e] = NoPlanRun]
  /\ planRunner' = "none"
  /\ UNCHANGED <<plan, stepTask, taskStep, startSoon, planOps>>

\* A plausible slip: the scan looks for steps in flight only.
WatchdogScanInFlight ==
  /\ plan.status = "active"
  /\ planRunner # "none" => planExec[planRunner].at = "done"
  /\ \E s \in Steps : plan.step[s] \in StepRuns
  /\ StartExecutor(planRunner, planExec)
  /\ UNCHANGED <<plan, stepTask, taskStep, startSoon, planOps>>

\* _watchdog_scan: an active plan with something to do that nobody runs
\* (a step in flight always has its task_id, assign_task writes both).
WatchdogScan ==
  /\ plan.status = "active"
  /\ planRunner # "none" => planExec[planRunner].at = "done"
  /\ \E s \in Steps : plan.step[s] \in StepRuns \cup {"ready"}
  /\ StartExecutor(planRunner, planExec)
  /\ UNCHANGED <<plan, stepTask, taskStep, startSoon, planOps>>
-----------------------------------------------------------------------------
(* Users, agents and the process                                             *)

\* save_plan: the whole record, no version compared
SavePlan(p) == plan' = p
\* delete_plan
DeletePlan == plan' = [plan EXCEPT !.status = "none"]
PlanOp == planOps < MaxPlanOps /\ planOps' = planOps + 1
FreshPlan == plan.status = "none" /\ plan.tries = [s \in Steps |-> 0]

\* The plan handler and the /plan command: left for approval, or approved and started
CreatePlan ==
  /\ FreshPlan
  /\ \/ SavePlan(Preview(plan)) /\ UNCHANGED <<planExec, planRunner>>
     \/ SavePlan(Approved(Preview(plan))) /\ StartExecutor(planRunner, planExec)
  /\ UNCHANGED <<stepTask, taskStep, startSoon, planOps>>

\* create_plan of an agent, in the agent's thread: the start is put on the loop.
CreatePlanTool ==
  /\ FreshPlan
  /\ SavePlan(Approved(Preview(plan)))
  /\ startSoon' = TRUE
  /\ UNCHANGED <<stepTask, taskStep, planExec, planRunner, planOps>>

\* The loop gets to it, whatever became of the plan.
StartsSoon ==
  /\ startSoon /\ startSoon' = FALSE
  /\ StartExecutor(planRunner, planExec)
  /\ UNCHANGED <<plan, stepTask, taskStep, planOps>>

\* The approve handler
ApprovePlan ==
  /\ MayMove(plan, "approved")
  /\ SavePlan(Approved(plan))
  /\ StartExecutor(planRunner, planExec)
  /\ UNCHANGED <<stepTask, taskStep, startSoon, planOps>>

\* The reject handler
RejectPlan ==
  /\ plan.status = "awaiting_approval"
  /\ SavePlan(CancelPlan(plan))
  /\ UNCHANGED <<stepTask, taskStep, planExec, planRunner, startSoon, planOps>>

\* pause, of a user or of the hook that follows a stopped parent turn
PausePlan ==
  /\ PlanOp /\ MayMove(plan, "paused")
  /\ SavePlan(Paused(plan))
  /\ UNCHANGED <<stepTask, taskStep, planExec, planRunner, startSoon>>

\* resume: activate, and start unless everything has ended meanwhile
ResumePlan ==
  /\ PlanOp /\ plan.status \in {"paused", "approved"}
  /\ SavePlan(Activate(plan))
  /\ IF plan'.status \in PlanTerminal THEN UNCHANGED <<planExec, planRunner>>
     ELSE StartExecutor(planRunner, planExec)
  /\ UNCHANGED <<stepTask, taskStep, startSoon>>

\* cancel: the plan first, then the tasks of its unfinished steps; one that does not
\* exist yet raises KeyError.
CancelWithTasks ==
  /\ SavePlan(CancelPlan(plan))
  /\ LET ids == {plan.link[s] : s \in {u \in Steps : plan.step[u] \notin StepTerminal}}
     IN stepTask' = [t \in PlanTasks |->
                       IF t \in ids /\ stepTask[t] = "live" THEN "asked" ELSE stepTask[t]]

\* The cancel handler: a plan that has not begun has no tasks.
CancelPlanRequest ==
  /\ MayMove(plan, "cancelled")
  /\ IF plan.status \in {"active", "paused"} THEN CancelWithTasks
     ELSE SavePlan(CancelPlan(plan)) /\ UNCHANGED stepTask
  /\ UNCHANGED <<taskStep, planExec, planRunner, startSoon, planOps>>

\* stop_session_runtime: every plan of the session that is not terminal
StopSession ==
  /\ MayMove(plan, "cancelled")
  /\ CancelWithTasks
  /\ UNCHANGED <<taskStep, planExec, planRunner, startSoon, planOps>>

\* archive_terminal: the record is deleted.
ArchivePlan ==
  /\ plan.status \in PlanTerminal
  /\ DeletePlan
  /\ UNCHANGED <<stepTask, taskStep, planExec, planRunner, startSoon, planOps>>

\* The task runtime ends a task; one that was asked may still finish by itself.
TaskEnds(t) ==
  /\ stepTask[t] \in {"live", "asked"}
  /\ \E how \in {"completed", "failed"} \cup (IF stepTask[t] = "asked" THEN {"cancelled"} ELSE {}) :
       stepTask' = [stepTask EXCEPT ![t] = how]
  /\ UNCHANGED <<plan, taskStep, planExec, planRunner, startSoon, planOps>>

\* A plausible slip: steps in flight are made ready again.
RestartPlansRequeue ==
  /\ PlanOp /\ startSoon' = FALSE
  /\ planExec' = [e \in Executors |-> NoPlanRun] /\ planRunner' = "none"
  /\ SavePlan([plan EXCEPT !.step = [s \in Steps |->
       IF plan.step[s] \in StepRuns THEN "ready" ELSE plan.step[s]]])
  /\ UNCHANGED <<stepTask, taskStep>>

\* The process restarts: coroutines are gone, recover_persisted_plans starts an
\* executor for an approved or active plan; persisted tasks go on.
RestartPlans ==
  /\ PlanOp /\ startSoon' = FALSE
  /\ LET off == [e \in Executors |-> NoPlanRun]
     IN IF plan.status \in {"approved", "active"} THEN StartExecutor("none", off)
        ELSE planExec' = off /\ planRunner' = "none"
  /\ UNCHANGED <<plan, stepTask, taskStep>>

PlanInit ==
  /\ plan = [status |-> "none", step |-> [s \in Steps |-> "pending"],
             tries |-> [s \in Steps |-> 0], link |-> [s \in Steps |-> 0]]
  /\ stepTask = [t \in PlanTasks |-> "none"]
  /\ taskStep = [t \in PlanTasks |-> NoStep]
  /\ planExec = [e \in Executors |-> NoPlanRun]
  /\ planRunner = "none"
  /\ startSoon = FALSE
  /\ planOps = 0

RunPlan(e) ==
  BeginPlan(e) \/ SubmitStep(e) \/ WaitFails(e) \/ WaitReturns(e) \/ GateAnswers(e) \/ DoneCallback(e)

PlanNext ==
  \/ \E e \in Executors : RunPlan(e) \/ SubmitStepRaises(e)
  \/ WatchdogScan \/ CreatePlan \/ CreatePlanTool \/ StartsSoon \/ ApprovePlan \/ RejectPlan
  \/ PausePlan \/ ResumePlan \/ CancelPlanRequest \/ StopSession \/ ArchivePlan \/ RestartPlans
  \/ \E t \in PlanTasks : TaskEnds(t)

PlanFairness ==
  /\ \A e \in Executors : WF_planVars(RunPlan(e))
  /\ \A t \in PlanTasks : WF_planVars(TaskEnds(t))
  /\ WF_planVars(WatchdogScan) /\ WF_planVars(StartsSoon)

PlanSpec == PlanInit /\ [][PlanNext]_planVars /\ PlanFairness
-----------------------------------------------------------------------------
(* Properties                                                                *)

\* The variables have their types.
PlanTypeOK ==
  /\ plan.status \in {"none", "awaiting_approval", "approved", "active", "paused"} \cup PlanTerminal
  /\ plan.step \in [Steps -> {"pending", "ready"} \cup StepRuns \cup StepTerminal]
  /\ plan.tries \in [Steps -> 0 .. RetryLimit + 1]
  /\ plan.link \in [Steps -> 0 .. MaxPlanTasks]
  /\ stepTask \in [PlanTasks -> {"none", "live", "asked"} \cup TaskEnded]
  /\ taskStep \in [PlanTasks -> Steps \cup {NoStep}]
  /\ \A e \in Executors : planExec[e] \in
       [at : {"off", "begin", "submit", "wait", "gate", "done"},
        step : Steps \cup {NoStep}, task : 0 .. MaxPlanTasks]
  /\ startSoon \in BOOLEAN
  /\ planRunner \in Executors \cup {"none"}
  /\ planOps \in 0 .. MaxPlanOps

\* A step has a task, running or ended, only after everything it depends on has
\* been completed, whatever pauses, retries, cancels and restarts came between.
StepsInOrder ==
  \A t \in PlanTasks : taskStep[t] # NoStep =>
    \A d \in DependsOn[taskStep[t]] : plan.step[d] = "completed"

\* A step never has two tasks that run at the same time: the executor waits for
\* the task of a step in flight instead of creating another one.
OneTaskPerStep ==
  \A t, u \in PlanTasks : (taskStep[t] = taskStep[u] /\ {stepTask[t], stepTask[u]} \subseteq {"live", "asked"}) => t = u

\* An active plan does not stay active for ever: failed submissions, lost tasks,
\* retries and restarts leave something that the executor or the watchdog takes up.
PlanSettles == (plan.status = "active") ~> (plan.status # "active")
=============================================================================
