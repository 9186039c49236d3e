------------------------------- MODULE MCWork --------------------------------
(* What runs on behalf of a session, for TLC: the turns of its conversation, the  *)
(* rounds of its goals, its plan, its child agents and the heartbeat.  The        *)
(* modules share no variable, so a behaviour of all of them is an interleaving of *)
(* behaviours of each one.  A behaviour of this module picks one part and lets it *)
(* alone move, which reaches every state of that part.                            *)
EXTENDS TurnExecution, GoalDriver, PlanRuntime, Subagents, Heartbeat

VARIABLE part   \* the part that moves

sessionVars == <<part, vars, goalVars, planVars, childVars, beatVars>>

\* max_rounds of a new goal
Limits == [g \in Goals |-> 1]
\* The second step of the plan depends on the first.
StepChain == [s \in Steps |-> IF s = 1 THEN {} ELSE {s - 1}]
-----------------------------------------------------------------------------
\* Everything but part p stays.
Rest(p) ==
  /\ UNCHANGED part
  /\ IF p = "turns" THEN TRUE ELSE UNCHANGED vars
  /\ IF p = "goals" THEN TRUE ELSE UNCHANGED goalVars
  /\ IF p = "plan" THEN TRUE ELSE UNCHANGED planVars
  /\ IF p = "children" THEN TRUE ELSE UNCHANGED childVars
  /\ IF p = "heartbeat" THEN TRUE ELSE UNCHANGED beatVars

WorkInit ==
  /\ part \in {"turns", "goals", "plan", "children", "heartbeat"}
  /\ Init /\ GoalInit /\ PlanInit /\ ChildInit /\ BeatInit

WorkNext ==
  \/ part = "turns" /\ Next /\ Rest("turns")
  \/ part = "goals" /\ GoalNext /\ Rest("goals")
  \/ part = "plan" /\ PlanNext /\ Rest("plan")
  \/ part = "children" /\ ChildNext /\ Rest("children")
  \/ part = "heartbeat" /\ BeatNext /\ Rest("heartbeat")

\* A part that stays in its initial state is fair to turns, goals and plans, of which no
\* fair step is possible there.  The heartbeat begins by itself: its fairness is that of
\* the part that moves.
OnBeat(A) == part = "heartbeat" /\ A /\ Rest("heartbeat")

WorkFairness ==
  /\ Fairness /\ GoalFairness /\ PlanFairness
  /\ WF_sessionVars(OnBeat(BeatRound)) /\ WF_sessionVars(OnBeat(BeatReturns))
  /\ WF_sessionVars(OnBeat(RecoverStuck))

WorkSpec == WorkInit /\ [][WorkNext]_sessionVars /\ WorkFairness
-----------------------------------------------------------------------------
\* The variables of every part have their types.
WorkTypeOK == TypeOK /\ GoalTypeOK /\ PlanTypeOK /\ ChildTypeOK /\ BeatTypeOK

\* At most one autonomous round of a session is in the task runtime, and no goal takes more
\* rounds than its limit; an armed goal has a job or a trigger on its way to a round, and its
\* current round somebody who takes the result.
RoundsAreDriven == OneRoundPerSession /\ RoundsWithinLimit /\ ArmedIsDriven /\ CurrentIsAwaited

\* Work that runs by itself runs once, in order and under somebody's eyes: a step of a plan
\* after the steps it depends on and in one task, one beat at a time; a child reported as
\* running has an observer that will report its end, no other child has a run that nobody
\* asked to stop, and the rows of a team agree with the reports.
WorkIsFollowed ==
  /\ StepsInOrder /\ OneTaskPerStep
  /\ OneBeatAtATime
  /\ ReportsAreTrue /\ RowsFollowReports

\* Work that has begun comes to an end: a turn that the runner waits for ends whatever the
\* agent does, an armed goal is completed, stopped or blocked at its limit after finitely many
\* rounds and an ended one stays ended, an active plan does not stay active for ever, and a
\* heartbeat session that died is evicted.
WorkSettles == TurnEnds /\ GoalSettles /\ GoalsEndOnce /\ PlanSettles /\ StuckIsRecovered
=============================================================================
