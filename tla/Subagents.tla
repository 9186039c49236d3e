------------------------------ MODULE Subagents ------------------------------
(* Child agents: SubagentRuntime (core/subagent/runtime.py) over the teams   *)
(* and team_members tables.  The children of one parent session.  A run of a *)
(* child is a task of the task runtime; each run has one observing coroutine.*)
EXTENDS Naturals, FiniteSets

CONSTANTS
  Children,       \* child ids
  MaxChildren,    \* max_children of a team
  MaxChildTasks,  \* bound: runs of children
  MaxChildOps,    \* bound: continuations, cancels, archives and restarts
  PromptCalls     \* whether a create or continue call is over before the next
                  \* operation on its child, an observer begins at once and has
                  \* reported an ended run before the process stops

VARIABLES
  member,         \* team_members: per child its status and task_id
  report,         \* _reports, "absent" where the process has none
  calls,          \* children with a create or continue_child that awaits submit
  childRun,       \* runtime tasks: "none", "live", "asked" (to cancel) or how they ended
  runner,         \* the child of a runtime task
  observer,       \* per run its _observe(): "none", "new" or "waits", and the task awaited
  watched,        \* _tasks: per child the run whose observer is registered, or 0
  stopping,       \* children whose cancel_child awaits the cancel of the task
  childOps        \* operations so far

childVars == <<member, report, calls, childRun, runner, observer, watched, stopping, childOps>>

ChildAssumption ==
  /\ "none" \notin Children
  /\ MaxChildren \in Nat /\ MaxChildTasks \in Nat /\ MaxChildOps \in Nat

ASSUME ChildAssumption

ChildRuns == 1 .. MaxChildTasks
RunEnded == {"completed", "failed", "cancelled", "interrupted"}
NoRow == [status |-> "none", task |-> 0]
Absent == [status |-> "absent", task |-> 0]
NoObserver == [at |-> "none", task |-> 0]
Latest(s, t) == [status |-> s, task |-> t]

\* get_report: the process's own report, else the one made from the row
ReportOf(c) == IF report[c] = Absent THEN member[c] ELSE report[c]
Known(c) == ReportOf(c).status # "none"

\* A report changes together with its row, where there is one.
Publish(c, r) ==
  /\ report' = [report EXCEPT ![c] = r]
  /\ member' = IF member[c] = NoRow THEN member ELSE [member EXCEPT ![c] = r]

Quiet(c) ==
  PromptCalls => c \notin calls \cup stopping /\ \A t \in ChildRuns : runner[t] = c => observer[t].at # "new"
ChildOp == childOps < MaxChildOps /\ childOps' = childOps + 1
-----------------------------------------------------------------------------
\* create up to submit: create_team_member counts every row of the team, also
\* those of children that ended; a refused child keeps its report.
CreateChild(c) ==
  /\ report[c] = Absent /\ member[c] = NoRow
  /\ report' = [report EXCEPT ![c] = Latest("requested", 0)]
  /\ IF Cardinality({d \in Children : member[d] # NoRow}) < MaxChildren
     THEN /\ member' = [member EXCEPT ![c] = Latest("requested", 0)]
          /\ calls' = calls \cup {c}
     ELSE UNCHANGED <<member, calls>>
  /\ UNCHANGED <<childRun, runner, observer, watched, stopping, childOps>>

\* continue_child up to submit, of a child that is not running
ContinueChild(c) ==
  /\ ChildOp /\ Quiet(c)
  /\ Known(c) /\ ReportOf(c).status # "running"
  /\ report' = [report EXCEPT ![c] = ReportOf(c)]
  /\ calls' = calls \cup {c}
  /\ UNCHANGED <<member, childRun, runner, observer, watched, stopping>>

\* submit_subagent_task returns the task: the child is running and observed.
SubmitChild(c) ==
  /\ c \in calls /\ calls' = calls \ {c}
  /\ \E t \in ChildRuns :
       /\ runner[t] = "none" /\ \A u \in ChildRuns : u < t => runner[u] # "none"
       /\ childRun' = [childRun EXCEPT ![t] = "live"]
       /\ runner' = [runner EXCEPT ![t] = c]
       /\ observer' = [observer EXCEPT ![t].at = "new"]
       /\ watched' = [watched EXCEPT ![c] = t]
       /\ Publish(c, Latest("running", t))
  /\ UNCHANGED <<stopping, childOps>>

\* ... or raises: no capacity, no runtime.  Row and report stay as they are.
SubmitChildRaises(c) ==
  /\ c \in calls /\ calls' = calls \ {c}
  /\ UNCHANGED <<member, report, childRun, runner, observer, watched, stopping, childOps>>

\* _observe reads the task of the report when it is first scheduled.
ObserverBegins(t) ==
  /\ observer[t].at = "new"
  /\ observer' = [observer EXCEPT ![t] = [at |-> "waits", task |-> report[runner[t]].task]]
  /\ UNCHANGED <<member, report, calls, childRun, runner, watched, stopping, childOps>>

\* The task it awaits has ended.
ObserverReports(t) ==
  /\ observer[t].at = "waits" /\ childRun[observer[t].task] \in RunEnded
  /\ Publish(runner[t], [report[runner[t]] EXCEPT !.status = childRun[observer[t].task]])
  /\ observer' = [observer EXCEPT ![t] = NoObserver]
  /\ UNCHANGED <<calls, childRun, runner, watched, stopping, childOps>>

AskRun(t) ==
  [childRun EXCEPT ![t] = IF childRun[t] = "live" THEN "asked" ELSE childRun[t]]

\* cancel_child, of a user or from cancel_parent when the parent's turn is stopped:
\* the task is asked first, ...
CancelChild(c) ==
  /\ ChildOp /\ Quiet(c) /\ Known(c) /\ c \notin stopping
  /\ childRun' = IF ReportOf(c).task = 0 THEN childRun ELSE AskRun(ReportOf(c).task)
  /\ report' = [report EXCEPT ![c] = ReportOf(c)]
  /\ stopping' = stopping \cup {c}
  /\ UNCHANGED <<member, calls, runner, observer, watched>>

\* ... then the registered observer is cancelled; one that has not begun never
\* runs its finally.
StopObserver(c) ==
  /\ c \in stopping /\ stopping' = stopping \ {c}
  /\ IF watched[c] # 0 /\ observer[watched[c]] # NoObserver
     THEN /\ observer' = [observer EXCEPT ![watched[c]] = NoObserver]
          /\ IF observer[watched[c]].at = "new" THEN UNCHANGED <<report, member>>
             ELSE Publish(c, [report[c] EXCEPT !.status = "cancelled"])
     ELSE UNCHANGED <<observer, report, member>>
  /\ UNCHANGED <<calls, childRun, runner, watched, childOps>>

\* archive_child, of a child that is not running
ArchiveChild(c) ==
  /\ ChildOp /\ Quiet(c)
  /\ Known(c) /\ ReportOf(c).status # "running"
  /\ Publish(c, [ReportOf(c) EXCEPT !.status = "archived"])
  /\ UNCHANGED <<calls, childRun, runner, observer, watched, stopping>>

\* The task runtime ends a run; one that was asked may still finish by itself.
RunEnds(t) ==
  /\ childRun[t] \in {"live", "asked"}
  /\ \E how \in {"completed", "failed"} \cup (IF childRun[t] = "asked" THEN {"cancelled"} ELSE {}) :
       childRun' = [childRun EXCEPT ![t] = how]
  /\ UNCHANGED <<member, report, calls, runner, observer, watched, stopping, childOps>>

\* The process restarts: running tasks become interrupted, and reconcile_interrupted
\* does the same to the rows that name such a task.
RestartChildren ==
  /\ ChildOp
  /\ PromptCalls => \A t \in ChildRuns : observer[t].at = "none" \/ childRun[t] \in {"live", "asked"}
  /\ childRun' = [t \in ChildRuns |-> IF childRun[t] \in {"live", "asked"} THEN "interrupted" ELSE childRun[t]]
  /\ member' = [c \in Children |->
       IF /\ member[c].status \in {"running", "requested"} /\ member[c].task # 0
          /\ childRun'[member[c].task] = "interrupted"
       THEN [member[c] EXCEPT !.status = "interrupted"] ELSE member[c]]
  /\ report' = [c \in Children |-> Absent]
  /\ calls' = {} /\ stopping' = {}
  /\ observer' = [t \in ChildRuns |-> NoObserver]
  /\ watched' = [c \in Children |-> 0]
  /\ UNCHANGED runner

ChildInit ==
  /\ member = [c \in Children |-> NoRow]
  /\ report = [c \in Children |-> Absent]
  /\ calls = {} /\ stopping = {}
  /\ childRun = [t \in ChildRuns |-> "none"]
  /\ runner = [t \in ChildRuns |-> "none"]
  /\ observer = [t \in ChildRuns |-> NoObserver]
  /\ watched = [c \in Children |-> 0]
  /\ childOps = 0

Observe(t) == ObserverBegins(t) \/ ObserverReports(t)

ChildNext ==
  \/ \E c \in Children :
       \/ CreateChild(c) \/ ContinueChild(c) \/ SubmitChild(c) \/ SubmitChildRaises(c)
       \/ CancelChild(c) \/ StopObserver(c) \/ ArchiveChild(c)
  \/ \E t \in ChildRuns : Observe(t) \/ RunEnds(t)
  \/ RestartChildren

ChildSpec == ChildInit /\ [][ChildNext]_childVars
-----------------------------------------------------------------------------
(* Properties                                                                *)

ChildStatus == {"requested", "running", "archived"} \cup RunEnded

\* The variables have their types.
ChildTypeOK ==
  /\ \A c \in Children : member[c] = NoRow \/ member[c] \in [status : ChildStatus, task : 0 .. MaxChildTasks]
  /\ \A c \in Children : report[c] = Absent \/ report[c] \in [status : ChildStatus, task : 0 .. MaxChildTasks]
  /\ calls \subseteq Children /\ stopping \subseteq Children
  /\ childRun \in [ChildRuns -> {"none", "live", "asked"} \cup RunEnded]
  /\ runner \in [ChildRuns -> Children \cup {"none"}]
  /\ observer \in [ChildRuns -> [at : {"none", "new", "waits"}, task : 0 .. MaxChildTasks]]
  /\ watched \in [Children -> 0 .. MaxChildTasks] /\ childOps \in 0 .. MaxChildOps

\* What the parent reads is true: a child that is reported as running has an
\* observer that will report its end, and one that is reported as not running
\* has no run left that nobody asked to stop.
ReportsAreTrue ==
  \A c \in Children :
    /\ report[c].status = "running" =>
         \E t \in ChildRuns : runner[t] = c /\ observer[t] # NoObserver
    /\ ReportOf(c).status # "running" => \A t \in ChildRuns : runner[t] = c => childRun[t] # "live"

\* A row never stays running behind its report: after a restart no row is left
\* running, before it row and report agree.
RowsFollowReports ==
  \A c \in Children : member[c] # NoRow =>
    IF report[c] = Absent THEN member[c].status # "running" ELSE member[c] = report[c]
=============================================================================
