------------------------------ MODULE Artifacts ------------------------------
(* The artifact store (core/runtime/artifacts.py) and what takes from it: the     *)
(* retention of old data (core/runtime/retention.py), which runs in a thread      *)
(* beside the requests, and the clearing of plans (RuntimeStore.delete_plan).     *)
(* An artifact is a file and a row; the file is written first and deleted first.  *)
EXTENDS Naturals, FiniteSets

CONSTANTS
  ArtifactIds,      \* artifacts that may be made, each with an id of its own
  PlanIds,          \* plans an artifact may belong to (goals and teams alike)
  NoPlan,           \* the artifact belongs to none
  TaskIds,          \* tasks of the runtime
  SourceOf,         \* the task an artifact names, of its session or made up by a client
  MaxArtifactFaults \* bound: failures and crashes

VARIABLES
  maker,            \* per artifact: its creation, and the plan and kind of it
  disk,             \* the artifacts whose file is in place
  leftover,         \* temporary files nobody will remove
  arow,             \* per artifact: its row
  planRow,          \* per plan: live, over (terminal), archived, gone
  taskRow,          \* per task: none, active, over; and old when retention may have it
  sessionRow,       \* the session row of these tasks and artifacts: none, fresh, old
  collector,        \* RetentionManager.collect: its snapshot and what it is going to delete
  artifactFaults    \* failures and crashes so far

artifactVars == <<maker, disk, leftover, arow, planRow, taskRow, sessionRow, collector, artifactFaults>>

ASSUME ArtifactAssumption ==
  NoPlan \notin PlanIds /\ SourceOf \in [ArtifactIds -> TaskIds] /\ MaxArtifactFaults \in Nat

NoRow == [here |-> FALSE, plan |-> NoPlan, step |-> FALSE, old |-> FALSE, exact |-> TRUE, event |-> "none"]
IdleMaker == [at |-> "new", plan |-> NoPlan, step |-> FALSE, exact |-> TRUE]
IdleCollector == [at |-> "idle", refs |-> {}, tasks |-> {}, doomed |-> {}, now |-> {}]
Fails == artifactFaults < MaxArtifactFaults /\ artifactFaults' = artifactFaults + 1
-----------------------------------------------------------------------------
(* Creation.                                                                 *)

\* create_text and capture_file up to the temporary file: the size is checked, of a captured
\* file before it is copied.  A client may name any plan, also one that is gone, and a step
\* of a plan (plan_task_id) with or without its plan.
MakeBegins(a, p, s) ==
  /\ maker[a].at = "new"
  /\ maker' = [maker EXCEPT ![a] = [at |-> "temp", plan |-> p, step |-> s, exact |-> TRUE]]
  /\ UNCHANGED <<disk, leftover, arow, planRow, taskRow, sessionRow, collector, artifactFaults>>

\* The source of a captured file grows between its stat and its end.
SourceGrows(a) ==
  /\ maker[a].at = "temp" /\ maker' = [maker EXCEPT ![a].exact = FALSE]
  /\ UNCHANGED <<disk, leftover, arow, planRow, taskRow, sessionRow, collector, artifactFaults>>

\* _atomic_write_stream: os.replace, or the temporary file is unlinked.
Places(a) ==
  /\ maker[a].at = "temp" /\ maker' = [maker EXCEPT ![a].at = "placed"] /\ disk' = disk \cup {a}
  /\ UNCHANGED <<leftover, arow, planRow, taskRow, sessionRow, collector, artifactFaults>>
PlaceFails(a) ==
  /\ maker[a].at = "temp" /\ Fails /\ maker' = [maker EXCEPT ![a].at = "over"]
  /\ UNCHANGED <<disk, leftover, arow, planRow, taskRow, sessionRow, collector>>

\* _finalize and save_artifact: the session row is there from then on; the event refers to
\* the task unless its row is missing (IntegrityError, then once more without it).
Saves(a) ==
  /\ maker[a].at = "placed" /\ maker' = [maker EXCEPT ![a].at = "over"]
  /\ arow' = [arow EXCEPT ![a] =
       [here |-> TRUE, plan |-> maker[a].plan, step |-> maker[a].step, old |-> FALSE,
        exact |-> maker[a].exact, event |-> IF taskRow[SourceOf[a]].at = "none" THEN "plain" ELSE "linked"]]
  /\ sessionRow' = IF sessionRow = "none" THEN "fresh" ELSE sessionRow
  /\ UNCHANGED <<disk, leftover, planRow, taskRow, collector, artifactFaults>>
SaveFails(a) ==
  /\ maker[a].at = "placed" /\ Fails /\ maker' = [maker EXCEPT ![a].at = "over"] /\ disk' = disk \ {a}
  /\ UNCHANGED <<leftover, arow, planRow, taskRow, sessionRow, collector>>
-----------------------------------------------------------------------------
(* Time, tasks and plans.                                                    *)

ArtifactAges(a) ==
  /\ arow[a].here /\ ~arow[a].old /\ arow' = [arow EXCEPT ![a].old = TRUE]
  /\ UNCHANGED <<maker, disk, leftover, planRow, taskRow, sessionRow, collector, artifactFaults>>

SubmitTask(t) ==
  /\ taskRow[t].at = "none" /\ taskRow' = [taskRow EXCEPT ![t].at = "active"]
  /\ sessionRow' = IF sessionRow = "none" THEN "fresh" ELSE sessionRow
  /\ UNCHANGED <<maker, disk, leftover, arow, planRow, collector, artifactFaults>>
TaskOver(t) ==
  /\ taskRow[t].at = "active" /\ taskRow' = [taskRow EXCEPT ![t].at = "over"]
  /\ UNCHANGED <<maker, disk, leftover, arow, planRow, sessionRow, collector, artifactFaults>>
TaskAges(t) ==
  /\ taskRow[t] = [at |-> "over", old |-> FALSE] /\ taskRow' = [taskRow EXCEPT ![t].old = TRUE]
  /\ UNCHANGED <<maker, disk, leftover, arow, planRow, sessionRow, collector, artifactFaults>>
SessionAges ==
  /\ sessionRow = "fresh" /\ sessionRow' = "old"
  /\ UNCHANGED <<maker, disk, leftover, arow, planRow, taskRow, collector, artifactFaults>>

PlanOver(p) ==
  /\ planRow[p] = "live" /\ planRow' = [planRow EXCEPT ![p] = "over"]
  /\ UNCHANGED <<maker, disk, leftover, arow, taskRow, sessionRow, collector, artifactFaults>>
\* archive_terminal and delete_plan, or delete_goal, which takes its plans along whatever their
\* state: the artifacts of the plan are released; a session whose active plan it was counts as
\* updated.
Released(p) ==
  [a \in ArtifactIds |-> IF arow[a].plan = p THEN [arow[a] EXCEPT !.plan = NoPlan, !.step = FALSE] ELSE arow[a]]
ClearPlan(p) ==
  /\ planRow[p] # "gone" /\ planRow' = [planRow EXCEPT ![p] = "gone"] /\ arow' = Released(p)
  /\ sessionRow' \in {sessionRow, IF sessionRow = "old" THEN "fresh" ELSE sessionRow}
  /\ UNCHANGED <<maker, disk, leftover, taskRow, collector, artifactFaults>>
-----------------------------------------------------------------------------
(* Retention.                                                                *)

\* _load_reference_sets: the plans that are archived now.
CollectBegins ==
  /\ collector.at = "idle"
  /\ collector' = [IdleCollector EXCEPT !.at = "tasks", !.refs = {p \in PlanIds : planRow[p] = "archived"}]
  /\ UNCHANGED <<maker, disk, leftover, arow, planRow, taskRow, sessionRow, artifactFaults>>
CollectTasks ==
  /\ collector.at = "tasks"
  /\ collector' = [collector EXCEPT !.at = "list", !.tasks = {t \in TaskIds : taskRow[t] = [at |-> "over", old |-> TRUE]}]
  /\ UNCHANGED <<maker, disk, leftover, arow, planRow, taskRow, sessionRow, artifactFaults>>

\* A plausible slip: only a plan that is under way protects.
IsReferencedLive(a, refs) == arow[a].plan # NoPlan /\ planRow[arow[a].plan] = "live"

\* _is_referenced: a plan that is not known to be archived protects, also one that is gone, and
\* so does a step, whatever became of its plan.
IsReferenced(a, refs) == (arow[a].plan # NoPlan /\ arow[a].plan \notin refs) \/ arow[a].step
CollectLists ==
  /\ collector.at = "list"
  /\ collector' = [collector EXCEPT !.at = "delete",
       !.doomed = {a \in ArtifactIds : arow[a].here /\ arow[a].old /\ ~IsReferenced(a, collector.refs)}]
  /\ UNCHANGED <<maker, disk, leftover, arow, planRow, taskRow, sessionRow, artifactFaults>>

\* ArtifactStore.delete: the file, unless it is gone already, then the row.
Unlinks(a) ==
  /\ collector.at = "delete" /\ collector.now = {} /\ a \in collector.doomed
  /\ collector' = [collector EXCEPT !.doomed = @ \ {a}, !.now = IF arow[a].here THEN {a} ELSE {}]
  /\ disk' = IF arow[a].here THEN disk \ {a} ELSE disk
  /\ UNCHANGED <<maker, leftover, arow, planRow, taskRow, sessionRow, artifactFaults>>
DropsArtifact(a) ==
  /\ a \in collector.now /\ collector' = [collector EXCEPT !.now = {}]
  /\ arow' = [arow EXCEPT ![a] = NoRow]
  /\ UNCHANGED <<maker, disk, leftover, planRow, taskRow, sessionRow, artifactFaults>>
\* delete_terminal_task: the status is looked at again; the events of the task go with it.
DropsTask(t) ==
  /\ collector.at = "delete" /\ collector.now = {} /\ collector.doomed = {} /\ t \in collector.tasks
  /\ collector' = [collector EXCEPT !.tasks = @ \ {t}]
  /\ IF taskRow[t].at = "over"
     THEN /\ taskRow' = [taskRow EXCEPT ![t] = [at |-> "none", old |-> FALSE]]
          /\ arow' = [a \in ArtifactIds |-> IF SourceOf[a] = t /\ arow[a].event = "linked"
                                            THEN [arow[a] EXCEPT !.event = "none"] ELSE arow[a]]
     ELSE UNCHANGED <<taskRow, arow>>
  /\ UNCHANGED <<maker, disk, leftover, planRow, sessionRow, artifactFaults>>
\* delete_stale_sessions, in one statement.
SessionInUse == (\E t \in TaskIds : taskRow[t].at # "none") \/ (\E a \in ArtifactIds : arow[a].here)
CollectEnds ==
  /\ collector.at = "delete" /\ collector.now = {} /\ collector.doomed = {} /\ collector.tasks = {}
  /\ collector' = IdleCollector
  /\ sessionRow' = IF sessionRow = "old" /\ ~SessionInUse THEN "none" ELSE sessionRow
  /\ UNCHANGED <<maker, disk, leftover, arow, planRow, taskRow, artifactFaults>>
\* An error of a query or an unlink ends the loop of _retention_loop for good.
CollectFails ==
  /\ collector.at \notin {"idle", "dead"} /\ Fails /\ collector' = [IdleCollector EXCEPT !.at = "dead"]
  /\ UNCHANGED <<maker, disk, leftover, arow, planRow, taskRow, sessionRow>>

\* The gateway is killed and starts again: files that were being made stay as they are.
StoreRestarts ==
  /\ Fails /\ collector' = IdleCollector
  /\ leftover' = leftover \cup {a \in ArtifactIds : maker[a].at = "temp"}
  /\ maker' = [a \in ArtifactIds |-> IF maker[a].at \in {"temp", "placed"} THEN [maker[a] EXCEPT !.at = "over"] ELSE maker[a]]
  /\ UNCHANGED <<disk, arow, planRow, taskRow, sessionRow>>
-----------------------------------------------------------------------------
\* Earlier releases marked plans as archived; this one deletes them.
ArtifactInit ==
  /\ maker = [a \in ArtifactIds |-> IdleMaker] /\ disk = {} /\ leftover = {}
  /\ arow = [a \in ArtifactIds |-> NoRow] /\ planRow \in [PlanIds -> {"live", "archived"}]
  /\ taskRow = [t \in TaskIds |-> [at |-> "none", old |-> FALSE]] /\ sessionRow = "none"
  /\ collector = IdleCollector /\ artifactFaults = 0

ArtifactNext ==
  \/ \E a \in ArtifactIds :
       \/ \E p \in PlanIds \cup {NoPlan}, s \in BOOLEAN : MakeBegins(a, p, s)
       \/ SourceGrows(a) \/ Places(a) \/ PlaceFails(a) \/ Saves(a) \/ SaveFails(a) \/ ArtifactAges(a)
       \/ Unlinks(a) \/ DropsArtifact(a)
  \/ \E t \in TaskIds : SubmitTask(t) \/ TaskOver(t) \/ TaskAges(t) \/ DropsTask(t)
  \/ \E p \in PlanIds : PlanOver(p) \/ ClearPlan(p)
  \/ SessionAges \/ CollectBegins \/ CollectTasks \/ CollectLists \/ CollectEnds \/ CollectFails \/ StoreRestarts

ArtifactSpec == ArtifactInit /\ [][ArtifactNext]_artifactVars
-----------------------------------------------------------------------------
Maker == [at : {"new", "temp", "placed", "over"}, plan : PlanIds \cup {NoPlan}, step : BOOLEAN, exact : BOOLEAN]
ArtifactRow == [here : BOOLEAN, plan : PlanIds \cup {NoPlan}, step : BOOLEAN, old : BOOLEAN, exact : BOOLEAN,
                event : {"none", "plain", "linked"}]

\* Types.
ArtifactTypeOK ==
  /\ maker \in [ArtifactIds -> Maker] /\ arow \in [ArtifactIds -> ArtifactRow]
  /\ disk \subseteq ArtifactIds /\ leftover \subseteq ArtifactIds
  /\ planRow \in [PlanIds -> {"live", "over", "archived", "gone"}]
  /\ taskRow \in [TaskIds -> [at : {"none", "active", "over"}, old : BOOLEAN]]
  /\ sessionRow \in {"none", "fresh", "old"}
  /\ collector \in [at : {"idle", "tasks", "list", "delete", "dead"}, refs : SUBSET PlanIds, tasks : SUBSET TaskIds,
                    doomed : SUBSET ArtifactIds, now : SUBSET ArtifactIds]
  /\ artifactFaults \in 0..MaxArtifactFaults

\* What retention may have: an old artifact of no plan, or of one that is archived or has been
\* cleared since, and of no step.
Expendable(a) == arow[a].old /\ ~arow[a].step /\ (arow[a].plan = NoPlan \/ planRow[arow[a].plan] \in {"archived", "gone"})

\* A row has its file, so that a download finds it, unless retention was allowed to delete the
\* artifact and did the first half of that: whatever plans are cleared, tasks deleted, runs of
\* the collector broken off and creations failed in between (ArtifactStore.delete, "two-stage").
RowHasFile == \A a \in ArtifactIds : arow[a].here /\ a \notin disk => Expendable(a)

\* Retention never has an artifact in hand that a plan protects, although it reads the plans,
\* the rows and the files one after the other (RetentionManager, "never delete ... referenced
\* artifacts").
DoomedIsExpendable == \A a \in collector.doomed \cup collector.now : arow[a].here => Expendable(a)

\* Rows of artifacts and tasks never lose the session row they refer to.
SessionStays == SessionInUse => sessionRow # "none"

\* Only retention takes a row away, and only one it may have.
RowsGoByRetention ==
  [][\A a \in ArtifactIds : arow[a].here /\ ~arow'[a].here => Expendable(a) /\ a \notin disk]_artifactVars

\* Deviations of the code (see the README): each is violated.
\* A file in place has its row, or is about to get it.
FileHasRow == \A a \in disk : arow[a].here \/ maker[a].at = "placed"
\* No temporary file stays behind.
NoLeftovers == leftover = {}
\* The recorded size is the size of the file.
SizeIsExact == \A a \in ArtifactIds : arow[a].here => arow[a].exact
\* What an artifact belongs to can still be cleared, so that retention may have it some day.
NothingDangles ==
  \A a \in ArtifactIds : arow[a].here /\ (arow[a].plan # NoPlan \/ arow[a].step) =>
    arow[a].plan # NoPlan /\ planRow[arow[a].plan] # "gone"
=============================================================================
