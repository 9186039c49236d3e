------------------------------ MODULE MCGateway ------------------------------
(* What surrounds the conversations of a gateway, for TLC: the session pool,      *)
(* workspaces, the scheduler, questions and approvals, the browser's store,       *)
(* channel deliveries, the schema of the database, the import of old sessions,    *)
(* and artifacts with their retention.                                            *)
(* The modules share no variable, so a behaviour of all of them is an             *)
(* interleaving of behaviours of each one.  A behaviour of this module picks one  *)
(* part and lets it alone move, which reaches every state of that part.           *)
EXTENDS SessionPool, Workspaces, Scheduler, Interactions, ClientStore, Delivery,
        Migrations, LegacyImport, Artifacts

VARIABLE part   \* the part that moves

gatewayVars == <<part, poolVars, wsVars, schedVars, interactVars, clientVars, deliveryVars,
                 schemaVars, importVars, artifactVars>>

\* Two releases: one process is of the next one.
Releases == [b \in Boots |-> IF b = "a" THEN 16 ELSE 15]
\* Each transcript has its own session key.
OwnKey == [f \in Files |-> f]
\* Artifacts of one task.
OneSource == [a \in ArtifactIds |-> CHOOSE t \in TaskIds : TRUE]
-----------------------------------------------------------------------------
\* Everything but part p stays.
Rest(p) ==
  /\ UNCHANGED part
  /\ IF p = "pool" THEN TRUE ELSE UNCHANGED poolVars
  /\ IF p = "workspaces" THEN TRUE ELSE UNCHANGED wsVars
  /\ IF p = "scheduler" THEN TRUE ELSE UNCHANGED schedVars
  /\ IF p = "questions" THEN TRUE ELSE UNCHANGED interactVars
  /\ IF p = "browser" THEN TRUE ELSE UNCHANGED clientVars
  /\ IF p = "delivery" THEN TRUE ELSE UNCHANGED deliveryVars
  /\ IF p = "schema" THEN TRUE ELSE UNCHANGED schemaVars
  /\ IF p = "import" THEN TRUE ELSE UNCHANGED importVars
  /\ IF p = "artifacts" THEN TRUE ELSE UNCHANGED artifactVars

\* A part that does not move has one of its initial states.
Init ==
  /\ part \in {"pool", "workspaces", "scheduler", "questions", "browser", "delivery", "schema", "import",
              "artifacts"}
  /\ PoolInit /\ WsInit /\ SchedInit /\ InteractInit /\ ClientInit /\ DeliveryInit
  /\ SchemaInit /\ ImportInit /\ ArtifactInit
  /\ part = "browser" \/ store.turn = "none"
  /\ part = "schema" \/ db = CHOOSE f \in OldFiles : TRUE
  /\ part = "artifacts" \/ planRow = [p \in PlanIds |-> "live"]

Next ==
  \/ part = "pool" /\ PoolNext /\ Rest("pool")
  \/ part = "workspaces" /\ WsNext /\ Rest("workspaces")
  \/ part = "scheduler" /\ SchedNext /\ Rest("scheduler")
  \/ part = "questions" /\ InteractNext /\ Rest("questions")
  \/ part = "browser" /\ ClientNext /\ Rest("browser")
  \/ part = "delivery" /\ DeliveryNext /\ Rest("delivery")
  \/ part = "schema" /\ SchemaNext /\ Rest("schema")
  \/ part = "import" /\ ImportNext /\ Rest("import")
  \/ part = "artifacts" /\ ArtifactNext /\ Rest("artifacts")

Spec == Init /\ [][Next]_gatewayVars
-----------------------------------------------------------------------------
(* Properties.  What a part promises is looked at where that part moves.      *)

\* The variables of every part have their types.
GatewayTypeOK ==
  /\ part = "pool" => PoolTypeOK
  /\ part = "workspaces" => WsTypeOK
  /\ part = "scheduler" => SchedTypeOK
  /\ part = "questions" => InteractTypeOK
  /\ part = "browser" => ClientTypeOK
  /\ part = "delivery" => DeliveryTypeOK
  /\ part = "schema" => SchemaTypeOK
  /\ part = "import" => ImportTypeOK
  /\ part = "artifacts" => ArtifactTypeOK

\* A session is served by one execution at a time, with the resources it began with and the
\* configuration its user chose: agents have one driver, keys one run, a switch takes effect,
\* a busy row one holder, a fresh snapshot the current settings.
SessionsAreServed ==
  /\ part = "pool" => OneDriverPerAgent /\ OneRunPerKey /\ SwitchTakesEffect /\ RunKeepsResources
  /\ part = "workspaces" => ClosedHasNoActive /\ BusyHasOneHolder /\ FreshSnapshotIsCurrent

\* Who asks gets the answer, once: a cron reply goes to its own fire and the mark of a job is
\* one of a fire under way, an accepted decision reaches the tool and nothing runs undecided,
\* a message of a channel is queued once and its answer does not depend on a retry, and the
\* browser shows the text in order and the final answer as stored.
AnswersArrive ==
  /\ part = "scheduler" => MarksArePending /\ AnswersAreOwn /\ SlotFiredOnce
  /\ part = "questions" => AcceptedReachesTool /\ AllowedWasAnswered
  /\ part = "delivery" => EnqueuedOnce /\ AnswerStandsAlone
  /\ part = "browser" => TextInOrder /\ FinishedIsAuthoritative

\* What is stored survives starts, upgrades and imports: rows of the old file are kept, the
\* recorded version is the schema's, a process that is up has its schema, a transcript is
\* imported once, and retention takes no artifact that a plan protects.
StoredIsKept ==
  /\ part = "schema" => RowsSurvive /\ SchemaIsRecorded /\ UpIsCurrent
  /\ part = "import" => ImportedOnce
  /\ part = "artifacts" => RowHasFile /\ DoomedIsExpendable /\ SessionStays
=============================================================================
