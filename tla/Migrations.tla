------------------------------ MODULE Migrations ------------------------------
(* The schema of runtime.db (core/runtime/sqlite_store.py, initialize): every  *)
(* start of a process brings the file from the version it finds to the version *)
(* of its release, one migration after the other, each in a transaction of its *)
(* own that also records the version.  Several processes may start at once on  *)
(* one file, and any of them may die between two statements.                   *)
EXTENDS Naturals, FiniteSets, SequencesExt

CONSTANTS
  Boots,            \* processes that open the file
  SchemaVersion,    \* SCHEMA_VERSION of a process
  OldVersions,      \* the versions a file may have been left at by earlier releases
  SlowLocks,        \* whether a lock may be held longer than busy_timeout
  MaxBootFaults     \* bound: deaths of processes

VARIABLES
  db,               \* the committed content of the file
  bak,              \* the version that runtime.db.bak holds, or NoBackup
  boot,             \* per process: where its initialize stands
  writer,           \* the process inside a migration: BEGIN IMMEDIATE to COMMIT
  seed,             \* history: the rows the file held before any of these starts
  bootFaults        \* deaths so far

schemaVars == <<db, bak, boot, writer, seed, bootFaults>>

ASSUME SchemaAssumption ==
  /\ SchemaVersion \in [Boots -> 0 .. 16]
  /\ OldVersions \subseteq 0 .. 17
  /\ MaxBootFaults \in Nat

NoBackup == 99
Nobody == "nobody"
\* A row: its key, the chat_mode of a session, workspace or profile, and whether the
\* relation columns of an artifact say what its JSON says.
DbRow(id, mode, linked) == [id |-> id, mode |-> mode, linked |-> linked]
NoFile == [done |-> {}, rows |-> <<>>, columns |-> {}, failed |-> FALSE]
Version(d) == IF d.done = {} THEN 0 ELSE Max(d.done)
Tables(d) == DOMAIN d.rows
-----------------------------------------------------------------------------
\* The statements of the scripts.  A statement that fails leaves the rest undone; the
\* flag makes the transaction roll back.
Sql(d, e) == IF d.failed THEN d ELSE e
\* CREATE TABLE IF NOT EXISTS.
Create(t) == [op |-> "create", on |-> t, to |-> t]
\* ALTER TABLE t RENAME TO u.
RenameTable(t, u) == [op |-> "rename", on |-> t, to |-> u]
\* INSERT INTO u SELECT ... FROM t.
CopyRows(t, u) == [op |-> "copy", on |-> t, to |-> u]
\* DROP TABLE IF EXISTS.
DropTable(t) == [op |-> "drop", on |-> t, to |-> t]
\* _ensure_column and the add_column of v11: nothing when the column is there.
EnsureColumn(t, c) == [op |-> "column", on |-> t, to |-> c]
\* DELETE ... WHERE chat_mode='plan'.
DeletePlans(t) == [op |-> "delete", on |-> t, to |-> t]
\* The UPDATE that fills the relation columns from artifact_json.
Backfill(t) == [op |-> "backfill", on |-> t, to |-> t]

Without(f, x) == [y \in DOMAIN f \ {x} |-> f[y]]
With(f, x, v) == [y \in DOMAIN f \cup {x} |-> IF y = x THEN v ELSE f[y]]
SqlRuns(d, s) == Sql(d,
  CASE s.op = "create" ->
         IF s.to \in Tables(d) THEN d ELSE [d EXCEPT !.rows = With(@, s.to, {})]
    [] s.op = "rename" ->
         IF s.on \notin Tables(d) \/ s.to \in Tables(d) THEN [d EXCEPT !.failed = TRUE]
         ELSE [d EXCEPT !.rows = With(Without(@, s.on), s.to, @[s.on]),
                        !.columns = {c \in @ : c[1] # s.on}
                                    \cup {<<s.to, c[2]>> : c \in {x \in @ : x[1] = s.on}}]
    [] s.op = "copy" ->
         IF s.on \notin Tables(d) THEN [d EXCEPT !.failed = TRUE]
         ELSE [d EXCEPT !.rows[s.to] = @ \cup d.rows[s.on]]
    [] s.op = "drop" ->
         [d EXCEPT !.rows = Without(@, s.on), !.columns = {c \in @ : c[1] # s.on}]
    [] s.op = "column" ->
         IF s.on \notin Tables(d) THEN d ELSE [d EXCEPT !.columns = @ \cup {<<s.on, s.to>>}]
    [] s.op = "delete" ->
         [d EXCEPT !.rows[s.on] = {r \in @ : r.mode # "plan"}]
    [] OTHER ->
         [d EXCEPT !.rows[s.on] = {[r EXCEPT !.linked = TRUE] : r \in @}])
\* INSERT INTO schema_migrations: the version is the primary key.
Recorded(d, v) == Sql(d, IF v \in d.done THEN [d EXCEPT !.failed = TRUE]
                         ELSE [d EXCEPT !.done = @ \cup {v}])
-----------------------------------------------------------------------------
MigrateV1 == <<Create("sessions"), Create("tasks"), Create("runtime_events")>>
MigrateV2 == <<Create("goals")>>
MigrateV3 == <<Create("teams"), Create("team_members"), Create("team_messages")>>
MigrateV4 == <<Create("plans"), Create("plan_tasks")>>
MigrateV5 == <<RenameTable("plan_tasks", "plan_tasks_v4"), Create("plan_tasks"),
               CopyRows("plan_tasks_v4", "plan_tasks"), DropTable("plan_tasks_v4")>>
\* A plausible slip: the rename leaves the rows in the old table.
MigrateV6Bare == <<RenameTable("plan_tasks", "plan_tasks_v5"), Create("plan_tasks"),
                   DropTable("plan_tasks_v5")>>
MigrateV6 == <<RenameTable("plan_tasks", "plan_tasks_v5"), Create("plan_tasks"),
               CopyRows("plan_tasks_v5", "plan_tasks"), DropTable("plan_tasks_v5")>>
MigrateV7 == <<Create("artifacts")>>
MigrateV8 ==
  <<RenameTable("team_members", "team_members_v7"),
    RenameTable("team_messages", "team_messages_v7"), RenameTable("teams", "teams_v7"),
    Create("teams"), Create("team_members"), Create("team_messages"),
    CopyRows("teams_v7", "teams"), CopyRows("team_members_v7", "team_members"),
    CopyRows("team_messages_v7", "team_messages"),
    DropTable("team_members_v7"), DropTable("team_messages_v7"), DropTable("teams_v7")>>
\* The tables of the workspaces; is_system and reasoning_level are columns from the start.
MigrateV9 ==
  <<Create("workspaces"), Create("agent_profiles"), Create("workspace_sessions"),
    Create("workspace_runtime_snapshots"), Create("agent_profile_versions"),
    EnsureColumn("agent_profiles", "is_system"),
    EnsureColumn("workspace_sessions", "reasoning_level"),
    EnsureColumn("workspace_runtime_snapshots", "reasoning_level")>>
MigrateV10 == <<EnsureColumn("workspace_sessions", "reasoning_level"),
                EnsureColumn("workspace_runtime_snapshots", "reasoning_level")>>
\* The columns of v11 are added before its transaction and commit one by one.
ColumnsV11 ==
  <<EnsureColumn("sessions", "parent_session_id"), EnsureColumn("sessions", "origin"),
    EnsureColumn("sessions", "subagent_mode"), EnsureColumn("goals", "version"),
    EnsureColumn("artifacts", "plan_id"), EnsureColumn("artifacts", "plan_task_id"),
    EnsureColumn("artifacts", "team_id"), EnsureColumn("artifacts", "child_session_id")>>
MigrateV11 == <<Create("channel_delivery"), DeletePlans("workspace_runtime_snapshots"),
                DeletePlans("workspace_sessions")>>
MigrateV12 ==
  <<Create("conversation_sessions"), Create("turns"), Create("turn_nodes"),
    Create("queue_items"), Create("idempotency_records"), Create("outbox_events"),
    Create("tool_results"), Create("channel_message_receipts"), Create("approvals")>>
MigrateV13 == <<EnsureColumn("turn_nodes", "text_seq")>>
MigrateV14 == <<Backfill("artifacts")>>
MigrateV15 == <<DropTable("control_leases")>>
MigrateV16 == <<EnsureColumn("queue_items", "images_json")>>

Scripts == <<MigrateV1, MigrateV2, MigrateV3, MigrateV4, MigrateV5, MigrateV6, MigrateV7,
             MigrateV8, MigrateV9, MigrateV10, MigrateV11, MigrateV12, MigrateV13,
             MigrateV14, MigrateV15, MigrateV16>>
\* The content after the script of version v and the record of v.
Body(d, v) == Recorded(FoldLeft(SqlRuns, d, Scripts[v]), v)
Prepared(d, v) == IF v = 11 THEN FoldLeft(SqlRuns, d, ColumnsV11) ELSE d
\* The content of a fresh file that was brought to version v.  The singletons make TLC
\* evaluate the file of version v - 1 before the script of v.
Built[v \in 0 .. 16] ==
  IF v = 0 THEN NoFile
  ELSE CHOOSE d \in {Body(p, v) : p \in {Prepared(b, v) : b \in {Built[v - 1]}}} : TRUE
-----------------------------------------------------------------------------
\* The rows earlier releases left: one in every table, and one of the retired plan mode
\* where chat_mode is a column.
Seeded(d) ==
  [d EXCEPT !.rows = [t \in Tables(d) |->
     {DbRow("r", "chat", t # "artifacts" \/ Version(d) >= 14)}
     \cup (IF \/ t \in {"workspace_sessions", "workspace_runtime_snapshots"} /\ Version(d) < 11
              \/ t \in {"workspaces", "agent_profiles"}
           THEN {DbRow("p", "plan", TRUE)} ELSE {})]]
\* A file of release 9 may be without is_system; a file of version 17 is of a later release.
OldFiles == UNION {
  IF v = 17 THEN {[Seeded(Built[16]) EXCEPT !.done = @ \cup {17}]}
  ELSE {Seeded(Built[v]),
        [Seeded(Built[v]) EXCEPT !.columns = @ \ {<<"agent_profiles", "is_system">>}]}
  : v \in OldVersions}

OffBoot == [at |-> "off", next |-> 0]
SchemaInit ==
  /\ db \in OldFiles
  /\ bak = NoBackup
  /\ boot = [b \in Boots |-> OffBoot]
  /\ writer = Nobody
  /\ seed = db.rows
  /\ bootFaults = 0

\* The write lock is free; SQLite waits for it until busy_timeout.
MayLock == writer = Nobody
MovesTo(b, at) == boot' = [boot EXCEPT ![b] = [OffBoot EXCEPT !.at = at]]
-----------------------------------------------------------------------------
\* initialize reads the version: a newer file is refused, an older one is backed up once.
ReadVersion(b) ==
  /\ boot[b].at \in {"off", "failed"}
  /\ LET v == Version(db) IN
       boot' = [boot EXCEPT ![b] =
         IF v > SchemaVersion[b] THEN [at |-> "refused", next |-> 0]
         ELSE IF v < SchemaVersion[b] THEN [at |-> "backup", next |-> v + 1]
         ELSE [at |-> "ensure", next |-> 0]]
  /\ UNCHANGED <<db, bak, writer, seed, bootFaults>>

\* _backup_once: a backup that exists is kept; a failing one does not stop the start.
BackupOnce(b) ==
  /\ boot[b].at = "backup"
  /\ bak' \in IF bak = NoBackup THEN {Version(db), NoBackup} ELSE {bak}
  /\ boot' = [boot EXCEPT ![b].at = "migrate"]
  /\ UNCHANGED <<db, writer, seed, bootFaults>>

\* The columns of v11, each committed at once.
AddColumns(b) ==
  /\ boot[b].at = "migrate" /\ boot[b].next = 11 /\ MayLock
  /\ db' = Prepared(db, 11) /\ db' # db
  /\ UNCHANGED <<bak, boot, writer, seed, bootFaults>>

\* BEGIN IMMEDIATE of the next migration, up to the version of the release.  Nobody sees
\* what the script does before its COMMIT.
BeginMigration(b) ==
  /\ boot[b].at = "migrate" /\ boot[b].next <= SchemaVersion[b] /\ MayLock
  /\ boot[b].next = 11 => Prepared(db, 11) = db
  /\ writer' = b
  /\ boot' = [boot EXCEPT ![b].at = "begun"]
  /\ UNCHANGED <<db, bak, seed, bootFaults>>

\* The script, the record of its version and the COMMIT; a statement that failed rolls
\* everything back and the start raises.
EndMigration(b) ==
  /\ boot[b].at = "begun"
  /\ writer' = Nobody
  /\ LET d == Body(db, boot[b].next) IN
       IF d.failed THEN MovesTo(b, "failed") /\ UNCHANGED db
       ELSE /\ db' = d
            /\ boot' = [boot EXCEPT ![b] = [at |-> "migrate", next |-> @.next + 1]]
  /\ UNCHANGED <<bak, seed, bootFaults>>

MigrationsOver(b) ==
  /\ boot[b].at = "migrate" /\ boot[b].next > SchemaVersion[b]
  /\ MovesTo(b, "ensure")
  /\ UNCHANGED <<db, bak, writer, seed, bootFaults>>

\* _ensure_profile_is_system_column, _normalize_retired_profile_chat_modes and
\* _ensure_multi_instance_schema, which do nothing that is not missing.  A lock that is
\* held too long makes the UPDATEs of the second fail, and that failure is taken for a
\* missing table.
IsSystemEnsured(d) == SqlRuns(d, EnsureColumn("agent_profiles", "is_system"))
Normalized(d) ==
  [d EXCEPT !.rows = [t \in Tables(d) |->
     IF t \in {"agent_profiles", "workspaces"}
     THEN {[r EXCEPT !.mode = "chat"] : r \in d.rows[t]} ELSE d.rows[t]]]
MultiInstance(d) ==
  FoldLeft(SqlRuns, d, <<Create("leader_lease"), EnsureColumn("outbox_events", "claimed_by"),
                      EnsureColumn("outbox_events", "claim_expires_at")>>)
EnsureAll(b) ==
  /\ boot[b].at = "ensure" /\ MayLock
  /\ \E slow \in {FALSE} \cup (IF SlowLocks THEN {TRUE} ELSE {}) :
       db' = MultiInstance(IF slow THEN IsSystemEnsured(db)
                           ELSE Normalized(IsSystemEnsured(db)))
  /\ MovesTo(b, "up")
  /\ UNCHANGED <<bak, writer, seed, bootFaults>>

\* busy_timeout passes while another process holds the lock: the start raises.
LockTimeout(b) ==
  /\ boot[b].at \in {"migrate", "ensure"} /\ ~MayLock
  /\ MovesTo(b, "failed")
  /\ UNCHANGED <<db, bak, writer, seed, bootFaults>>

\* A plausible slip: a script without BEGIN and COMMIT, so that a death leaves its first half.
BootDiesHalfway(b) ==
  /\ bootFaults < MaxBootFaults /\ boot[b].at \notin {"off", "failed"}
  /\ bootFaults' = bootFaults + 1
  /\ db' = IF writer # b THEN db
           ELSE LET s == Scripts[boot[b].next] IN
                FoldLeft(SqlRuns, db, SubSeq(s, 1, (Len(s) + 1) \div 2))
  /\ writer' = IF writer = b THEN Nobody ELSE writer
  /\ MovesTo(b, "off")
  /\ UNCHANGED <<bak, seed>>
\* The process dies; SQLite forgets what it did not commit.
BootDies(b) ==
  /\ bootFaults < MaxBootFaults /\ boot[b].at \notin {"off", "failed"}
  /\ bootFaults' = bootFaults + 1
  /\ writer' = IF writer = b THEN Nobody ELSE writer
  /\ MovesTo(b, "off")
  /\ UNCHANGED <<db, bak, seed>>

\* rotate_backups of a running process removes a backup that is too old.
RotateBackups(b) ==
  /\ boot[b].at = "up" /\ bak # NoBackup
  /\ bak' = NoBackup
  /\ UNCHANGED <<db, boot, writer, seed, bootFaults>>

SchemaNext == \E b \in Boots :
  \/ ReadVersion(b) \/ BackupOnce(b) \/ AddColumns(b) \/ BeginMigration(b) \/ EndMigration(b)
  \/ MigrationsOver(b) \/ EnsureAll(b) \/ LockTimeout(b) \/ BootDies(b) \/ RotateBackups(b)
SchemaSpec == SchemaInit /\ [][SchemaNext]_schemaVars
-----------------------------------------------------------------------------
\* Types.
SchemaTypeOK ==
  /\ db.done \subseteq 1 .. 17 /\ ~db.failed
  /\ bak \in 0 .. 17 \cup {NoBackup}
  /\ \A b \in Boots : boot[b].at \in {"off", "refused", "backup", "migrate", "begun",
                                      "ensure", "up", "failed"}
  /\ writer \in Boots \cup {Nobody}
  /\ bootFaults \in 0 .. MaxBootFaults

\* No row is lost on the way: whatever dies, fails or starts at the same time, every row
\* the file held is still in the table of its name.  Only the sessions of the retired plan
\* mode are deleted, with their snapshots (_migrate_v11).
RowsSurvive ==
  \A t \in DOMAIN seed : \A r \in seed[t] :
    \/ t \in Tables(db) /\ \E q \in db.rows[t] : q.id = r.id
    \/ t \in {"workspace_sessions", "workspace_runtime_snapshots"} /\ r.mode = "plan"

\* The recorded version tells the schema: the tables are exactly those a fresh file has at
\* that version (and the tables that are ensured outside the versions), no migration left
\* an intermediate table, and no column of that version is missing.
SchemaIsRecorded ==
  Version(db) <= 16 =>
    /\ Tables(db) \ {"leader_lease"} = Tables(Built[Version(db)])
    /\ Built[Version(db)].columns \ {<<"agent_profiles", "is_system">>} \subseteq db.columns

\* A process that came up works on the schema of its release (or of the newer release that
\* migrated meanwhile), with the artifacts linked and no retired mode left, which the
\* strict models would refuse to read (the comment in initialize).
UpIsCurrent ==
  \A b \in Boots : boot[b].at = "up" =>
    /\ Version(db) >= SchemaVersion[b]
    /\ "leader_lease" \in Tables(db)
    /\ Version(db) >= 14 => \A r \in db.rows["artifacts"] : r.linked
    /\ Version(db) >= 9 => \A r \in db.rows["agent_profiles"] : r.mode = "chat"

\* What the comment of rotate_backups says: every upgrade makes a backup of the content it
\* starts from.  _backup_once keeps the backup of an earlier upgrade instead.
BackupIsOfThisUpgrade ==
  [][\A b \in Boots : BackupOnce(b) => bak' \in {Version(db), NoBackup}]_schemaVars
=============================================================================
