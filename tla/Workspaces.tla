------------------------------ MODULE Workspaces ------------------------------
(* Rows of workspaces, agent profiles and workspace sessions                 *)
(* (gateway/webui/workspace_store.py), the handlers that change them         *)
(* (api_workspace.py, api_agents.py) and the frozen run configurations       *)
(* (workspace_runtime.py).  One workspace; a setting (model, permission,     *)
(* mode) is one value, 0 when left empty.  Handlers run on the event loop:   *)
(* an action is what happens between two awaits.                             *)
EXTENDS Naturals, FiniteSets

CONSTANTS
  Sessions,      \* session ids
  Profiles,      \* agent profile ids
  Requests,      \* plan requests, each used once
  MaxSetting,    \* settings are 1 .. MaxSetting, 0 is empty
  GatewaySetting,\* the gateway's own default
  MaxWsOps       \* bound: changes of rows

VARIABLES
  ws,            \* [status, setting, default, version]
  profile,       \* [Profiles -> [status, setting, version]]
  session,       \* [Sessions -> [status, profile, setting, version, busy, snap]]
  snaps,         \* workspace_runtime_snapshots, by dedup_key
  request,       \* plan requests: where they are and for which session
  deleting,      \* delete handlers that await an eviction: sessions, or "workspace"
  planned,       \* sessions for which a plan was created
  wsOps

wsVars == <<ws, profile, session, snaps, request, deleting, planned, wsOps>>

ASSUME WsAssumption ==
  /\ MaxSetting \in Nat \ {0} /\ GatewaySetting \in 1 .. MaxSetting /\ MaxWsOps \in Nat
  /\ "none" \notin Profiles

Settings == 0 .. MaxSetting
NoSnap == [key |-> <<>>]
NoSession == [status |-> "none", profile |-> "none", setting |-> 0, version |-> 0,
              busy |-> FALSE, snap |-> <<>>]

RowCount == wsOps < MaxWsOps /\ wsOps' = wsOps + 1
\* WorkspaceStore.get, AgentProfileStore.get and get_owned do not see deleted rows.
WorkspaceFound == ws.status # "deleted"
ProfileFound(p) == p \in Profiles /\ profile[p].status # "deleted"
Owned(s) == session[s].status \in {"active", "archived"}
-----------------------------------------------------------------------------
(* Configuration                                                             *)

\* build_snapshot: the profile of a session, when it can still be loaded
ProfileOf(s) == IF session[s].profile # "none" THEN session[s].profile ELSE ws.default
ProfileVersion(s) == IF ProfileFound(ProfileOf(s)) THEN profile[ProfileOf(s)].version ELSE 0

FirstSet(a, b, c, d) == IF a # 0 THEN a ELSE IF b # 0 THEN b ELSE IF c # 0 THEN c ELSE d

\* EffectiveConfigResolver.resolve: Session > Workspace > Profile > Gateway
Resolve(s) ==
  FirstSet(session[s].setting, ws.setting,
           IF ProfileFound(ProfileOf(s)) THEN profile[ProfileOf(s)].setting ELSE 0,
           GatewaySetting)

\* _snapshot_dedup_key: neither the session nor the workspace is part of it
DedupKey(s) ==
  <<Resolve(s), ProfileOf(s), ProfileVersion(s), ws.version, session[s].version>>

\* build_snapshot and RuntimeSnapshotStore.get_or_create
BuildSnapshot(s) ==
  snaps' = IF \E n \in snaps : n.key = DedupKey(s) THEN snaps
           ELSE snaps \cup {[key |-> DedupKey(s), owner |-> s]}

\* is_stale, for the snapshot a session touched last
IsStale(s) ==
  LET k == session[s].snap
  IN \/ k[4] # ws.version \/ k[5] # session[s].version
     \/ k[2] # "none" /\ (~ProfileFound(k[2]) \/ k[3] # profile[k[2]].version)
-----------------------------------------------------------------------------
(* Sessions                                                                  *)

\* _validate_session_agent and WorkspaceSessionStore.create
CreateSession(s, p, v) ==
  /\ RowCount
  /\ session[s].status = "none" /\ profile[p].status = "active" /\ ws.status = "active"
  /\ session' = [session EXCEPT ![s] =
       [NoSession EXCEPT !.status = "active", !.profile = p, !.setting = v, !.version = 1]]
  /\ UNCHANGED <<ws, profile, snaps, request, deleting, planned>>

\* A plausible slip: the overrides are stored under the same version.
OverridesSameVersion(s, v) == [session EXCEPT ![s].setting = v]
\* update_runtime_overrides
Overrides(s, v) == [session EXCEPT ![s].setting = v, ![s].version = @ + 1]

\* _make_switch and _make_apply_config: refused while the row is busy
ChangeSettings(s, v) ==
  /\ RowCount
  /\ Owned(s) /\ ~session[s].busy
  /\ session' = Overrides(s, v)
  /\ UNCHANGED <<ws, profile, snaps, request, deleting, planned>>

\* _make_session_update: a new name, whether busy or not
RenameSession(s) ==
  /\ RowCount
  /\ Owned(s)
  /\ session' = Overrides(s, session[s].setting)
  /\ UNCHANGED <<ws, profile, snaps, request, deleting, planned>>

\* WorkspaceSessionStore.archive
ArchiveRow(s) == [session EXCEPT ![s].status = "archived"]

ArchiveSession(s) ==
  /\ RowCount
  /\ Owned(s) /\ ~session[s].busy
  /\ session' = ArchiveRow(s)
  /\ UNCHANGED <<ws, profile, snaps, request, deleting, planned>>

\* _make_delete up to its await of the eviction
DeleteSessionBegins(s) ==
  /\ RowCount
  /\ Owned(s) /\ ~session[s].busy /\ s \notin deleting
  /\ deleting' = deleting \cup {s}
  /\ UNCHANGED <<ws, profile, session, snaps, request, planned>>

\* The rest of it: archive looks again and raises when the row got busy or is gone.
DeleteSessionEnds(s) ==
  /\ s \in deleting
  /\ deleting' = deleting \ {s}
  /\ session' = IF Owned(s) /\ ~session[s].busy THEN ArchiveRow(s) ELSE session
  /\ UNCHANGED <<ws, profile, snaps, request, planned, wsOps>>

\* build_workspace_entry_context: a turn of an active session freezes its configuration.
TurnFreezes(s) ==
  /\ session[s].status = "active" /\ WorkspaceFound
  /\ BuildSnapshot(s)
  /\ UNCHANGED <<ws, profile, session, request, deleting, planned, wsOps>>
-----------------------------------------------------------------------------
(* The plan request (_make_plan)                                             *)

\* A plausible slip: the token is taken without looking at the flag.
TrySetBusyBlind(s) == TRUE
\* try_set_busy: one UPDATE ... WHERE is_busy=0
TrySetBusy(s) == ~session[s].busy

\* Up to send_and_wait: token, touch_snapshot.  The session was read before.
PlanBegins(q, s) ==
  /\ request[q].at = "off" /\ session[s].status = "active" /\ WorkspaceFound
  /\ TrySetBusy(s)
  /\ BuildSnapshot(s)
  /\ session' = [session EXCEPT ![s].busy = TRUE, ![s].snap = DedupKey(s)]
  /\ request' = [request EXCEPT ![q] = [at |-> "wait", sess |-> s]]
  /\ UNCHANGED <<ws, profile, deleting, planned, wsOps>>

\* A plausible slip: an early return skips the finally.
ReleaseNever(q) == UNCHANGED session
\* The finally of the holder of the token: set_busy(False) whatever became of the row
ReleaseBusy(q) == session' = [session EXCEPT ![request[q].sess].busy = FALSE]

\* The preview arrived: the plan is created, approved and started.
PlanCreated(q) ==
  /\ request[q].at = "wait"
  /\ planned' = planned \cup {request[q].sess}
  /\ ReleaseBusy(q)
  /\ request' = [request EXCEPT ![q] = [at |-> "done", sess |-> "none"]]
  /\ UNCHANGED <<ws, profile, snaps, deleting, wsOps>>

\* Time-out, unusable preview, full pool, runtime disabled
PlanFails(q) ==
  /\ request[q].at = "wait"
  /\ ReleaseBusy(q)
  /\ request' = [request EXCEPT ![q] = [at |-> "done", sess |-> "none"]]
  /\ UNCHANGED <<ws, profile, snaps, deleting, planned, wsOps>>
-----------------------------------------------------------------------------
(* Workspace and profiles                                                    *)

\* _make_update and WorkspaceStore.update; the path checks are left out
UpdateWorkspace(v, p) ==
  /\ RowCount
  /\ WorkspaceFound
  /\ ws' = [ws EXCEPT !.setting = v, !.default = p, !.version = @ + 1]
  /\ UNCHANGED <<profile, session, snaps, request, deleting, planned>>

\* A plausible slip: only the workspace's own row is archived.
ArchiveRowsOwn == session
\* The second statement of WorkspaceStore.archive
ArchiveRows ==
  [s \in Sessions |-> IF session[s].status = "active"
                      THEN [session[s] EXCEPT !.status = "archived"] ELSE session[s]]

\* WorkspaceStore.archive: the workspace and its active sessions, busy or not
ArchiveWorkspace ==
  /\ RowCount
  /\ WorkspaceFound
  /\ ws' = [ws EXCEPT !.status = "archived", !.version = @ + 1]
  /\ session' = ArchiveRows
  /\ UNCHANGED <<profile, snaps, request, deleting, planned>>

\* _make_delete_workspace up to the evictions of the sessions it listed
DeleteWorkspaceBegins ==
  /\ RowCount
  /\ WorkspaceFound /\ "workspace" \notin deleting
  /\ deleting' = deleting \cup {"workspace"}
  /\ UNCHANGED <<ws, profile, session, snaps, request, planned>>

\* WorkspaceStore.delete: every session, the new ones too, and all snapshots
DeleteWorkspaceEnds ==
  /\ "workspace" \in deleting
  /\ deleting' = deleting \ {"workspace"}
  /\ IF WorkspaceFound
     THEN /\ ws' = [ws EXCEPT !.status = "deleted", !.version = @ + 1]
          /\ session' = [s \in Sessions |-> IF session[s].status = "none" THEN session[s]
                                            ELSE [session[s] EXCEPT !.status = "deleted"]]
          /\ snaps' = {}
     ELSE UNCHANGED <<ws, session, snaps>>
  /\ UNCHANGED <<profile, request, planned, wsOps>>

\* AgentProfileStore.update: any field, the status among them
UpdateProfile(p, v, st) ==
  /\ RowCount
  /\ ProfileFound(p)
  /\ profile' = [profile EXCEPT ![p] = [status |-> st, setting |-> v, version |-> @.version + 1]]
  /\ UNCHANGED <<ws, session, snaps, request, deleting, planned>>

\* AgentProfileStore.references, of active workspaces: sessions do not count
InUse(p) == ws.status = "active" /\ ws.default = p

\* AgentProfileStore.archive, activate and delete
SetProfileStatus(p, st) ==
  /\ RowCount
  /\ \/ st = "archived" /\ profile[p].status = "active" /\ ~InUse(p)
     \/ st = "active" /\ profile[p].status = "archived"
     \/ st = "deleted" /\ ProfileFound(p) /\ ~InUse(p)
  /\ profile' = [profile EXCEPT ![p].status = st, ![p].version = @ + 1]
  /\ UNCHANGED <<ws, session, snaps, request, deleting, planned>>

\* A plausible slip: the flags of the dead process stay.
FlagsKept == session
\* reset_stale_busy
FlagsReset == [s \in Sessions |-> [session[s] EXCEPT !.busy = FALSE]]

\* The gateway dies and starts again: requests are gone, rows remain.
RestartGateway ==
  /\ RowCount
  /\ request' = [q \in Requests |->
       IF request[q].at = "wait" THEN [at |-> "done", sess |-> "none"] ELSE request[q]]
  /\ deleting' = {}
  /\ session' = FlagsReset
  /\ UNCHANGED <<ws, profile, snaps, planned>>
-----------------------------------------------------------------------------
WsInit ==
  /\ ws = [status |-> "active", setting |-> 0, default |-> "none", version |-> 1]
  /\ profile = [p \in Profiles |-> [status |-> "active", setting |-> 0, version |-> 1]]
  /\ session = [s \in Sessions |-> NoSession]
  /\ snaps = {}
  /\ request = [q \in Requests |-> [at |-> "off", sess |-> "none"]]
  /\ deleting = {} /\ planned = {} /\ wsOps = 0

WsNext ==
  \/ \E s \in Sessions :
       \/ RenameSession(s) \/ ArchiveSession(s) \/ TurnFreezes(s)
       \/ DeleteSessionBegins(s) \/ DeleteSessionEnds(s)
       \/ \E v \in Settings \ {0} : ChangeSettings(s, v)
       \/ \E p \in Profiles, v \in Settings : CreateSession(s, p, v)
       \/ \E q \in Requests : PlanBegins(q, s)
  \/ \E q \in Requests : PlanCreated(q) \/ PlanFails(q)
  \/ \E v \in Settings, p \in Profiles \cup {"none"} : UpdateWorkspace(v, p)
  \/ ArchiveWorkspace \/ DeleteWorkspaceBegins \/ DeleteWorkspaceEnds \/ RestartGateway
  \/ \E p \in Profiles : \E st \in {"active", "archived"}, v \in Settings : UpdateProfile(p, v, st)
  \/ \E p \in Profiles, st \in {"active", "archived", "deleted"} : SetProfileStatus(p, st)

WsSpec == WsInit /\ [][WsNext]_wsVars
-----------------------------------------------------------------------------
(* Properties                                                                *)

ProfileIds == Profiles \cup {"none"}
\* What _snapshot_dedup_key makes
SnapKeys == Settings \X ProfileIds \X Nat \X Nat \X Nat
RowStatus == {"active", "archived", "deleted"}
WorkspaceRow == [status : RowStatus, setting : Settings, default : ProfileIds, version : Nat]
ProfileRow == [status : RowStatus, setting : Settings, version : Nat]
SessionRow ==
  [status : RowStatus \cup {"none"}, profile : ProfileIds, setting : Settings, version : Nat,
   busy : BOOLEAN, snap : SnapKeys \cup {<<>>}]

WsTypeOK ==
  /\ ws \in WorkspaceRow /\ profile \in [Profiles -> ProfileRow] /\ session \in [Sessions -> SessionRow]
  /\ request \in [Requests -> [at : {"off", "wait", "done"}, sess : Sessions \cup {"none"}]]
  /\ planned \subseteq Sessions /\ deleting \subseteq Sessions \cup {"workspace"}
  /\ wsOps \in 0 .. MaxWsOps

\* A workspace that was archived or deleted has no active session, sessions created
\* while its delete handler awaited evictions included (WorkspaceStore.archive, delete,
\* WorkspaceSessionStore.create).
ClosedHasNoActive ==
  ws.status # "active" => \A s \in Sessions : session[s].status # "active"

\* A session's busy flag is up exactly while one plan request holds it, across
\* concurrent requests, deletions and restarts (_make_plan, try_set_busy).
BusyHasOneHolder ==
  \A s \in Sessions :
    Cardinality({q \in Requests : request[q].at = "wait" /\ request[q].sess = s})
      = IF session[s].busy THEN 1 ELSE 0

\* A snapshot that is_stale accepts has the configuration that would be resolved now,
\* although sessions share snapshots and profiles come and go (workspace_runtime.py).
FreshSnapshotIsCurrent ==
  \A s \in Sessions :
    session[s].snap # <<>> /\ session[s].status # "deleted" /\ ~IsStale(s)
    => session[s].snap[1] = Resolve(s)

\* A plan is created only for a session that is still active: not what the code does.
PlansOfActiveOnly ==
  [][\A s \in planned' \ planned : session[s].status = "active"]_wsVars
=============================================================================
