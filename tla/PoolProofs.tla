----------------------------- MODULE PoolProofs ------------------------------
(* Theorems about who executes in a gateway and with what, for any sessions,  *)
(* rows, configurations, instances and jobs, and any bound of a run.          *)
(* One inductive invariant per part, with the part's types:                   *)
(*   pool        whoever drives an agent made it and holds its entry or is a  *)
(*               thread that was given up (DriverInv, under any races);       *)
(*               without the named races also: what awaits an execution has   *)
(*               the entry the pool serves for its key, with the              *)
(*               configuration promised by then (ServedInv);                  *)
(*   workspaces  a busy row is held by the one request that took its token,   *)
(*               and a snapshot knows the settings it was resolved from       *)
(*               (WsInv);                                                     *)
(*   scheduler   a mark is a fire that waits on its own instance (MarkInv), a *)
(*               run under way still waits (LiveInv), and a slot that some    *)
(*               instance can still come to was fired by none, nor can two    *)
(*               come to it (SlotInv).                                        *)
EXTENDS SessionPool, Workspaces, Scheduler, FiniteSetTheorems, WellFoundedInduction, TLAPS
-----------------------------------------------------------------------------
(* Session pool.                                                              *)

\* The states in which somebody awaits an execution.
Awaited == {x \in Execs : exec[x].at \notin {"off", "zombie", "done"}}
\* An execution that got as far as an agent of its own.
BuiltAt == {"run", "closing", "zombie", "done"}
HasBuilt(a) == exec[a].at \in BuiltAt

\* Who is not through has the entry it was given.
HasEntry == \A x \in Execs : exec[x].at \notin {"off", "done"} => exec[x].ent # None
Blank(e) == ent[e].private = FALSE /\ ent[e].lock = None /\ ent[e].agent = None /\ ent[e].ctx = NoConf
EntriesAreNamed ==
  /\ \A e \in Execs : ent[e].key = "none" => Blank(e)
  /\ \A x \in Awaited : ent[exec[x].ent].key # "none"
  /\ \A k \in Keys : /\ pool[k] # None => ent[pool[k]].key # "none"
                     /\ held[k] # None => ent[held[k]].key # "none"
LockHeld ==
  \A x \in Execs : exec[x].at \in {"create", "made", "run"} => ent[exec[x].ent].lock = x
AgentsAreBuilt ==
  /\ \A e \in Execs : ent[e].agent # None => HasBuilt(ent[e].agent)
  /\ \A x \in Execs : exec[x].agent # None => HasBuilt(exec[x].agent)
  /\ \A a \in cleaned : HasBuilt(a)
AgentsApart ==
  \A e, f \in Execs : e # f /\ ent[e].agent # None => ent[e].agent # ent[f].agent
DriversApart ==
  \A x \in Driving :
    /\ exec[x].agent # None
    /\ \A e \in Execs : ent[e].agent = exec[x].agent => exec[x].at = "run" /\ exec[x].ent = e
DriverInv ==
  HasEntry /\ EntriesAreNamed /\ LockHeld /\ AgentsAreBuilt /\ AgentsApart /\ DriversApart /\ OneDriverPerAgent
-----------------------------------------------------------------------------
LEMMA NoneOutside == None \notin Execs /\ (MaxExecs \in Nat => \A x \in Execs : x \in Nat)
BY DEF None, Execs

LEMMA PoolTypesInit == PoolInit => PoolTypeOK
BY PoolAssumption DEF PoolInit, PoolTypeOK, EntryRecord, ExecRecord, NoEntry, Off, NoConf, None

LEMMA PooledEntryType ==
  ASSUME PoolTypeOK, NEW k \in Keys, NEW x \in Execs PROVE PooledEntry(k, x) \in Execs \cup {None}
BY DEF PoolTypeOK, PooledEntry

\* What the actions write into an entry or an execution fits it.
LEMMA EntryUpdates ==
  ASSUME NEW r \in EntryRecord
  PROVE  /\ \A l \in Execs \cup {None} : [r EXCEPT !.lock = l] \in EntryRecord
         /\ \A l \in Execs \cup {None}, b \in BOOLEAN : [r EXCEPT !.lock = l, !.busy = b] \in EntryRecord
         /\ \A a \in Execs \cup {None} : [r EXCEPT !.agent = a] \in EntryRecord
         /\ \A b \in BOOLEAN : [r EXCEPT !.busy = b] \in EntryRecord
         /\ \A c \in 0 .. NoConf : [r EXCEPT !.ctx = c] \in EntryRecord
         /\ \A b \in BOOLEAN, c \in 0 .. NoConf : [r EXCEPT !.busy = b, !.ctx = c] \in EntryRecord
         /\ \A b, p \in BOOLEAN, c \in 0 .. NoConf : [r EXCEPT !.busy = b, !.ctx = c, !.private = p] \in EntryRecord
         /\ Quarantine(r) \in EntryRecord
BY DEF EntryRecord, Quarantine

LEMMA ExecUpdates ==
  ASSUME NEW r \in ExecRecord
  PROVE  /\ \A a \in {"create", "made", "run", "closing", "zombie", "retry"} : [r EXCEPT !.at = a] \in ExecRecord
         /\ \A a \in {"create", "made", "run"}, g \in Execs \cup {None} :
               [r EXCEPT !.at = a, !.agent = g] \in ExecRecord
BY DEF ExecRecord

LEMMA NewRecords ==
  /\ Done \in ExecRecord
  /\ \A k \in Keys, e \in Execs, d \in 0 .. MaxConf :
       /\ [Off EXCEPT !.at = "called", !.kind = "turn", !.key = k, !.ent = e, !.due = d] \in ExecRecord
       /\ [Off EXCEPT !.at = "queued", !.kind = "task", !.key = k, !.ent = e, !.due = d] \in ExecRecord
  /\ \A k \in Keys : [NoEntry EXCEPT !.key = k] \in EntryRecord
<1>1. Done \in ExecRecord
  BY PoolAssumption DEF ExecRecord, Off, Done
<1>2. \A k \in Keys, e \in Execs, d \in 0 .. MaxConf :
       /\ [Off EXCEPT !.at = "called", !.kind = "turn", !.key = k, !.ent = e, !.due = d] \in ExecRecord
       /\ [Off EXCEPT !.at = "queued", !.kind = "task", !.key = k, !.ent = e, !.due = d] \in ExecRecord
  BY DEF ExecRecord, Off
<1>3. MaxConf + 1 \in 0 .. MaxConf + 1
  BY PoolAssumption
<1>4. \A k \in Keys : [NoEntry EXCEPT !.key = k] \in EntryRecord
  BY <1>3 DEF NoEntry, EntryRecord, NoConf
<1> QED
  BY <1>1, <1>2, <1>4

\* The next number of a configuration is one of the bounded ones.
LEMMA LatestIsStored ==
  ASSUME PoolTypeOK, Keys # {} PROVE Latest \in 0 .. MaxConf /\ \A k \in Keys : conf[k] <= Latest
<1> DEFINE S == {MaxConf - conf[k] : k \in Keys}
<1>1. S \subseteq Nat /\ S # {}
  BY PoolAssumption DEF PoolTypeOK
<1>2. IsWellFoundedOn(OpToRel(<, Nat), Nat)
  BY NatLessThanWellFounded
<1>3. PICK m \in S : \A n \in S : <<n, m>> \notin OpToRel(<, Nat)
  BY <1>1, <1>2, WFMin
<1>4. \A n \in S : ~(n < m)
  BY <1>1, <1>3 DEF OpToRel
<1>5. PICK k \in Keys : m = MaxConf - conf[k]
  BY <1>3
<1>6. conf[k] \in 0 .. MaxConf /\ \A l \in Keys : conf[l] \in 0 .. MaxConf /\ conf[l] <= conf[k]
  <2>1. \A l \in Keys : conf[l] \in 0 .. MaxConf
    BY DEF PoolTypeOK
  <2>2. \A l \in Keys : ~(MaxConf - conf[l] < MaxConf - conf[k])
    BY <1>4, <1>5
  <2> QED
    BY <2>1, <2>2, PoolAssumption
<1>7. \E c \in 0 .. MaxConf : (\E l \in Keys : conf[l] = c) /\ \A l \in Keys : conf[l] <= c
  BY <1>6
<1> QED
  BY <1>7 DEF Latest

LEMMA EntryForType ==
  ASSUME PoolTypeOK, NEW k \in Keys, NEW e \in Execs PROVE EntryFor(k, e) \in EntryRecord
BY NewRecords DEF PoolTypeOK, EntryFor

LEMMA PoolTypesStep == PoolTypeOK /\ HasEntry /\ [PoolNext]_poolVars => PoolTypeOK'
<1> SUFFICES ASSUME PoolTypeOK, HasEntry, [PoolNext]_poolVars PROVE PoolTypeOK'
  OBVIOUS
<1>a. \A k \in Keys : conf[k] \in 0 .. MaxConf /\ promised[k] \in 0 .. MaxConf
  BY DEF PoolTypeOK
<1>b. \A k \in Keys : conf[k] \in 0 .. NoConf
  BY <1>a, PoolAssumption DEF NoConf
<1>c. \A y \in Execs : ent[y] \in EntryRecord /\ exec[y] \in ExecRecord
  BY DEF PoolTypeOK
<1>d. \A y \in Execs : exec[y].ent \in Execs \cup {None}
  BY <1>c DEF ExecRecord
<1>e. \A y \in Execs : /\ ent[y].agent \in Execs \cup {None}
                       /\ ent[y].ctx \in 0 .. NoConf /\ ent[y].private \in BOOLEAN
  BY <1>c DEF EntryRecord
<1>f. \A y \in Execs : exec[y].at \notin {"off", "done"} => exec[y].ent \in Execs
  BY <1>d DEF HasEntry
<1>1. ASSUME NEW x \in Execs, Enter(x), exec[x].at \notin {"off", "done"},
             UNCHANGED <<conf, promised, pool, held, built, cleaned>>
      PROVE PoolTypeOK'
  <2>1. exec[x].ent \in Execs
    BY <1>1, <1>f
  <2>2. [ent[exec[x].ent] EXCEPT !.lock = x, !.busy = TRUE] \in EntryRecord
    BY <2>1, <1>c, EntryUpdates
  <2>3. ent' \in [Execs -> EntryRecord]
    BY <1>1, <2>1, <2>2 DEF PoolTypeOK, Enter
  <2>4. ent[exec[x].ent].agent \in Execs \cup {None}
    BY <2>1, <1>e
  <2>5. [exec[x] EXCEPT !.at = IF ent[exec[x].ent].agent = None THEN "create" ELSE "run",
                        !.agent = ent[exec[x].ent].agent] \in ExecRecord
    BY <2>4, <1>c, ExecUpdates
  <2>6. exec' \in [Execs -> ExecRecord]
    BY <1>1, <2>5 DEF PoolTypeOK, Enter
  <2> QED
    BY <1>1, <2>3, <2>6 DEF PoolTypeOK
<1>2. ASSUME NEW x \in Execs, TurnRefused(x) PROVE PoolTypeOK'
  BY <1>2, <1>c, EntryUpdates, NewRecords DEF PoolTypeOK, TurnRefused
<1>4. ASSUME NEW x \in Execs, TaskBacksOff(x) PROVE PoolTypeOK'
  BY <1>4, <1>c, EntryUpdates, ExecUpdates DEF PoolTypeOK, TaskBacksOff
<1>5. ASSUME NEW x \in Execs, TaskGivesUp(x) PROVE PoolTypeOK'
  BY <1>5, <1>c, EntryUpdates, NewRecords DEF PoolTypeOK, TaskGivesUp
<1>6. ASSUME NEW x \in Execs, AgentCreated(x) PROVE PoolTypeOK'
  <2>1. ent[exec[x].ent].ctx \in 0 .. NoConf
    BY <1>6, <1>e, <1>f DEF AgentCreated
  <2> QED
    BY <1>6, <2>1, <1>c, ExecUpdates DEF PoolTypeOK, AgentCreated
<1>7. ASSUME NEW x \in Execs, AgentInstalled(x) PROVE PoolTypeOK'
  BY <1>7, <1>c, EntryUpdates, ExecUpdates DEF PoolTypeOK, AgentInstalled
<1>8. ASSUME NEW x \in Execs, RunReturns(x) PROVE PoolTypeOK'
  BY <1>8, <1>c, EntryUpdates, ExecUpdates DEF PoolTypeOK, RunReturns
<1>9. ASSUME NEW x \in Execs, ExecutionCloses(x) PROVE PoolTypeOK'
  BY <1>9, <1>c, EntryUpdates, NewRecords DEF PoolTypeOK, ExecutionCloses
<1>10. ASSUME NEW x \in Execs, RunTimesOut(x) PROVE PoolTypeOK'
  BY <1>10, <1>c, EntryUpdates, ExecUpdates DEF PoolTypeOK, RunTimesOut
<1>11. ASSUME NEW x \in Execs, ZombieEnds(x) PROVE PoolTypeOK'
  BY <1>11, NewRecords DEF PoolTypeOK, ZombieEnds
<1>12. ASSUME NEW x \in Execs, NEW k \in Keys, TurnArrives(x, k) PROVE PoolTypeOK'
  <2> DEFINE e == PooledEntry(k, x)
             drop == DroppedPrivate(k, e)
  <2>1. e \in Execs
    BY <1>12, PooledEntryType DEF TurnArrives
  <2>2. EntryFor(k, e) \in EntryRecord
    BY <2>1, EntryForType
  <2> HIDE DEF e
  <2>3. \A y \in Execs : ent'[y] \in EntryRecord
    BY <1>12, <1>b, <1>c, <2>1, <2>2, EntryUpdates DEF TurnArrives, e
  <2>4. cleaned' \subseteq Execs
    BY <1>12, <1>e DEF PoolTypeOK, TurnArrives, DroppedPrivate, e
  <2> HIDE DEF drop
  <2>5. ent' \in [Execs -> EntryRecord]
    BY <1>12, <2>3 DEF TurnArrives
  <2>6. exec' \in [Execs -> ExecRecord]
    BY <1>12, <1>a, <2>1, NewRecords DEF PoolTypeOK, TurnArrives, e
  <2> QED
    BY <1>12, <2>1, <2>4, <2>5, <2>6 DEF PoolTypeOK, TurnArrives, e
<1>13. ASSUME NEW x \in Execs, NEW k \in Keys, TurnArrivesFull(x, k) PROVE PoolTypeOK'
  <2> DEFINE e == IF held[k] # None THEN held[k] ELSE x
  <2>1. e \in Execs
    BY DEF PoolTypeOK
  <2>2. EntryFor(k, e) \in EntryRecord
    BY <2>1, EntryForType
  <2>3. EntryFor(k, e).private \in BOOLEAN
    BY <2>2 DEF EntryRecord
  <2>4. ent' = [ent EXCEPT ![e] = [EntryFor(k, e) EXCEPT !.busy = TRUE, !.ctx = conf[k],
                                                         !.private = (held[k] = None) \/ @]]
    BY <1>13 DEF TurnArrivesFull
  <2>5. exec' = [exec EXCEPT ![x] = [Off EXCEPT !.at = "called", !.kind = "turn",
                                  !.key = k, !.ent = e, !.due = promised[k]]]
        /\ held' = [held EXCEPT ![k] = e]
    BY <1>13 DEF TurnArrivesFull
  <2> HIDE DEF e
  <2>6. [EntryFor(k, e) EXCEPT !.busy = TRUE, !.ctx = conf[k], !.private = (held[k] = None) \/ @]
          \in EntryRecord
    BY <2>2, <2>3, <1>b, EntryUpdates
  <2>7. exec' \in [Execs -> ExecRecord]
    BY <2>1, <2>5, <1>a, NewRecords DEF PoolTypeOK
  <2>8. ent' \in [Execs -> EntryRecord]
    BY <2>1, <2>4, <2>6 DEF PoolTypeOK
  <2> QED
    BY <1>13, <2>1, <2>5, <2>7, <2>8 DEF PoolTypeOK, TurnArrivesFull
<1>14. ASSUME NEW x \in Execs, NEW k \in Keys, TaskSubmitted(x, k) PROVE PoolTypeOK'
  <2> DEFINE e == PooledEntry(k, x)
  <2>1. e \in Execs
    BY <1>14, PooledEntryType DEF TaskSubmitted
  <2>2. EntryFor(k, e) \in EntryRecord /\ EntryFor(k, e).ctx \in 0 .. NoConf
    <3>1. EntryFor(k, e) \in EntryRecord
      BY <2>1, EntryForType
    <3> QED
      BY <3>1 DEF EntryRecord
  <2> HIDE DEF e
  <2>3. ent' \in [Execs -> EntryRecord]
    BY <1>14, <1>b, <2>1, <2>2, EntryUpdates DEF PoolTypeOK, TaskSubmitted, e
  <2>4. exec' \in [Execs -> ExecRecord]
    BY <1>14, <1>a, <2>1, NewRecords DEF PoolTypeOK, TaskSubmitted, e
  <2> QED
    BY <1>14, <2>1, <2>3, <2>4 DEF PoolTypeOK, TaskSubmitted, e
<1>15. ASSUME NEW k \in Keys, Evict(k) PROVE PoolTypeOK'
  BY <1>15, <1>e DEF PoolTypeOK, Evict
<1>16. ASSUME NEW k \in Keys, RunnerEvicts(k) PROVE PoolTypeOK'
  BY <1>16, <1>c, <1>e, EntryUpdates DEF PoolTypeOK, RunnerEvicts
<1>17. ASSUME NEW k \in Keys, SwitchConfig(k) PROVE PoolTypeOK'
  <2>1. Latest + 1 \in 0 .. MaxConf
    BY <1>17, LatestIsStored, PoolAssumption DEF SwitchConfig
  <2>2. ent' \in [Execs -> EntryRecord]
    BY <1>17, <1>c, EntryUpdates DEF PoolTypeOK, SwitchConfig, RebuildOnNextMessage
  <2> QED
    BY <1>17, <2>1, <2>2 DEF PoolTypeOK, SwitchConfig
<1>18. ASSUME NEW k \in Keys, ApplyConfig(k) PROVE PoolTypeOK'
  <2>1. Latest + 1 \in 0 .. MaxConf
    BY <1>18, LatestIsStored, PoolAssumption DEF ApplyConfig
  <2> QED
    BY <1>18, <2>1 DEF PoolTypeOK, ApplyConfig
<1>19. CASE JanitorRound
  <2>1. \A k \in Resident : ent[pool[k]].agent \in Execs \cup {None}
    BY <1>e DEF PoolTypeOK, Resident
  <2>2. PICK gone \in SUBSET Resident :
          /\ pool' = [k \in Keys |-> IF k \in gone THEN None ELSE pool[k]]
          /\ cleaned' = cleaned \cup ({ent[pool[k]].agent : k \in gone} \ {None})
    BY <1>19 DEF JanitorRound
  <2>3. pool' \in [Keys -> Execs \cup {None}]
    BY <2>2 DEF PoolTypeOK
  <2>4. cleaned' \subseteq Execs
    BY <2>1, <2>2 DEF PoolTypeOK
  <2> QED
    BY <1>19, <2>3, <2>4 DEF PoolTypeOK, JanitorRound
<1>20. CASE UNCHANGED poolVars
  BY <1>20 DEF PoolTypeOK, poolVars
<1> QED
  BY <1>1, <1>2, <1>4, <1>5, <1>6, <1>7, <1>8, <1>9, <1>10, <1>11, <1>12, <1>13, <1>14, <1>15, <1>16,
     <1>17, <1>18, <1>19, <1>20 DEF PoolNext, TurnEnters, TaskEnters
-----------------------------------------------------------------------------
(* What the actions change, field by field.                                  *)

SameEntry(e) ==
  /\ ent'[e].key = ent[e].key /\ ent'[e].private = ent[e].private /\ ent'[e].lock = ent[e].lock
  /\ ent'[e].agent = ent[e].agent /\ ent'[e].ctx = ent[e].ctx
OthersSame(x) == \A y \in Execs \ {x} : exec'[y] = exec[y]
\* The execution moves on and stays what it is.
SameExec(x) ==
  exec'[x].kind = exec[x].kind /\ exec'[x].key = exec[x].key /\ exec'[x].ent = exec[x].ent /\ exec'[x].due = exec[x].due

LEMMA FieldTypes ==
  ASSUME PoolTypeOK
  PROVE  /\ \A e \in Execs : /\ ent[e].key \in Keys \cup {"none"} /\ ent[e].private \in BOOLEAN
                             /\ ent[e].lock \in Execs \cup {None} /\ ent[e].agent \in Execs \cup {None}
                             /\ ent[e].ctx \in 0 .. NoConf
         /\ \A x \in Execs : /\ exec[x].ent \in Execs \cup {None} /\ exec[x].agent \in Execs \cup {None}
                             /\ exec[x].key \in Keys \cup {"none"} /\ exec[x].due \in 0 .. MaxConf
                             /\ exec[x].kind \in {"none", "turn", "task"}
<1>1. /\ \A e \in Execs : ent[e] \in EntryRecord
      /\ \A x \in Execs : exec[x] \in ExecRecord
  BY DEF PoolTypeOK
<1> QED
  BY <1>1 DEF EntryRecord, ExecRecord

LEMMA EnterEffect ==
  ASSUME PoolTypeOK, HasEntry, NEW x \in Execs, Enter(x), exec[x].at \notin {"off", "done"}
  PROVE  /\ exec[x].ent \in Execs /\ ent[exec[x].ent].lock = None
         /\ \A y \in Execs \ {exec[x].ent} : ent'[y] = ent[y]
         /\ ent'[exec[x].ent].lock = x /\ ent'[exec[x].ent].key = ent[exec[x].ent].key
         /\ ent'[exec[x].ent].private = ent[exec[x].ent].private
         /\ ent'[exec[x].ent].agent = ent[exec[x].ent].agent /\ ent'[exec[x].ent].ctx = ent[exec[x].ent].ctx
         /\ OthersSame(x) /\ SameExec(x) /\ exec'[x].agent = ent[exec[x].ent].agent
         /\ exec'[x].at = IF ent[exec[x].ent].agent = None THEN "create" ELSE "run"
<1>1. exec[x].ent \in Execs
  BY FieldTypes DEF HasEntry
<1>2. ent[exec[x].ent] \in EntryRecord /\ exec[x] \in ExecRecord
  BY <1>1 DEF PoolTypeOK
<1> QED
  BY <1>1, <1>2 DEF Enter, PoolTypeOK, OthersSame, SameExec, EntryRecord, ExecRecord

\* The ends of an execution: only the busy mark of its entry changes.
LEMMA EndEffect ==
  ASSUME PoolTypeOK, NEW x \in Execs, TurnRefused(x) \/ TaskGivesUp(x) \/ ExecutionCloses(x) \/ ZombieEnds(x)
  PROVE  /\ \A e \in Execs : SameEntry(e)
         /\ OthersSame(x) /\ exec'[x] = Done
         /\ UNCHANGED <<conf, promised, pool, held, built, cleaned>>
<1>1. \A e \in Execs : ent[e] \in EntryRecord
  BY DEF PoolTypeOK
<1>2. \/ ent' = [ent EXCEPT ![exec[x].ent].busy = FALSE]
      \/ ent' = ent
  BY DEF TurnRefused, TaskGivesUp, ExecutionCloses, ZombieEnds
<1>3. exec' = [exec EXCEPT ![x] = Done] /\ UNCHANGED <<conf, promised, pool, held, built, cleaned>>
  BY DEF TurnRefused, TaskGivesUp, ExecutionCloses, ZombieEnds
<1>4. \A e \in Execs : SameEntry(e)
  BY <1>1, <1>2 DEF PoolTypeOK, SameEntry, EntryRecord
<1> QED
  BY <1>3, <1>4 DEF PoolTypeOK, OthersSame

LEMMA BackOffEffect ==
  ASSUME PoolTypeOK, NEW x \in Execs, TaskBacksOff(x)
  PROVE  /\ \A e \in Execs : SameEntry(e)
         /\ OthersSame(x) /\ SameExec(x) /\ exec'[x].at = "retry" /\ exec'[x].agent = exec[x].agent
<1>1. \A e \in Execs : ent[e] \in EntryRecord /\ exec[x] \in ExecRecord
  BY DEF PoolTypeOK
<1> QED
  BY <1>1 DEF TaskBacksOff, PoolTypeOK, SameEntry, EntryRecord, ExecRecord, OthersSame, SameExec

LEMMA CreatedEffect ==
  ASSUME PoolTypeOK, NEW x \in Execs, AgentCreated(x)
  PROVE  /\ ent' = ent /\ OthersSame(x) /\ SameExec(x) /\ exec'[x].at = "made" /\ exec'[x].agent = exec[x].agent
         /\ \A y \in Execs \ {x} : built'[y] = built[y]
         /\ built'[x] = ent[exec[x].ent].ctx
<1>1. exec[x] \in ExecRecord
  BY DEF PoolTypeOK
<1> QED
  BY <1>1 DEF AgentCreated, PoolTypeOK, ExecRecord, OthersSame, SameExec

LEMMA InstalledEffect ==
  ASSUME PoolTypeOK, HasEntry, NEW x \in Execs, AgentInstalled(x)
  PROVE  /\ exec[x].ent \in Execs
         /\ \A y \in Execs \ {exec[x].ent} : ent'[y] = ent[y]
         /\ ent'[exec[x].ent].lock = ent[exec[x].ent].lock /\ ent'[exec[x].ent].key = ent[exec[x].ent].key
         /\ ent'[exec[x].ent].private = ent[exec[x].ent].private
         /\ ent'[exec[x].ent].agent = x /\ ent'[exec[x].ent].ctx = ent[exec[x].ent].ctx
         /\ OthersSame(x) /\ SameExec(x) /\ exec'[x].at = "run" /\ exec'[x].agent = x
<1>1. exec[x].ent \in Execs
  BY FieldTypes DEF HasEntry, AgentInstalled
<1>2. ent[exec[x].ent] \in EntryRecord /\ exec[x] \in ExecRecord
  BY <1>1 DEF PoolTypeOK
<1> QED
  BY <1>1, <1>2 DEF AgentInstalled, PoolTypeOK, EntryRecord, ExecRecord, OthersSame, SameExec

LEMMA LeavesEffect ==
  ASSUME PoolTypeOK, HasEntry, NEW x \in Execs, RunReturns(x) \/ RunTimesOut(x)
  PROVE  /\ exec[x].ent \in Execs /\ exec[x].at = "run"
         /\ \A y \in Execs \ {exec[x].ent} : ent'[y] = ent[y]
         /\ ent'[exec[x].ent].lock = None /\ ent'[exec[x].ent].key = ent[exec[x].ent].key
         /\ ent'[exec[x].ent].private = ent[exec[x].ent].private /\ ent'[exec[x].ent].ctx = ent[exec[x].ent].ctx
         /\ OthersSame(x) /\ SameExec(x) /\ exec'[x].agent = exec[x].agent
         /\ \/ exec'[x].at = "closing" /\ ent'[exec[x].ent].agent = ent[exec[x].ent].agent
            \/ exec'[x].at = "zombie" /\ ent'[exec[x].ent].agent = None
         /\ UNCHANGED <<conf, promised, pool, held, built, cleaned>>
<1>1. exec[x].ent \in Execs
  BY FieldTypes DEF HasEntry, RunReturns, RunTimesOut
<1>2. ent[exec[x].ent] \in EntryRecord /\ exec[x] \in ExecRecord
  BY <1>1 DEF PoolTypeOK
<1>3. CASE RunReturns(x)
  BY <1>1, <1>2, <1>3 DEF RunReturns, PoolTypeOK, EntryRecord, ExecRecord, OthersSame, SameExec
<1>4. CASE RunTimesOut(x)
  BY <1>1, <1>2, <1>4 DEF RunTimesOut, Quarantine, PoolTypeOK, EntryRecord, ExecRecord, OthersSame, SameExec
<1> QED
  BY <1>3, <1>4

\* Execution x arrives for session k and is given entry e, one of its own or a new one; other
\* entries lose their agent at most.
Arrived(x, k, e) ==
  /\ exec[x].at = "off" /\ OthersSame(x)
  /\ e \in Execs /\ e \in {pool[k], held[k], x}
  /\ exec'[x].at \in {"called", "queued"} /\ exec'[x].key = k /\ exec'[x].ent = e /\ exec'[x].agent = None
  /\ exec'[x].kind = (IF exec'[x].at = "called" THEN "turn" ELSE "task") /\ exec'[x].due = promised[k]
  /\ ent'[e].key = (IF ent[e].key = "none" THEN k ELSE ent[e].key)
  /\ ent'[e].lock = ent[e].lock /\ ent'[e].agent = ent[e].agent
  /\ \A y \in Execs \ {e} :
       /\ ent'[y].key = ent[y].key /\ ent'[y].private = ent[y].private /\ ent'[y].lock = ent[y].lock
       /\ ent'[y].ctx = ent[y].ctx
       /\ \/ ent'[y].agent = ent[y].agent
          \/ ent'[y].agent = None /\ held[k] = y /\ ent[y].private /\ ent[y].agent \in cleaned' /\ held'[k] = e
  /\ \A a \in cleaned' \ cleaned : /\ a # None /\ held[k] \in Execs \ {e} /\ ent[held[k]].private
                               /\ ent[held[k]].agent = a /\ ent'[held[k]].agent = None
  /\ \A l \in Keys : /\ pool'[l] = pool[l] \/ (l = k /\ pool'[l] = e /\ pool[l] \in {None, e})
                     /\ held'[l] = held[l] \/ (l = k /\ held'[l] = e)
  /\ \A y \in Execs : e = y /\ y # pool[k] /\ y # held[k] => y = x
  /\ UNCHANGED <<conf, promised, built>>

LEMMA EntryForFields ==
  ASSUME PoolTypeOK, NEW k \in Keys, NEW e \in Execs, ent[e].key = "none" => Blank(e)
  PROVE  /\ EntryFor(k, e).key = (IF ent[e].key = "none" THEN k ELSE ent[e].key)
         /\ EntryFor(k, e).lock = ent[e].lock /\ EntryFor(k, e).agent = ent[e].agent
         /\ EntryFor(k, e).private = ent[e].private /\ EntryFor(k, e).ctx = ent[e].ctx
<1>1. CASE ent[e].key = "none"
  BY <1>1 DEF EntryFor, NoEntry, Blank
<1>2. CASE ent[e].key # "none"
  BY <1>2 DEF EntryFor
<1> QED
  BY <1>1, <1>2

LEMMA TurnArrivesEffect ==
  ASSUME PoolTypeOK, \A e \in Execs : ent[e].key = "none" => Blank(e),
         NEW x \in Execs, NEW k \in Keys, TurnArrives(x, k)
  PROVE  /\ Arrived(x, k, PooledEntry(k, x)) /\ exec'[x].at = "called"
         /\ pool'[k] = PooledEntry(k, x) /\ held'[k] = PooledEntry(k, x)
         /\ PooledEntry(k, x) = (IF pool[k] = None THEN x ELSE pool[k])
         /\ ent'[PooledEntry(k, x)].ctx = conf[k] /\ ~TurnRunning(k)
         /\ ent'[PooledEntry(k, x)].private = ent[PooledEntry(k, x)].private
<1> DEFINE e == PooledEntry(k, x)
           drop == DroppedPrivate(k, e)
<1>1. e \in Execs /\ e = (IF pool[k] = None THEN x ELSE pool[k]) /\ exec[x].at = "off"
  BY PooledEntryType DEF TurnArrives, PooledEntry, Fresh
<1>2. /\ pool' = [pool EXCEPT ![k] = e]
      /\ held' = [held EXCEPT ![k] = e]
      /\ ent' = [y \in Execs |->
          IF y = e THEN [EntryFor(k, e) EXCEPT !.busy = TRUE, !.ctx = conf[k]]
          ELSE IF y \in drop THEN [ent[y] EXCEPT !.agent = None] ELSE ent[y]]
      /\ cleaned' = cleaned \cup {ent[y].agent : y \in drop}
      /\ exec' = [exec EXCEPT ![x] = [Off EXCEPT !.at = "called", !.kind = "turn",
                                  !.key = k, !.ent = e, !.due = promised[k]]]
      /\ UNCHANGED <<conf, promised, built>> /\ ~TurnRunning(k)
  BY DEF TurnArrives
<1>3. \A y \in drop : y \in Execs /\ held[k] = y /\ y # e /\ ent[y].private /\ ent[y].agent # None
  BY DEF DroppedPrivate
<1> HIDE DEF e, drop
<1>4. /\ EntryFor(k, e) \in EntryRecord
      /\ \A y \in Execs : ent[y] \in EntryRecord
  BY <1>1, EntryForType DEF PoolTypeOK
<1>5. /\ EntryFor(k, e).key = (IF ent[e].key = "none" THEN k ELSE ent[e].key)
      /\ EntryFor(k, e).lock = ent[e].lock /\ EntryFor(k, e).agent = ent[e].agent
      /\ EntryFor(k, e).private = ent[e].private /\ EntryFor(k, e).ctx = ent[e].ctx
  BY <1>1, EntryForFields
<1>6. ent'[e] = [EntryFor(k, e) EXCEPT !.busy = TRUE, !.ctx = conf[k]]
  BY <1>1, <1>2
<1>7. /\ ent'[e].key = (IF ent[e].key = "none" THEN k ELSE ent[e].key)
      /\ ent'[e].lock = ent[e].lock /\ ent'[e].agent = ent[e].agent /\ ent'[e].private = ent[e].private
      /\ ent'[e].ctx = conf[k]
  BY <1>4, <1>5, <1>6 DEF EntryRecord
<1>8. \A y \in Execs \ {e} :
       /\ ent'[y].key = ent[y].key /\ ent'[y].private = ent[y].private /\ ent'[y].lock = ent[y].lock
       /\ ent'[y].ctx = ent[y].ctx
       /\ \/ ent'[y].agent = ent[y].agent
          \/ ent'[y].agent = None /\ y \in drop
  <2> SUFFICES ASSUME NEW y \in Execs \ {e}
               PROVE  /\ ent'[y].key = ent[y].key /\ ent'[y].private = ent[y].private /\ ent'[y].lock = ent[y].lock
                      /\ ent'[y].ctx = ent[y].ctx
                      /\ \/ ent'[y].agent = ent[y].agent
                         \/ ent'[y].agent = None /\ y \in drop
    OBVIOUS
  <2>1. ent'[y] = IF y \in drop THEN [ent[y] EXCEPT !.agent = None] ELSE ent[y]
    BY <1>2
  <2> QED
    BY <1>4, <2>1 DEF EntryRecord
<1>9. exec'[x] = [Off EXCEPT !.at = "called", !.kind = "turn", !.key = k, !.ent = e, !.due = promised[k]]
      /\ OthersSame(x)
  BY <1>2 DEF PoolTypeOK, OthersSame
<1>10. /\ exec'[x].at = "called" /\ exec'[x].key = k /\ exec'[x].ent = e /\ exec'[x].agent = None
       /\ exec'[x].kind = "turn" /\ exec'[x].due = promised[k]
  BY <1>9 DEF Off
<1>11. \A l \in Keys : /\ pool'[l] = IF l = k THEN e ELSE pool[l]
                       /\ held'[l] = IF l = k THEN e ELSE held[l]
  BY <1>2 DEF PoolTypeOK
<1>12. \A y \in drop : ent[y].agent \in cleaned'
  BY <1>2
<1>13. \A a \in cleaned' \ cleaned : /\ a # None /\ held[k] \in Execs \ {e} /\ ent[held[k]].private
                                     /\ ent[held[k]].agent = a /\ ent'[held[k]].agent = None
  <2>1. \A y \in drop : ent'[y] = [ent[y] EXCEPT !.agent = None]
    BY <1>2, <1>3
  <2>2. ASSUME NEW y \in drop PROVE ent'[y].agent = None
    <3>1. ent'[y] = [ent[y] EXCEPT !.agent = None] /\ ent[y] \in EntryRecord
      BY <2>1, <1>3, <1>4
    <3> QED
      BY <3>1 DEF EntryRecord
  <2> QED
    BY <1>2, <1>3, <2>2
<1>14. Arrived(x, k, e)
  <2>1. \A y \in Execs \ {e} : ent'[y].agent = ent[y].agent
          \/ (ent'[y].agent = None /\ held[k] = y /\ ent[y].private /\ ent[y].agent \in cleaned' /\ held'[k] = e)
    BY <1>3, <1>8, <1>11, <1>12
  <2>2. \A l \in Keys : /\ pool'[l] = pool[l] \/ (l = k /\ pool'[l] = e /\ pool[l] \in {None, e})
                        /\ held'[l] = held[l] \/ (l = k /\ held'[l] = e)
    BY <1>1, <1>11
  <2>3. e \in {pool[k], held[k], x} /\ \A y \in Execs : e = y /\ y # pool[k] /\ y # held[k] => y = x
    BY <1>1
  <2>4. UNCHANGED <<conf, promised, built>>
    BY <1>2
  <2> QED
    BY <1>1, <1>7, <1>8, <1>9, <1>10, <1>13, <2>1, <2>2, <2>3, <2>4 DEF Arrived
<1> QED
  BY <1>1, <1>2, <1>7, <1>10, <1>11, <1>14 DEF e

LEMMA FullEffect ==
  ASSUME PoolTypeOK, \A e \in Execs : ent[e].key = "none" => Blank(e),
         NEW x \in Execs, NEW k \in Keys, TurnArrivesFull(x, k)
  PROVE  LET e == IF held[k] # None THEN held[k] ELSE x IN
         /\ Arrived(x, k, e) /\ exec'[x].at = "called"
         /\ pool' = pool /\ pool[k] = None /\ held'[k] = e /\ cleaned' = cleaned
         /\ ent'[e].ctx = conf[k] /\ ~TurnRunning(k) /\ ("full" \in Races \/ ent[e].agent \notin cleaned)
         /\ ent'[e].private = (held[k] = None \/ ent[e].private)
         /\ \A y \in Execs \ {e} : ent'[y] = ent[y]
<1> DEFINE e == IF held[k] # None THEN held[k] ELSE x
<1>1. e \in Execs /\ exec[x].at = "off" /\ pool[k] = None
  BY DEF PoolTypeOK, TurnArrivesFull, Fresh, PooledEntry
<1>2. /\ ent' = [ent EXCEPT ![e] = [EntryFor(k, e) EXCEPT !.busy = TRUE, !.ctx = conf[k],
                                                         !.private = (held[k] = None) \/ @]]
      /\ exec' = [exec EXCEPT ![x] = [Off EXCEPT !.at = "called", !.kind = "turn",
                                  !.key = k, !.ent = e, !.due = promised[k]]]
      /\ held' = [held EXCEPT ![k] = e]
      /\ UNCHANGED <<conf, promised, pool, built, cleaned>>
      /\ ~TurnRunning(k) /\ ("full" \in Races \/ ent[e].agent \notin cleaned)
  BY DEF TurnArrivesFull
<1>3. e = held[k] \/ (e = x /\ held[k] = None)
  OBVIOUS
<1> HIDE DEF e
<1>4. EntryFor(k, e) \in EntryRecord
  BY <1>1, EntryForType
<1>5. /\ EntryFor(k, e).key = (IF ent[e].key = "none" THEN k ELSE ent[e].key)
      /\ EntryFor(k, e).lock = ent[e].lock /\ EntryFor(k, e).agent = ent[e].agent
      /\ EntryFor(k, e).private = ent[e].private /\ EntryFor(k, e).ctx = ent[e].ctx
  BY <1>1, EntryForFields
<1>6. /\ ent'[e] = [EntryFor(k, e) EXCEPT !.busy = TRUE, !.ctx = conf[k], !.private = (held[k] = None) \/ @]
      /\ \A y \in Execs \ {e} : ent'[y] = ent[y]
  BY <1>1, <1>2 DEF PoolTypeOK
<1>7. /\ ent'[e].key = (IF ent[e].key = "none" THEN k ELSE ent[e].key)
      /\ ent'[e].lock = ent[e].lock /\ ent'[e].agent = ent[e].agent
      /\ ent'[e].private = (held[k] = None \/ ent[e].private)
      /\ ent'[e].ctx = conf[k]
  BY <1>4, <1>5, <1>6 DEF EntryRecord
<1>8. exec'[x] = [Off EXCEPT !.at = "called", !.kind = "turn", !.key = k, !.ent = e, !.due = promised[k]]
      /\ OthersSame(x)
  BY <1>2 DEF PoolTypeOK, OthersSame
<1>9. /\ exec'[x].at = "called" /\ exec'[x].key = k /\ exec'[x].ent = e /\ exec'[x].agent = None
      /\ exec'[x].kind = "turn" /\ exec'[x].due = promised[k]
  BY <1>8 DEF Off
<1>10. \A l \in Keys : pool'[l] = pool[l] /\ held'[l] = IF l = k THEN e ELSE held[l]
  BY <1>2 DEF PoolTypeOK
<1>11. Arrived(x, k, e)
  BY <1>1, <1>2, <1>3, <1>6, <1>7, <1>8, <1>9, <1>10 DEF Arrived
<1> QED
  BY <1>1, <1>2, <1>6, <1>7, <1>9, <1>10, <1>11 DEF e

LEMMA SubmittedEffect ==
  ASSUME PoolTypeOK, \A e \in Execs : ent[e].key = "none" => Blank(e),
         NEW x \in Execs, NEW k \in Keys, TaskSubmitted(x, k)
  PROVE  /\ Arrived(x, k, PooledEntry(k, x)) /\ exec'[x].at = "queued"
         /\ pool'[k] = PooledEntry(k, x) /\ held' = held /\ cleaned' = cleaned
         /\ PooledEntry(k, x) = (IF pool[k] = None THEN x ELSE pool[k])
         /\ ent'[PooledEntry(k, x)].ctx
              = (IF ent[PooledEntry(k, x)].ctx = NoConf THEN conf[k] ELSE ent[PooledEntry(k, x)].ctx)
         /\ ent'[PooledEntry(k, x)].private = ent[PooledEntry(k, x)].private
         /\ \A y \in Execs \ {PooledEntry(k, x)} : ent'[y] = ent[y]
         /\ \/ "full" \in Races
            \/ \A y \in Execs : ent[y].key = k /\ y # PooledEntry(k, x) => InFlight(y) = {}
         /\ \/ "switch" \in Races \/ ent[PooledEntry(k, x)].agent # None
            \/ ent[PooledEntry(k, x)].ctx >= promised[k]
<1> DEFINE e == PooledEntry(k, x)
<1>1. e \in Execs /\ e = (IF pool[k] = None THEN x ELSE pool[k]) /\ exec[x].at = "off"
  BY PooledEntryType DEF TaskSubmitted, PooledEntry, Fresh
<1>2. /\ pool' = [pool EXCEPT ![k] = e]
      /\ ent' = [ent EXCEPT ![e] = [EntryFor(k, e) EXCEPT !.ctx = IF @ = NoConf THEN conf[k] ELSE @]]
      /\ exec' = [exec EXCEPT ![x] = [Off EXCEPT !.at = "queued", !.kind = "task",
                                  !.key = k, !.ent = e, !.due = promised[k]]]
      /\ UNCHANGED <<conf, promised, held, built, cleaned>>
      /\ "full" \in Races \/ \A y \in Execs : ent[y].key = k /\ y # e => InFlight(y) = {}
      /\ "switch" \in Races \/ EntryFor(k, e).agent # None \/ EntryFor(k, e).ctx >= promised[k]
  BY DEF TaskSubmitted
<1> HIDE DEF e
<1>4. EntryFor(k, e) \in EntryRecord
  BY <1>1, EntryForType
<1>5. /\ EntryFor(k, e).key = (IF ent[e].key = "none" THEN k ELSE ent[e].key)
      /\ EntryFor(k, e).lock = ent[e].lock /\ EntryFor(k, e).agent = ent[e].agent
      /\ EntryFor(k, e).private = ent[e].private /\ EntryFor(k, e).ctx = ent[e].ctx
  BY <1>1, EntryForFields
<1>6. /\ ent'[e] = [EntryFor(k, e) EXCEPT !.ctx = IF @ = NoConf THEN conf[k] ELSE @]
      /\ \A y \in Execs \ {e} : ent'[y] = ent[y]
  BY <1>1, <1>2 DEF PoolTypeOK
<1>7. /\ ent'[e].key = (IF ent[e].key = "none" THEN k ELSE ent[e].key)
      /\ ent'[e].lock = ent[e].lock /\ ent'[e].agent = ent[e].agent
      /\ ent'[e].private = ent[e].private
      /\ ent'[e].ctx = (IF ent[e].ctx = NoConf THEN conf[k] ELSE ent[e].ctx)
  BY <1>4, <1>5, <1>6 DEF EntryRecord
<1>8. exec'[x] = [Off EXCEPT !.at = "queued", !.kind = "task", !.key = k, !.ent = e, !.due = promised[k]]
      /\ OthersSame(x)
  BY <1>2 DEF PoolTypeOK, OthersSame
<1>9. /\ exec'[x].at = "queued" /\ exec'[x].key = k /\ exec'[x].ent = e /\ exec'[x].agent = None
      /\ exec'[x].kind = "task" /\ exec'[x].due = promised[k]
  BY <1>8 DEF Off
<1>10. \A l \in Keys : held'[l] = held[l] /\ pool'[l] = IF l = k THEN e ELSE pool[l]
  BY <1>2 DEF PoolTypeOK
<1>11. Arrived(x, k, e)
  <2>1. \A l \in Keys : /\ pool'[l] = pool[l] \/ (l = k /\ pool'[l] = e /\ pool[l] \in {None, e})
                        /\ held'[l] = held[l]
    BY <1>1, <1>10
  <2>2. e \in {pool[k], held[k], x} /\ \A y \in Execs : e = y /\ y # pool[k] /\ y # held[k] => y = x
    BY <1>1
  <2>3. UNCHANGED <<conf, promised, built>> /\ cleaned' = cleaned
    BY <1>2
  <2> QED
    BY <1>1, <1>6, <1>7, <1>8, <1>9, <2>1, <2>2, <2>3 DEF Arrived
<1> QED
  BY <1>1, <1>2, <1>5, <1>6, <1>7, <1>9, <1>10, <1>11 DEF e

\* The sessions in gone leave the pool with what their agents hold.
Gone(gone) ==
  /\ gone \subseteq Keys /\ \A k \in gone : pool[k] # None /\ MayEvict(pool[k])
  /\ \A k \in Keys : pool'[k] = IF k \in gone THEN None ELSE pool[k]
  /\ \A a \in cleaned' : a \in cleaned \/ \E k \in gone : a = ent[pool[k]].agent /\ a # None
  /\ UNCHANGED <<conf, promised, ent, held, exec, built>>

LEMMA EvictEffect ==
  ASSUME PoolTypeOK, NEW k \in Keys, Evict(k) PROVE Gone({k})
BY DEF PoolTypeOK, Evict, Gone

LEMMA JanitorEffect ==
  ASSUME PoolTypeOK, JanitorRound PROVE \E gone \in SUBSET Keys : Gone(gone)
<1> DEFINE idle == {k \in Resident : ~ent[pool[k]].busy /\ MayEvict(pool[k])}
<1>1. PICK gone \in SUBSET idle :
        /\ pool' = [k \in Keys |-> IF k \in gone THEN None ELSE pool[k]]
        /\ cleaned' = cleaned \cup ({ent[pool[k]].agent : k \in gone} \ {None})
  BY DEF JanitorRound
<1>2. gone \subseteq Keys /\ \A k \in gone : pool[k] # None /\ MayEvict(pool[k])
  BY DEF Resident
<1>3. UNCHANGED <<conf, promised, ent, held, exec, built>>
  BY DEF JanitorRound
<1>4. Gone(gone)
  BY <1>1, <1>2, <1>3 DEF Gone
<1> QED
  BY <1>2, <1>4

\* An entry loses its agent and nothing else, and only that entry does.
LosesAgent(e) ==
  /\ \A y \in Execs \ {e} : ent'[y] = ent[y]
  /\ e \in Execs => /\ ent'[e].key = ent[e].key /\ ent'[e].private = ent[e].private /\ ent'[e].lock = ent[e].lock
                    /\ ent'[e].ctx = ent[e].ctx /\ ent'[e].agent = None

LEMMA RunnerEvictsEffect ==
  ASSUME PoolTypeOK, NEW k \in Keys, RunnerEvicts(k)
  PROVE  /\ held[k] \in Execs /\ MayEvict(held[k]) /\ LosesAgent(held[k])
         /\ \A l \in Keys : held'[l] = IF l = k THEN None ELSE held[l]
         /\ \A a \in cleaned' : a \in cleaned \/ (a = ent[held[k]].agent /\ a # None)
         /\ UNCHANGED <<conf, promised, pool, exec, built>> /\ ~TurnRunning(k)
<1>1. held[k] \in Execs
  BY DEF PoolTypeOK, RunnerEvicts
<1>2. ent[held[k]] \in EntryRecord
  BY <1>1 DEF PoolTypeOK
<1> QED
  BY <1>1, <1>2 DEF RunnerEvicts, PoolTypeOK, LosesAgent, EntryRecord

LEMMA SwitchEffect ==
  ASSUME PoolTypeOK, NEW k \in Keys, SwitchConfig(k)
  PROVE  /\ \A l \in Keys : /\ conf'[l] = IF l = k THEN Latest + 1 ELSE conf[l]
                            /\ promised'[l] = IF l = k THEN Latest + 1 ELSE promised[l]
         /\ LosesAgent(pool[k])
         /\ UNCHANGED <<pool, held, exec, built, cleaned>>
<1>1. \A e \in Execs : ent[e] \in EntryRecord
  BY DEF PoolTypeOK
<1>2. LosesAgent(pool[k])
  BY <1>1, NoneOutside DEF SwitchConfig, RebuildOnNextMessage, PoolTypeOK, LosesAgent, EntryRecord
<1> QED
  BY <1>2 DEF SwitchConfig, PoolTypeOK
-----------------------------------------------------------------------------
(* One driver per agent, whatever races.                                     *)

LEMMA DriversInit == PoolInit => DriverInv
BY DEF PoolInit, DriverInv, HasEntry, EntriesAreNamed, Blank, Awaited, LockHeld, AgentsAreBuilt, AgentsApart,
       DriversApart, Driving, OneDriverPerAgent, Off, NoEntry, None, Execs

\* Facts that the cases below share.
LEMMA DriversStep ==
  PoolTypeOK /\ DriverInv /\ [PoolNext]_poolVars => DriverInv'
<1> SUFFICES ASSUME PoolTypeOK, DriverInv, [PoolNext]_poolVars PROVE DriverInv'
  OBVIOUS
<1>a. HasEntry /\ EntriesAreNamed /\ LockHeld /\ AgentsAreBuilt /\ AgentsApart /\ DriversApart /\ OneDriverPerAgent
  BY DEF DriverInv
<1>b. None \notin Execs
  BY NoneOutside
<1>c. \A e \in Execs : ent[e].key = "none" => Blank(e)
  BY <1>a DEF EntriesAreNamed
<1>d. /\ \A y \in Execs : ent[y].agent \in Execs \cup {None} /\ exec[y].agent \in Execs \cup {None}
      /\ \A y \in Execs : exec[y].at \notin {"off", "done"} => exec[y].ent \in Execs
      /\ cleaned \subseteq Execs
      /\ \A l \in Keys : pool[l] \in Execs \cup {None} /\ held[l] \in Execs \cup {None}
  BY <1>a, FieldTypes DEF HasEntry, PoolTypeOK
<1>1. ASSUME NEW x \in Execs, Enter(x), exec[x].at \in {"called", "queued", "retry"},
             UNCHANGED <<conf, promised, pool, held, built, cleaned>>
      PROVE  DriverInv'
  <2> DEFINE e == exec[x].ent
  <2>0. /\ e \in Execs /\ ent[e].lock = None
        /\ \A y \in Execs \ {e} : ent'[y] = ent[y]
        /\ ent'[e].lock = x /\ ent'[e].key = ent[e].key
        /\ ent'[e].agent = ent[e].agent
        /\ OthersSame(x) /\ SameExec(x) /\ exec'[x].agent = ent[e].agent
        /\ exec'[x].at = IF ent[e].agent = None THEN "create" ELSE "run"
    BY <1>1, <1>a, EnterEffect
  <2>k. ent[e].key # "none"
    BY <1>1, <1>a, <1>d DEF EntriesAreNamed, Awaited
  <2>l. \A y \in Execs \ {x} : exec[y].at \in {"create", "made", "run"} => exec[y].ent # e
    BY <2>0, <1>a, <1>b DEF LockHeld
  <2> HIDE DEF e
  <2>1. HasEntry'
    BY <1>1, <2>0, <1>a DEF HasEntry, OthersSame, SameExec
  <2>2. EntriesAreNamed'
    BY <1>1, <2>0, <2>k, <1>a, <1>d DEF EntriesAreNamed, Blank, Awaited, OthersSame, SameExec, e
  <2>3. LockHeld'
    BY <2>0, <2>l, <1>a, <1>d DEF LockHeld, OthersSame, SameExec, e
  <2>4. AgentsAreBuilt'
    BY <1>1, <2>0, <1>a, <1>d DEF AgentsAreBuilt, HasBuilt, BuiltAt, OthersSame
  <2>5. AgentsApart'
    BY <2>0, <1>a DEF AgentsApart
  <2>6. DriversApart'
    <3> SUFFICES ASSUME NEW y \in Driving'
                 PROVE  /\ exec'[y].agent # None
                        /\ \A f \in Execs : ent'[f].agent = exec'[y].agent => exec'[y].at = "run" /\ exec'[y].ent = f
      BY DEF DriversApart
    <3>1. CASE y = x
      BY <3>1, <2>0, <1>a DEF Driving, AgentsApart, SameExec, e
    <3>2. CASE y # x
      BY <3>2, <2>0, <1>a DEF Driving, DriversApart, OthersSame
    <3> QED
      BY <3>1, <3>2
  <2>7. OneDriverPerAgent'
    <3>1. \A y \in Driving' \ {x} : y \in Driving /\ exec'[y].agent = exec[y].agent
      BY <2>0 DEF Driving, OthersSame
    <3>2. x \in Driving' => \A y \in Driving \ {x} : exec[y].agent # ent[e].agent
      BY <2>0, <2>l, <1>a DEF Driving, DriversApart
    <3> QED
      BY <3>1, <3>2, <2>0, <1>a DEF OneDriverPerAgent, Driving
  <2> QED
    BY <2>1, <2>2, <2>3, <2>4, <2>5, <2>6, <2>7 DEF DriverInv
<1>2. ASSUME NEW x \in Execs, TurnRefused(x) \/ TaskGivesUp(x) \/ ExecutionCloses(x) \/ ZombieEnds(x)
      PROVE  DriverInv'
  <2>0. /\ \A e \in Execs : SameEntry(e)
        /\ OthersSame(x) /\ exec'[x] = Done
        /\ UNCHANGED <<conf, promised, pool, held, built, cleaned>>
    BY <1>2, EndEffect
  <2>n. exec[x].at \in {"called", "retry", "closing", "zombie"}
    BY <1>2 DEF TurnRefused, TaskGivesUp, ExecutionCloses, ZombieEnds
  <2>1. HasEntry' /\ LockHeld'
    BY <2>0, <1>a, <1>d DEF HasEntry, LockHeld, OthersSame, SameEntry, Done, Off
  <2>2. EntriesAreNamed'
    BY <2>0, <1>a, <1>d DEF EntriesAreNamed, Blank, Awaited, OthersSame, SameEntry, Done, Off
  <2>4. AgentsAreBuilt'
    BY <2>0, <2>n, <1>a, <1>d DEF AgentsAreBuilt, HasBuilt, BuiltAt, OthersSame, SameEntry, Done, Off
  <2>5. AgentsApart'
    BY <2>0, <1>a DEF AgentsApart, SameEntry
  <2>6. DriversApart' /\ OneDriverPerAgent'
    BY <2>0, <1>a DEF DriversApart, OneDriverPerAgent, Driving, OthersSame, SameEntry, Done, Off
  <2> QED
    BY <2>1, <2>2, <2>4, <2>5, <2>6 DEF DriverInv
<1>3. ASSUME NEW x \in Execs, TaskBacksOff(x)
      PROVE  DriverInv'
  <2>0. /\ \A e \in Execs : SameEntry(e)
        /\ OthersSame(x) /\ SameExec(x) /\ exec'[x].at = "retry" /\ exec'[x].agent = exec[x].agent
        /\ exec[x].at = "queued" /\ UNCHANGED <<pool, held, cleaned>>
    BY <1>3, BackOffEffect DEF TaskBacksOff
  <2>1. HasEntry' /\ LockHeld'
    BY <2>0, <1>a, <1>d DEF HasEntry, LockHeld, OthersSame, SameExec, SameEntry
  <2>2. EntriesAreNamed'
    <3>1. \A y \in Awaited' : y \in Awaited /\ exec'[y].ent = exec[y].ent /\ exec'[y].ent \in Execs
      BY <2>0, <1>a, FieldTypes DEF Awaited, OthersSame, SameExec, HasEntry
    <3> QED
      BY <2>0, <3>1, <1>a, <1>d DEF EntriesAreNamed, Blank, SameEntry
  <2>4. AgentsAreBuilt' /\ AgentsApart'
    BY <2>0, <1>a, <1>d DEF AgentsAreBuilt, AgentsApart, HasBuilt, BuiltAt, OthersSame, SameEntry
  <2>6. DriversApart' /\ OneDriverPerAgent'
    BY <2>0, <1>a DEF DriversApart, OneDriverPerAgent, Driving, OthersSame, SameEntry
  <2> QED
    BY <2>1, <2>2, <2>4, <2>6 DEF DriverInv
<1>4. ASSUME NEW x \in Execs, AgentCreated(x)
      PROVE  DriverInv'
  <2>0. /\ ent' = ent /\ OthersSame(x) /\ SameExec(x) /\ exec'[x].at = "made" /\ exec'[x].agent = exec[x].agent
        /\ exec[x].at = "create" /\ UNCHANGED <<pool, held, cleaned>>
    BY <1>4, CreatedEffect DEF AgentCreated
  <2>1. HasEntry' /\ LockHeld' /\ EntriesAreNamed'
    BY <2>0, <1>a, <1>d DEF HasEntry, LockHeld, EntriesAreNamed, Blank, Awaited, OthersSame, SameExec
  <2>4. AgentsAreBuilt' /\ AgentsApart'
    BY <2>0, <1>a, <1>d DEF AgentsAreBuilt, AgentsApart, HasBuilt, BuiltAt, OthersSame
  <2>6. DriversApart' /\ OneDriverPerAgent'
    BY <2>0, <1>a DEF DriversApart, OneDriverPerAgent, Driving, OthersSame
  <2> QED
    BY <2>1, <2>4, <2>6 DEF DriverInv
<1>5. ASSUME NEW x \in Execs, AgentInstalled(x)
      PROVE  DriverInv'
  <2> DEFINE e == exec[x].ent
  <2>0. /\ e \in Execs
        /\ \A y \in Execs \ {e} : ent'[y] = ent[y]
        /\ ent'[e].lock = ent[e].lock /\ ent'[e].key = ent[e].key /\ ent'[e].agent = x
        /\ OthersSame(x) /\ SameExec(x) /\ exec'[x].at = "run" /\ exec'[x].agent = x
        /\ exec[x].at = "made" /\ UNCHANGED <<pool, held, cleaned>>
    BY <1>5, <1>a, InstalledEffect DEF AgentInstalled
  <2>k. ent[e].key # "none"
    BY <2>0, <1>a, <1>d DEF EntriesAreNamed, Awaited
  <2>l. \A y \in Execs \ {x} : exec[y].at \in {"create", "made", "run"} => exec[y].ent # e
    BY <2>0, <1>a, <1>d DEF LockHeld
  <2>b. ~HasBuilt(x) /\ x # None
    BY <2>0, <1>b DEF HasBuilt, BuiltAt
  <2> HIDE DEF e
  <2>1. HasEntry' /\ LockHeld'
    BY <2>0, <2>l, <1>a, <1>d DEF HasEntry, LockHeld, OthersSame, SameExec, e
  <2>2. EntriesAreNamed'
    <3>1. \A y \in Awaited' : y \in Awaited /\ exec'[y].ent = exec[y].ent /\ exec'[y].ent \in Execs
      BY <2>0, <1>a, FieldTypes DEF Awaited, OthersSame, SameExec, HasEntry
    <3>2. \A f \in Execs : ent'[f].key = ent[f].key
      BY <2>0
    <3>3. \A f \in Execs : ent'[f].key = "none" => Blank(f)'
      BY <2>0, <2>k, <1>a DEF EntriesAreNamed, Blank
    <3> QED
      BY <2>0, <3>1, <3>2, <3>3, <1>a, <1>d DEF EntriesAreNamed
  <2>4. AgentsAreBuilt'
    BY <2>0, <1>a, <1>d DEF AgentsAreBuilt, HasBuilt, BuiltAt, OthersSame
  <2>5. AgentsApart'
    BY <2>0, <2>b, <1>a DEF AgentsApart, AgentsAreBuilt
  <2>6. DriversApart'
    <3> SUFFICES ASSUME NEW y \in Driving'
                 PROVE  /\ exec'[y].agent # None
                        /\ \A f \in Execs : ent'[f].agent = exec'[y].agent => exec'[y].at = "run" /\ exec'[y].ent = f
      BY DEF DriversApart
    <3>1. CASE y = x
      BY <3>1, <2>0, <2>b, <1>a DEF Driving, AgentsAreBuilt, SameExec, e
    <3>2. CASE y # x
      BY <3>2, <2>0, <2>b, <1>a DEF Driving, DriversApart, AgentsAreBuilt, OthersSame
    <3> QED
      BY <3>1, <3>2
  <2>7. OneDriverPerAgent'
    <3>1. \A y \in Driving' \ {x} : y \in Driving /\ exec'[y].agent = exec[y].agent
      BY <2>0 DEF Driving, OthersSame
    <3>2. \A y \in Driving \ {x} : exec[y].agent # x
      BY <2>b, <1>a DEF Driving, DriversApart, AgentsAreBuilt
    <3> QED
      BY <3>1, <3>2, <2>0, <1>a DEF OneDriverPerAgent, Driving
  <2> QED
    BY <2>1, <2>2, <2>4, <2>5, <2>6, <2>7 DEF DriverInv
<1>6. ASSUME NEW x \in Execs, RunReturns(x) \/ RunTimesOut(x)
      PROVE  DriverInv'
  <2> DEFINE e == exec[x].ent
  <2>0. /\ e \in Execs /\ exec[x].at = "run"
        /\ \A y \in Execs \ {e} : ent'[y] = ent[y]
        /\ ent'[e].lock = None /\ ent'[e].key = ent[e].key
        /\ OthersSame(x) /\ SameExec(x) /\ exec'[x].agent = exec[x].agent
        /\ \/ exec'[x].at = "closing" /\ ent'[e].agent = ent[e].agent
           \/ exec'[x].at = "zombie" /\ ent'[e].agent = None
        /\ UNCHANGED <<conf, promised, pool, held, built, cleaned>>
    BY <1>6, <1>a, LeavesEffect
  <2>k. ent[e].key # "none"
    BY <2>0, <1>a, <1>d DEF EntriesAreNamed, Awaited
  <2>l. \A y \in Execs \ {x} : exec[y].at \in {"create", "made", "run"} => exec[y].ent # e
    BY <2>0, <1>a, <1>d DEF LockHeld
  <2> HIDE DEF e
  <2>1. HasEntry' /\ LockHeld'
    BY <2>0, <2>l, <1>a, <1>d DEF HasEntry, LockHeld, OthersSame, SameExec, e
  <2>2. EntriesAreNamed'
    <3>1. \A y \in Awaited' : y \in Awaited /\ exec'[y].ent = exec[y].ent /\ exec'[y].ent \in Execs
      BY <2>0, <1>a, FieldTypes DEF Awaited, OthersSame, SameExec, HasEntry
    <3>2. \A f \in Execs : ent'[f].key = ent[f].key
      BY <2>0
    <3>3. \A f \in Execs : ent'[f].key = "none" => Blank(f)'
      BY <2>0, <2>k, <1>a DEF EntriesAreNamed, Blank
    <3> QED
      BY <2>0, <3>1, <3>2, <3>3, <1>a, <1>d DEF EntriesAreNamed
  <2>4. AgentsAreBuilt'
    BY <2>0, <1>a, <1>d DEF AgentsAreBuilt, HasBuilt, BuiltAt, OthersSame
  <2>5. AgentsApart'
    BY <2>0, <1>a DEF AgentsApart
  <2>6. DriversApart'
    <3> SUFFICES ASSUME NEW y \in Driving'
                 PROVE  /\ exec'[y].agent # None
                        /\ \A f \in Execs : ent'[f].agent = exec'[y].agent => exec'[y].at = "run" /\ exec'[y].ent = f
      BY DEF DriversApart
    <3>1. CASE y = x
      <4>1. exec'[x].at = "zombie" /\ ent'[e].agent = None
        BY <3>1, <2>0 DEF Driving
      <4>2. exec[x].agent # None /\ \A f \in Execs : ent[f].agent = exec[x].agent => f = e
        BY <2>0, <1>a DEF Driving, DriversApart, e
      <4> QED
        BY <3>1, <4>1, <4>2, <2>0
    <3>2. CASE y # x
      <4>1. y \in Driving /\ exec'[y] = exec[y]
        BY <3>2, <2>0 DEF Driving, OthersSame
      <4> QED
        BY <4>1, <2>0, <1>a DEF DriversApart
    <3> QED
      BY <3>1, <3>2
  <2>7. OneDriverPerAgent'
    BY <2>0, <1>a DEF OneDriverPerAgent, Driving, OthersSame
  <2> QED
    BY <2>1, <2>2, <2>4, <2>5, <2>6, <2>7 DEF DriverInv
<1>7. ASSUME NEW x \in Execs, NEW k \in Keys, NEW e \in Execs, Arrived(x, k, e)
      PROVE  DriverInv'
  <2>0. /\ exec[x].at = "off" /\ OthersSame(x)
        /\ exec'[x].at \in {"called", "queued"} /\ exec'[x].ent = e /\ exec'[x].agent = None
        /\ ent'[e].key # "none"
        /\ ent'[e].agent = ent[e].agent
        /\ \A y \in Execs : ent'[y].lock = ent[y].lock
        /\ \A y \in Execs \ {e} : /\ ent'[y].key = ent[y].key /\ ent'[y].private = ent[y].private
                                  /\ ent'[y].ctx = ent[y].ctx
        /\ \A y \in Execs : ent'[y].agent \in {ent[y].agent, None}
    BY <1>7, PoolAssumption DEF Arrived
  <2>1. HasEntry' /\ LockHeld'
    BY <2>0, <1>a, <1>b, FieldTypes DEF HasEntry, LockHeld, OthersSame
  <2>2. EntriesAreNamed'
    <3>1. \A y \in Awaited' : exec'[y].ent \in Execs /\ ent'[exec'[y].ent].key # "none"
      BY <2>0, <1>a, FieldTypes DEF Awaited, OthersSame, HasEntry, EntriesAreNamed
    <3>2. \A l \in Keys : /\ pool'[l] # None => ent'[pool'[l]].key # "none"
                          /\ held'[l] # None => ent'[held'[l]].key # "none"
      BY <1>7, <2>0, <1>a, <1>d DEF EntriesAreNamed, Arrived, PoolTypeOK
    <3>3. \A f \in Execs : ent'[f].key = "none" => ent'[f].agent = None
      BY <2>0, <1>a, <1>d DEF EntriesAreNamed, Blank
    <3>4. \A f \in Execs : ent'[f].key = "none" => Blank(f)'
      BY <2>0, <3>3, <1>a, <1>d DEF EntriesAreNamed, Blank
    <3> QED
      BY <3>1, <3>2, <3>4 DEF EntriesAreNamed
  <2>4. AgentsAreBuilt'
    <3>1. \A a \in Execs : HasBuilt(a) => exec'[a].at \in BuiltAt
      BY <2>0 DEF HasBuilt, BuiltAt, OthersSame
    <3>2. \A a \in cleaned' \ cleaned : \E f \in Execs : ent[f].agent = a /\ a # None
      BY <1>7 DEF Arrived
    <3>3. \A f \in Execs : ent'[f].agent # None => exec'[ent'[f].agent].at \in BuiltAt
      BY <2>0, <3>1, <1>a, <1>d DEF AgentsAreBuilt
    <3>4. \A y \in Execs : exec'[y].agent # None => exec'[exec'[y].agent].at \in BuiltAt
      BY <2>0, <3>1, <1>a, <1>d DEF AgentsAreBuilt, OthersSame
    <3>5. \A a \in cleaned' : exec'[a].at \in BuiltAt
      BY <3>1, <3>2, <1>a, <1>d DEF AgentsAreBuilt
    <3> QED
      BY <3>3, <3>4, <3>5 DEF AgentsAreBuilt, HasBuilt
  <2>5. AgentsApart'
    BY <2>0, <1>a DEF AgentsApart
  <2>6. DriversApart'
    BY <2>0, <1>a DEF DriversApart, Driving, OthersSame
  <2>7. OneDriverPerAgent'
    BY <2>0, <1>a DEF OneDriverPerAgent, Driving, OthersSame
  <2> QED
    BY <2>1, <2>2, <2>4, <2>5, <2>6, <2>7 DEF DriverInv
<1>8. ASSUME NEW gone \in SUBSET Keys, Gone(gone)
      PROVE  DriverInv'
  <2>0. UNCHANGED <<ent, held, exec>> /\ \A l \in Keys : pool'[l] \in {pool[l], None}
    BY <1>8 DEF Gone
  <2>1. \A a \in cleaned' : HasBuilt(a)
    <3>1. \A l \in gone : ent[pool[l]].agent # None => HasBuilt(ent[pool[l]].agent)
      BY <1>8, <1>a DEF Gone, PoolTypeOK, AgentsAreBuilt
    <3> QED
      BY <1>8, <1>a, <3>1 DEF Gone, AgentsAreBuilt
  <2> QED
    BY <2>0, <2>1, <1>a DEF DriverInv, HasEntry, EntriesAreNamed, Blank, Awaited, LockHeld, AgentsAreBuilt, HasBuilt,
       AgentsApart, DriversApart, Driving, OneDriverPerAgent
<1>9. ASSUME NEW e, LosesAgent(e), UNCHANGED exec,
             \A a \in cleaned' : a \in cleaned \/ (e \in Execs /\ a = ent[e].agent /\ a # None),
             \A l \in Keys : pool'[l] \in {pool[l], None} /\ held'[l] \in {held[l], None}
      PROVE  DriverInv'
  <2>1. \A y \in Execs : /\ ent'[y].key = ent[y].key /\ ent'[y].private = ent[y].private /\ ent'[y].lock = ent[y].lock
                         /\ ent'[y].ctx = ent[y].ctx /\ ent'[y].agent \in {ent[y].agent, None}
    BY <1>9 DEF LosesAgent
  <2>2. HasEntry' /\ LockHeld'
    BY <1>9, <2>1, <1>a, FieldTypes DEF HasEntry, LockHeld
  <2>3. EntriesAreNamed'
    <3>1. \A y \in Awaited' : exec'[y].ent \in Execs /\ ent'[exec'[y].ent].key # "none"
      BY <1>9, <2>1, <1>a, FieldTypes DEF Awaited, HasEntry, EntriesAreNamed
    <3> QED
      BY <1>9, <2>1, <3>1, <1>a, <1>d DEF EntriesAreNamed, Blank, PoolTypeOK
  <2>4. AgentsAreBuilt' /\ AgentsApart'
    BY <1>9, <2>1, <1>a, <1>d DEF AgentsAreBuilt, AgentsApart, HasBuilt, BuiltAt
  <2>5. DriversApart' /\ OneDriverPerAgent'
    BY <1>9, <2>1, <1>a DEF DriversApart, OneDriverPerAgent, Driving
  <2> QED
    BY <2>2, <2>3, <2>4, <2>5 DEF DriverInv
<1>10. CASE UNCHANGED <<ent, exec, pool, held, cleaned>>
  BY <1>10, <1>a DEF DriverInv, HasEntry, EntriesAreNamed, Blank, Awaited, LockHeld, AgentsAreBuilt, HasBuilt,
       AgentsApart, DriversApart, Driving, OneDriverPerAgent
<1>11. ASSUME NEW x \in Execs, NEW k \in Keys, TurnArrives(x, k) PROVE DriverInv'
  <2>1. Arrived(x, k, PooledEntry(k, x))
    BY <1>11, <1>c, TurnArrivesEffect
  <2> QED
    BY <2>1, <1>7 DEF Arrived
<1>12. ASSUME NEW x \in Execs, NEW k \in Keys, TurnArrivesFull(x, k) PROVE DriverInv'
  <2>1. Arrived(x, k, IF held[k] # None THEN held[k] ELSE x)
    BY <1>12, <1>c, FullEffect
  <2> QED
    BY <2>1, <1>7 DEF Arrived
<1>13. ASSUME NEW x \in Execs, NEW k \in Keys, TaskSubmitted(x, k) PROVE DriverInv'
  <2>1. Arrived(x, k, PooledEntry(k, x))
    BY <1>13, <1>c, SubmittedEffect
  <2> QED
    BY <2>1, <1>7 DEF Arrived
<1>14. ASSUME NEW k \in Keys, Evict(k) PROVE DriverInv'
  BY <1>14, <1>8, EvictEffect
<1>15. CASE JanitorRound
  BY <1>15, <1>8, JanitorEffect
<1>16. ASSUME NEW k \in Keys, RunnerEvicts(k) PROVE DriverInv'
  BY <1>16, <1>9, RunnerEvictsEffect
<1>17. ASSUME NEW k \in Keys, SwitchConfig(k) PROVE DriverInv'
  BY <1>17, <1>9, SwitchEffect
<1>18. ASSUME NEW x \in Execs, TurnEnters(x) PROVE DriverInv'
  BY <1>18, <1>1 DEF TurnEnters
<1>19. ASSUME NEW x \in Execs, TaskEnters(x) PROVE DriverInv'
  BY <1>19, <1>1 DEF TaskEnters
<1>20. ASSUME NEW k \in Keys, ApplyConfig(k) PROVE DriverInv'
  BY <1>20, <1>10 DEF ApplyConfig
<1>21. CASE UNCHANGED poolVars
  BY <1>21, <1>10 DEF poolVars
<1> QED
  BY <1>2, <1>3, <1>4, <1>5, <1>6, <1>11, <1>12, <1>13, <1>14, <1>15, <1>16, <1>17, <1>18, <1>19, <1>20, <1>21
  DEF PoolNext
-----------------------------------------------------------------------------
(* A session is served by one execution, on an entry of its own.             *)

KeysAreOwn ==
  /\ \A k \in Keys : /\ pool[k] # None => ent[pool[k]].key = k /\ ent[pool[k]].private = FALSE
                     /\ held[k] # None => ent[held[k]].key = k
  /\ \A x \in Execs : exec[x].at = "off" => ent[x].key = "none"
\* Turns are awaited on what the runner holds, tasks on what is in the pool.
AwaitedOnServed ==
  \A x \in Awaited :
    /\ exec[x].key \in Keys /\ ent[exec[x].ent].key = exec[x].key
    /\ \/ exec[x].kind = "task" /\ pool[exec[x].key] = exec[x].ent
       \/ exec[x].kind = "turn" /\ held[exec[x].key] = exec[x].ent
AwaitedShare ==
  \A x, y \in Awaited : exec[x].key = exec[y].key => exec[x].ent = exec[y].ent
RunDrives ==
  \A x \in Execs : exec[x].at = "run" => ent[exec[x].ent].agent = exec[x].agent
Kept ==
  /\ \A k \in Keys : pool[k] # None => ent[pool[k]].agent \notin cleaned
  /\ \A x \in Awaited : ent[exec[x].ent].agent \notin cleaned
\* The agents of a session were built after its last switch.
CurrentEntry(k, e) ==
  e # None /\ ent[e].agent # None => built[ent[e].agent] >= promised[k] /\ ent[e].ctx >= promised[k]
Current ==
  /\ \A k \in Keys : promised[k] <= conf[k] /\ CurrentEntry(k, pool[k]) /\ CurrentEntry(k, held[k])
  /\ \A x \in Awaited :
       /\ ent[exec[x].ent].ctx >= promised[exec[x].key]
       /\ exec[x].at = "made" => built[x] >= promised[exec[x].key]
       /\ exec[x].kind = "turn" => exec[x].due = promised[exec[x].key]
ServedInv == KeysAreOwn /\ AwaitedOnServed /\ AwaitedShare /\ RunDrives /\ Kept /\ Current

LEMMA ServedInit == PoolInit => ServedInv
BY DEF PoolInit, ServedInv, KeysAreOwn, AwaitedOnServed, AwaitedShare, RunDrives, Kept, Current, CurrentEntry, Awaited, Off,
       NoEntry, None, Execs

\* Where everybody keeps his entry, sessions keep theirs.
LEMMA PlacesKept ==
  ASSUME PoolTypeOK, ServedInv, UNCHANGED <<pool, held>>,
         \A e \in Execs : ent'[e].key = ent[e].key /\ ent'[e].private = ent[e].private,
         \A x \in Execs : exec'[x].at = "off" => exec[x].at = "off",
         \A x \in Awaited' : x \in Awaited /\ SameExec(x) /\ exec[x].ent \in Execs
  PROVE  KeysAreOwn' /\ AwaitedOnServed' /\ AwaitedShare'
<1>1. KeysAreOwn'
  BY DEF ServedInv, KeysAreOwn, PoolTypeOK
<1>2. AwaitedOnServed'
  BY DEF ServedInv, AwaitedOnServed, SameExec
<1>3. AwaitedShare'
  BY DEF ServedInv, AwaitedShare, SameExec
<1> QED
  BY <1>1, <1>2, <1>3

LEMMA ServedStep ==
  Races = {} /\ PoolTypeOK /\ DriverInv /\ ServedInv /\ [PoolNext]_poolVars => ServedInv'
<1> SUFFICES ASSUME Races = {}, PoolTypeOK, DriverInv, ServedInv, [PoolNext]_poolVars PROVE ServedInv'
  OBVIOUS
<1>a. /\ HasEntry /\ EntriesAreNamed /\ LockHeld /\ AgentsAreBuilt /\ AgentsApart
      /\ KeysAreOwn /\ AwaitedOnServed /\ AwaitedShare /\ RunDrives /\ Kept /\ Current
  BY DEF DriverInv, ServedInv
<1>b. None \notin Execs /\ "none" \notin Keys
  BY NoneOutside, PoolAssumption
<1>c. \A e \in Execs : ent[e].key = "none" => Blank(e)
  BY <1>a DEF EntriesAreNamed
<1>d. /\ \A y \in Execs : ent[y].agent \in Execs \cup {None} /\ exec[y].agent \in Execs \cup {None}
      /\ \A y \in Execs : exec[y].at \notin {"off", "done"} => exec[y].ent \in Execs
      /\ cleaned \subseteq Execs /\ None \notin cleaned
      /\ \A l \in Keys : pool[l] \in Execs \cup {None} /\ held[l] \in Execs \cup {None}
  BY <1>a, <1>b, FieldTypes DEF HasEntry, PoolTypeOK
<1>1. ASSUME NEW x \in Execs, Enter(x), exec[x].at \in {"called", "queued", "retry"},
             UNCHANGED <<conf, promised, pool, held, built, cleaned>>
      PROVE  ServedInv'
  <2>0. /\ \A y \in Execs : /\ ent'[y].key = ent[y].key /\ ent'[y].private = ent[y].private
                            /\ ent'[y].agent = ent[y].agent /\ ent'[y].ctx = ent[y].ctx
        /\ OthersSame(x) /\ SameExec(x) /\ exec'[x].agent = ent[exec[x].ent].agent
        /\ exec'[x].at \in {"create", "run"}
    BY <1>1, <1>a, EnterEffect
  <2>1. \A y \in Awaited' : y \in Awaited /\ SameExec(y) /\ exec[y].ent \in Execs
    BY <1>1, <2>0, <1>d DEF Awaited, OthersSame, SameExec
  <2>2. KeysAreOwn' /\ AwaitedOnServed' /\ AwaitedShare'
    BY <1>1, <2>0, <2>1, PlacesKept DEF OthersSame
  <2>3. RunDrives'
    BY <1>1, <2>0, <1>a, <1>d DEF RunDrives, OthersSame, SameExec
  <2>4. Kept'
    BY <1>1, <2>0, <2>1, <1>a, <1>d DEF Kept, SameExec
  <2>5. Current'
    <3>1. \A y \in Awaited' : exec'[y].at = "made" => exec[y].at = "made"
      BY <1>1, <2>0 DEF Awaited, OthersSame
    <3> QED
      BY <1>1, <2>0, <2>1, <3>1, <1>a, <1>d DEF Current, CurrentEntry, SameExec
  <2> QED
    BY <2>2, <2>3, <2>4, <2>5 DEF ServedInv
<1>2. ASSUME NEW x \in Execs, OthersSame(x), exec'[x].at \in {"done", "zombie", "closing", "retry"},
             exec[x].at # "off", exec'[x].at \in {"closing", "retry"} => SameExec(x) /\ x \in Awaited,
             \A y \in Execs : /\ ent'[y].key = ent[y].key /\ ent'[y].private = ent[y].private
                              /\ ent'[y].ctx = ent[y].ctx
                              /\ \/ ent'[y].agent = ent[y].agent
                                 \/ /\ ent'[y].agent = None
                                    /\ \A z \in Execs \ {x} : exec[z].at = "run" => exec[z].ent # y,
             UNCHANGED <<conf, promised, pool, held, built, cleaned>>
      PROVE  ServedInv'
  <2>1. \A y \in Awaited' : y \in Awaited /\ SameExec(y) /\ exec[y].ent \in Execs
    BY <1>2, <1>d DEF Awaited, OthersSame, SameExec
  <2>2. KeysAreOwn' /\ AwaitedOnServed' /\ AwaitedShare'
    BY <1>2, <2>1, PlacesKept DEF OthersSame
  <2>3. RunDrives'
    BY <1>2, <1>a, <1>d DEF RunDrives, OthersSame
  <2>4. Kept'
    BY <1>2, <2>1, <1>a, <1>d DEF Kept, SameExec
  <2>5. Current'
    <3>1. \A y \in Awaited' : exec'[y].at = "made" => exec[y].at = "made"
      BY <1>2 DEF Awaited, OthersSame
    <3> QED
      BY <1>2, <2>1, <3>1, <1>a, <1>d DEF Current, CurrentEntry, SameExec
  <2> QED
    BY <2>2, <2>3, <2>4, <2>5 DEF ServedInv
<1>3. ASSUME NEW x \in Execs, TurnRefused(x) \/ TaskGivesUp(x) \/ ExecutionCloses(x) \/ ZombieEnds(x)
      PROVE  ServedInv'
  <2>1. /\ \A e \in Execs : SameEntry(e)
        /\ OthersSame(x) /\ exec'[x].at = "done"
        /\ UNCHANGED <<conf, promised, pool, held, built, cleaned>>
    BY <1>3, EndEffect DEF Done, Off
  <2>2. exec[x].at # "off"
    BY <1>3 DEF TurnRefused, TaskGivesUp, ExecutionCloses, ZombieEnds
  <2> QED
    BY <2>1, <2>2, <1>2 DEF SameEntry
<1>4. ASSUME NEW x \in Execs, TaskBacksOff(x)
      PROVE  ServedInv'
  <2>1. /\ \A e \in Execs : SameEntry(e)
        /\ OthersSame(x) /\ SameExec(x) /\ exec'[x].at = "retry" /\ x \in Awaited /\ exec[x].at # "off"
        /\ UNCHANGED <<conf, promised, pool, held, built, cleaned>>
    BY <1>4, BackOffEffect DEF TaskBacksOff, Awaited
  <2> QED
    BY <2>1, <1>2 DEF SameEntry
<1>5. ASSUME NEW x \in Execs, RunReturns(x) \/ RunTimesOut(x)
      PROVE  ServedInv'
  <2>1. /\ exec[x].ent \in Execs /\ exec[x].at = "run"
        /\ \A y \in Execs \ {exec[x].ent} : ent'[y] = ent[y]
        /\ ent'[exec[x].ent].key = ent[exec[x].ent].key
        /\ ent'[exec[x].ent].private = ent[exec[x].ent].private /\ ent'[exec[x].ent].ctx = ent[exec[x].ent].ctx
        /\ OthersSame(x) /\ SameExec(x)
        /\ \/ exec'[x].at = "closing" /\ ent'[exec[x].ent].agent = ent[exec[x].ent].agent
           \/ exec'[x].at = "zombie" /\ ent'[exec[x].ent].agent = None
        /\ UNCHANGED <<conf, promised, pool, held, built, cleaned>>
    BY <1>5, <1>a, LeavesEffect
  <2>2. \A z \in Execs \ {x} : exec[z].at = "run" => exec[z].ent # exec[x].ent
    BY <2>1, <1>a, <1>d DEF LockHeld
  <2>3. x \in Awaited
    BY <2>1 DEF Awaited
  <2>4. \A y \in Execs : /\ ent'[y].key = ent[y].key /\ ent'[y].private = ent[y].private /\ ent'[y].ctx = ent[y].ctx
                         /\ \/ ent'[y].agent = ent[y].agent
                            \/ /\ ent'[y].agent = None
                               /\ \A z \in Execs \ {x} : exec[z].at = "run" => exec[z].ent # y
    BY <2>1, <2>2
  <2> QED
    BY <2>1, <2>3, <2>4, <1>2
<1>6. ASSUME NEW x \in Execs, AgentCreated(x)
      PROVE  ServedInv'
  <2>0. /\ ent' = ent /\ OthersSame(x) /\ SameExec(x) /\ exec'[x].at = "made" /\ exec'[x].agent = exec[x].agent
        /\ exec[x].at = "create" /\ UNCHANGED <<conf, promised, pool, held, cleaned>>
        /\ \A y \in Execs \ {x} : built'[y] = built[y]
        /\ built'[x] = ent[exec[x].ent].ctx
    BY <1>6, CreatedEffect DEF AgentCreated
  <2>1. \A y \in Awaited' : y \in Awaited /\ SameExec(y) /\ exec[y].ent \in Execs
    BY <2>0, <1>d DEF Awaited, OthersSame, SameExec
  <2>2. KeysAreOwn' /\ AwaitedOnServed' /\ AwaitedShare'
    BY <2>0, <2>1, PlacesKept DEF OthersSame
  <2>3. RunDrives' /\ Kept'
    BY <2>0, <2>1, <1>a, <1>d DEF RunDrives, Kept, OthersSame, SameExec
  <2>4. \A e \in Execs : ent[e].agent # x
    BY <2>0, <1>a, <1>b DEF AgentsAreBuilt, HasBuilt, BuiltAt
  <2>5. \A l \in Keys : promised'[l] <= conf'[l] /\ CurrentEntry(l, pool[l])' /\ CurrentEntry(l, held[l])'
    BY <2>0, <2>4, <1>a, <1>d DEF Current, CurrentEntry
  <2>6. built'[x] >= promised[exec[x].key]
    BY <2>0, <1>a DEF Current, Awaited
  <2>7. ASSUME NEW y \in Awaited'
        PROVE  /\ ent'[exec'[y].ent].ctx >= promised'[exec'[y].key]
               /\ exec'[y].at = "made" => built'[y] >= promised'[exec'[y].key]
               /\ exec'[y].kind = "turn" => exec'[y].due = promised'[exec'[y].key]
    <3>1. CASE y = x
      BY <3>1, <2>0, <2>1, <2>6, <1>a DEF Current, SameExec
    <3>2. CASE y # x
      <4>1. y \in Awaited /\ exec'[y] = exec[y]
        BY <3>2, <2>0, <2>1 DEF OthersSame, Awaited
      <4> QED
        BY <3>2, <4>1, <2>0, <1>a DEF Current, Awaited
    <3> QED
      BY <3>1, <3>2
  <2> QED
    BY <2>2, <2>3, <2>5, <2>7 DEF ServedInv, Current
<1>7. ASSUME NEW x \in Execs, AgentInstalled(x)
      PROVE  ServedInv'
  <2> DEFINE e == exec[x].ent
  <2>0. /\ e \in Execs
        /\ \A y \in Execs \ {e} : ent'[y] = ent[y]
        /\ ent'[e].lock = ent[e].lock /\ ent'[e].key = ent[e].key /\ ent'[e].private = ent[e].private
        /\ ent'[e].agent = x /\ ent'[e].ctx = ent[e].ctx
        /\ OthersSame(x) /\ SameExec(x) /\ exec'[x].at = "run" /\ exec'[x].agent = x
        /\ exec[x].at = "made" /\ UNCHANGED <<conf, promised, pool, held, built, cleaned>>
    BY <1>7, <1>a, InstalledEffect DEF AgentInstalled
  <2>l. \A y \in Execs \ {x} : exec[y].at = "run" => exec[y].ent # e
    BY <2>0, <1>a, <1>d DEF LockHeld
  <2>w. x \in Awaited /\ ent[e].key = exec[x].key /\ x \notin cleaned
        /\ built[x] >= promised[exec[x].key] /\ ent[e].ctx >= promised[exec[x].key]
    BY <2>0, <1>a DEF Awaited, AwaitedOnServed, AgentsAreBuilt, HasBuilt, BuiltAt, Current
  <2>1. \A y \in Awaited' : y \in Awaited /\ SameExec(y) /\ exec[y].ent \in Execs
    BY <2>0, <1>d DEF Awaited, OthersSame, SameExec
  <2> HIDE DEF e
  <2>2. KeysAreOwn' /\ AwaitedOnServed' /\ AwaitedShare'
    BY <2>0, <2>1, PlacesKept DEF OthersSame
  <2>3. RunDrives'
    BY <2>0, <2>l, <1>a, <1>d DEF RunDrives, OthersSame, SameExec, e
  <2>4. Kept'
    BY <2>0, <2>w, <2>1, <1>a, <1>d DEF Kept, SameExec
  <2>5. \A l \in Keys : promised'[l] <= conf'[l] /\ CurrentEntry(l, pool[l])' /\ CurrentEntry(l, held[l])'
    BY <2>0, <2>w, <1>a, <1>d DEF Current, CurrentEntry, KeysAreOwn
  <2>6. ASSUME NEW y \in Awaited'
        PROVE  /\ ent'[exec'[y].ent].ctx >= promised'[exec'[y].key]
               /\ exec'[y].at = "made" => built'[y] >= promised'[exec'[y].key]
               /\ exec'[y].kind = "turn" => exec'[y].due = promised'[exec'[y].key]
    <3>1. \A f \in Execs : ent'[f].ctx = ent[f].ctx
      BY <2>0
    <3>2. exec'[y].at = "made" => exec[y].at = "made"
      BY <2>0, <2>1 DEF OthersSame, Awaited
    <3> QED
      BY <2>0, <2>1, <3>1, <3>2, <1>a DEF Current, SameExec
  <2> QED
    BY <2>2, <2>3, <2>4, <2>5, <2>6 DEF ServedInv, Current
<1>8. ASSUME NEW x \in Execs, NEW k \in Keys, NEW e \in Execs, Arrived(x, k, e), pool[k] # None => e = pool[k],
             \/ exec'[x].at = "called" /\ held'[k] = e /\ ~TurnRunning(k)
             \/ /\ exec'[x].at = "queued" /\ pool'[k] = e /\ held'[k] = held[k]
                /\ \A y \in Execs : ent[y].key = k /\ y # e => InFlight(y) = {},
             pool'[k] = e => ent'[e].private = FALSE,
             ent[e].agent \notin cleaned, ent'[e].ctx >= promised[k]
      PROVE  ServedInv'
  <2>a. /\ exec[x].at = "off" /\ x \notin Awaited /\ OthersSame(x)
        /\ exec'[x].at \in {"called", "queued"} /\ exec'[x].key = k /\ exec'[x].ent = e /\ exec'[x].agent = None
        /\ exec'[x].kind = (IF exec'[x].at = "called" THEN "turn" ELSE "task") /\ exec'[x].due = promised[k]
        /\ UNCHANGED <<conf, promised, built>>
    BY <1>8 DEF Arrived, Awaited
  <2>b. /\ ent[e].key \in {k, "none"} /\ ent'[e].key = k
        /\ \A f \in Execs \ {e} : ent'[f].key = ent[f].key /\ ent'[f].private = ent[f].private /\ ent'[f].ctx = ent[f].ctx
        /\ ent'[e].agent = ent[e].agent
    <3>1. e \in {pool[k], held[k], x}
      BY <1>8 DEF Arrived
    <3>2. e = x => ent[e].key = "none"
      BY <1>a, <2>a DEF KeysAreOwn
    <3>3. e = pool[k] \/ e = held[k] => ent[e].key = k
      BY <1>a, <1>b DEF KeysAreOwn
    <3>4. ent[e].key \in {k, "none"}
      BY <3>1, <3>2, <3>3
    <3> QED
      BY <1>8, <3>4 DEF Arrived
  <2>c. ASSUME NEW y \in Awaited
        PROVE  exec[y].key = k <=> exec[y].ent = e
    <3>1. exec[y].key = k => exec[y].ent = e
      <4> HAVE exec[y].key = k
      <4>1. y \in InFlight(exec[y].ent) /\ ent[exec[y].ent].key = k /\ exec[y].ent \in Execs
        BY <1>a, <1>d DEF InFlight, Awaited, AwaitedOnServed
      <4>2. exec[y].kind = "turn" => TurnRunning(k)
        BY DEF TurnRunning, Awaited
      <4>3. exec[y].kind = "task" => pool[k] # None /\ pool[k] = exec[y].ent
        BY <4>1, <1>a, <1>b DEF AwaitedOnServed
      <4>4. exec[y].kind \in {"task", "turn"}
        BY <1>a DEF AwaitedOnServed
      <4> QED
        BY <4>1, <4>2, <4>3, <4>4, <1>8
    <3>2. exec[y].ent = e => exec[y].key = k
      BY <2>b, <1>a, <1>b DEF AwaitedOnServed, EntriesAreNamed
    <3> QED
      BY <3>1, <3>2
  <2>d. \A y \in Awaited' : y = x \/ (y \in Awaited /\ exec'[y] = exec[y] /\ y # x)
    BY <2>a DEF Awaited, OthersSame
  <2>e. \A y \in Awaited : /\ exec[y].ent \in Execs /\ exec[y].key \in Keys /\ y # x
                           /\ ent'[exec[y].ent].agent = ent[exec[y].ent].agent
    <3> SUFFICES ASSUME NEW y \in Awaited
                 PROVE  /\ exec[y].ent \in Execs /\ exec[y].key \in Keys /\ y # x
                        /\ ent'[exec[y].ent].agent = ent[exec[y].ent].agent
      OBVIOUS
    <3>1. exec[y].ent \in Execs /\ exec[y].key \in Keys /\ y # x /\ ent[exec[y].ent].key = exec[y].key
      BY <1>a, <1>d, <2>a DEF AwaitedOnServed, Awaited
    <3>2. CASE exec[y].ent = e
      BY <3>1, <3>2, <2>b
    <3>3. CASE exec[y].ent # e
      <4>1. held[k] # exec[y].ent
        BY <3>1, <3>3, <2>c, <1>a, <1>b DEF KeysAreOwn
      <4> QED
        BY <3>1, <3>3, <4>1, <1>8 DEF Arrived
    <3> QED
      BY <3>2, <3>3
  <2>f. ASSUME NEW f \in Execs, ent[f].agent \notin cleaned
        PROVE  ent'[f].agent \notin cleaned'
    <3> SUFFICES ASSUME ent'[f].agent \in cleaned' PROVE FALSE
      OBVIOUS
    <3>1. ent'[f].agent \in {ent[f].agent, None}
      BY <1>8, <2>b DEF Arrived
    <3>2. ent'[f].agent \in cleaned' \ cleaned
      BY <3>1, <2>f, <1>d
    <3>3. /\ ent'[f].agent # None /\ held[k] \in Execs /\ ent[held[k]].agent = ent'[f].agent /\ ent'[held[k]].agent = None
      BY <3>2, <1>8 DEF Arrived
    <3> QED
      BY <3>1, <3>3, <1>a DEF AgentsApart
  <2>g. \A l \in Keys : /\ pool'[l] \in {pool[l], e} /\ held'[l] \in {held[l], e}
                        /\ l # k => pool'[l] = pool[l] /\ held'[l] = held[l]
    BY <1>8 DEF Arrived
  <2>h. \A l \in Keys : l # k => pool[l] # e /\ held[l] # e
    BY <2>b, <1>a, <1>b DEF KeysAreOwn
  <2>1. KeysAreOwn'
    <3>1. ASSUME NEW l \in Keys
          PROVE  /\ pool'[l] # None => ent'[pool'[l]].key = l /\ ent'[pool'[l]].private = FALSE
                 /\ held'[l] # None => ent'[held'[l]].key = l
      BY <1>8, <2>b, <2>g, <2>h, <1>a, <1>d DEF KeysAreOwn
    <3>2. ASSUME NEW y \in Execs, exec'[y].at = "off" PROVE ent'[y].key = "none"
      <4>1. y # x /\ exec[y].at = "off" /\ ent[y].key = "none"
        BY <3>2, <2>a, <1>a DEF OthersSame, KeysAreOwn
      <4>2. y # e
        BY <4>1, <1>8, <1>a, <1>b, <1>d DEF Arrived, KeysAreOwn
      <4> QED
        BY <4>1, <4>2, <2>b
    <3> QED
      BY <3>1, <3>2 DEF KeysAreOwn
  <2>2. AwaitedOnServed'
    <3> SUFFICES ASSUME NEW y \in Awaited'
                 PROVE  /\ exec'[y].key \in Keys /\ ent'[exec'[y].ent].key = exec'[y].key
                        /\ \/ exec'[y].kind = "task" /\ pool'[exec'[y].key] = exec'[y].ent
                           \/ exec'[y].kind = "turn" /\ held'[exec'[y].key] = exec'[y].ent
      BY DEF AwaitedOnServed
    <3>1. CASE y = x
      BY <3>1, <2>a, <2>b, <1>8
    <3>2. CASE y # x
      <4>1. y \in Awaited /\ exec'[y] = exec[y] /\ exec[y].ent \in Execs /\ exec[y].key \in Keys
        BY <3>2, <2>d, <2>e
      <4>2. CASE exec[y].key # k
        BY <4>1, <4>2, <2>b, <2>c, <2>g, <1>a DEF AwaitedOnServed
      <4>3. CASE exec[y].key = k
        <5>1. exec[y].ent = e
          BY <4>1, <4>3, <2>c
        <5>2. (exec[y].kind = "task" /\ pool[k] = e) \/ (exec[y].kind = "turn" /\ held[k] = e)
          BY <4>1, <4>3, <5>1, <1>a DEF AwaitedOnServed
        <5> QED
          BY <4>1, <4>3, <5>1, <5>2, <2>b, <2>g
      <4> QED
        BY <4>2, <4>3
    <3> QED
      BY <3>1, <3>2
  <2>3. AwaitedShare'
    <3> SUFFICES ASSUME NEW y \in Awaited', NEW z \in Awaited', exec'[y].key = exec'[z].key
                 PROVE  exec'[y].ent = exec'[z].ent
      BY DEF AwaitedShare
    <3> QED
      BY <2>a, <2>c, <2>d, <1>a DEF AwaitedShare
  <2>4. RunDrives'
    BY <2>a, <2>d, <2>e, <1>a DEF RunDrives, Awaited, OthersSame
  <2>5. Kept'
    <3>1. \A l \in Keys : pool'[l] # None => ent'[pool'[l]].agent \notin cleaned'
      BY <1>8, <2>f, <2>g, <1>a, <1>d DEF Kept
    <3>2. \A y \in Awaited' : ent'[exec'[y].ent].agent \notin cleaned'
      BY <1>8, <2>a, <2>d, <2>e, <2>f, <1>a DEF Kept
    <3> QED
      BY <3>1, <3>2 DEF Kept
  <2>6. Current'
    <3>1. ASSUME NEW l \in Keys, NEW f, f \in {pool'[l], held'[l]} PROVE CurrentEntry(l, f)'
      <4> SUFFICES ASSUME f # None, ent'[f].agent # None
                   PROVE  built'[ent'[f].agent] >= promised'[l] /\ ent'[f].ctx >= promised'[l]
        BY DEF CurrentEntry
      <4>1. CASE f = e
        <5>1. l = k
          BY <3>1, <4>1, <2>g, <2>h
        <5>2. ent[e].agent # None /\ e \in {pool[k], held[k]}
          BY <4>1, <1>8, <2>a, <2>b, <1>a, <1>c DEF Arrived, KeysAreOwn, Blank
        <5> QED
          BY <4>1, <5>1, <5>2, <1>8, <2>a, <2>b, <1>a, <1>b DEF Current, CurrentEntry
      <4>2. CASE f # e
        <5>1. f \in {pool[l], held[l]} /\ f \in Execs
          BY <3>1, <4>2, <2>g, <1>d
        <5>2. ent'[f].agent = ent[f].agent
          BY <4>2, <5>1, <1>8 DEF Arrived
        <5> QED
          BY <4>2, <5>1, <5>2, <2>a, <2>b, <1>a DEF Current, CurrentEntry
      <4> QED
        BY <4>1, <4>2
    <3>2. ASSUME NEW y \in Awaited'
          PROVE  /\ ent'[exec'[y].ent].ctx >= promised'[exec'[y].key]
                 /\ exec'[y].at = "made" => built'[y] >= promised'[exec'[y].key]
                 /\ exec'[y].kind = "turn" => exec'[y].due = promised'[exec'[y].key]
      <4>1. CASE y = x
        BY <4>1, <2>a, <1>8
      <4>2. CASE y # x
        <5>1. y \in Awaited /\ exec'[y] = exec[y] /\ exec[y].ent \in Execs
          BY <4>2, <2>d, <2>e
        <5>2. ent'[exec[y].ent].ctx >= promised[exec[y].key]
          BY <5>1, <2>b, <2>c, <1>8, <1>a DEF Current
        <5> QED
          BY <5>1, <5>2, <2>a, <1>a DEF Current
      <4> QED
        BY <4>1, <4>2
    <3> QED
      BY <3>1, <3>2, <2>a, <1>a DEF Current
  <2> QED
    BY <2>1, <2>2, <2>3, <2>4, <2>5, <2>6 DEF ServedInv
<1>9. ASSUME NEW x \in Execs, NEW k \in Keys, TurnArrives(x, k) PROVE ServedInv'
  <2> DEFINE e == PooledEntry(k, x)
  <2>1. /\ Arrived(x, k, e) /\ exec'[x].at = "called"
        /\ pool'[k] = e /\ held'[k] = e /\ e = (IF pool[k] = None THEN x ELSE pool[k])
        /\ ent'[e].ctx = conf[k] /\ ~TurnRunning(k) /\ ent'[e].private = ent[e].private
    BY <1>9, <1>c, TurnArrivesEffect
  <2> HIDE DEF e
  <2>2. e \in Execs /\ exec[x].at = "off"
    BY <2>1 DEF Arrived
  <2>3. ent[e].private = FALSE /\ ent[e].agent \notin cleaned
    BY <2>1, <2>2, <1>a, <1>c, <1>d DEF KeysAreOwn, Kept, Blank
  <2>4. conf[k] >= promised[k]
    BY <1>a DEF Current, PoolTypeOK
  <2> QED
    BY <2>1, <2>2, <2>3, <2>4, <1>8
<1>10. ASSUME NEW x \in Execs, NEW k \in Keys, TurnArrivesFull(x, k) PROVE ServedInv'
  <2> DEFINE e == IF held[k] # None THEN held[k] ELSE x
  <2>1. /\ Arrived(x, k, e) /\ exec'[x].at = "called"
        /\ pool' = pool /\ pool[k] = None /\ held'[k] = e
        /\ ent'[e].ctx = conf[k] /\ ~TurnRunning(k) /\ ("full" \in Races \/ ent[e].agent \notin cleaned)
    BY <1>10, <1>c, FullEffect
  <2> HIDE DEF e
  <2>2. e \in Execs /\ pool'[k] # e
    BY <2>1, <1>b DEF Arrived
  <2>3. conf[k] >= promised[k]
    BY <1>a DEF Current, PoolTypeOK
  <2> QED
    BY <2>1, <2>2, <2>3, <1>8
<1>11. ASSUME NEW x \in Execs, NEW k \in Keys, TaskSubmitted(x, k) PROVE ServedInv'
  <2> DEFINE e == PooledEntry(k, x)
  <2>1. /\ Arrived(x, k, e) /\ exec'[x].at = "queued"
        /\ pool'[k] = e /\ held' = held /\ e = (IF pool[k] = None THEN x ELSE pool[k])
        /\ ent'[e].ctx = (IF ent[e].ctx = NoConf THEN conf[k] ELSE ent[e].ctx)
        /\ ent'[e].private = ent[e].private
        /\ \A y \in Execs : ent[y].key = k /\ y # e => InFlight(y) = {}
        /\ ent[e].agent # None \/ ent[e].ctx >= promised[k]
    BY <1>11, <1>c, SubmittedEffect
  <2> HIDE DEF e
  <2>2. e \in Execs /\ exec[x].at = "off"
    BY <2>1 DEF Arrived
  <2>3. ent[e].private = FALSE /\ ent[e].agent \notin cleaned
    BY <2>1, <2>2, <1>a, <1>c, <1>d DEF KeysAreOwn, Kept, Blank
  <2>4. conf[k] >= promised[k]
    BY <1>a DEF Current, PoolTypeOK
  <2>5. ent[e].agent # None => ent[e].ctx >= promised[k]
    BY <2>1, <2>2, <1>a, <1>b, <1>c DEF KeysAreOwn, Blank, Current, CurrentEntry
  <2>6. ent'[e].ctx >= promised[k]
    BY <2>1, <2>4, <2>5
  <2> QED
    BY <2>1, <2>2, <2>3, <2>6, <1>8
<1>12. ASSUME NEW gone \in SUBSET Keys, Gone(gone) PROVE ServedInv'
  <2>1. /\ UNCHANGED <<conf, promised, ent, held, exec, built>>
        /\ \A l \in Keys : pool'[l] = IF l \in gone THEN None ELSE pool[l]
        /\ \A l \in gone : pool[l] \in Execs /\ InFlight(pool[l]) = {} /\ ent[pool[l]].key = l
    BY <1>12, <1>a, <1>d DEF Gone, MayEvict, KeysAreOwn
  <2>2. \A y \in Awaited, l \in gone : exec[y].ent # pool[l]
    BY <2>1 DEF Awaited, InFlight
  <2>3. KeysAreOwn' /\ AwaitedShare' /\ RunDrives'
    BY <2>1, <1>a DEF KeysAreOwn, AwaitedShare, Awaited, RunDrives
  <2>4. AwaitedOnServed'
    BY <2>1, <2>2, <1>a DEF AwaitedOnServed, Awaited
  <2>5. \A l \in gone, f \in Execs : f # pool[l] /\ ent[pool[l]].agent # None => ent[f].agent # ent[pool[l]].agent
    BY <2>1, <1>a DEF AgentsApart
  <2>6. Kept'
    <3>1. \A l \in Keys : pool'[l] # None => ent'[pool'[l]].agent \notin cleaned'
      <4> SUFFICES ASSUME NEW l \in Keys, l \notin gone, pool[l] # None, ent[pool[l]].agent \in cleaned'
                   PROVE  FALSE
        BY <2>1
      <4>1. PICK g \in gone : ent[pool[l]].agent = ent[pool[g]].agent /\ ent[pool[g]].agent # None
        BY <1>12, <1>a DEF Gone, Kept
      <4>2. pool[l] # pool[g] /\ pool[l] \in Execs
        BY <2>1, <1>a, <1>d DEF KeysAreOwn
      <4> QED
        BY <4>1, <4>2, <2>5
    <3>2. \A y \in Awaited' : ent'[exec'[y].ent].agent \notin cleaned'
      <4> SUFFICES ASSUME NEW y \in Awaited, ent[exec[y].ent].agent \in cleaned'
                   PROVE  FALSE
        BY <2>1 DEF Awaited
      <4>1. PICK g \in gone : ent[exec[y].ent].agent = ent[pool[g]].agent /\ ent[pool[g]].agent # None
        BY <1>12, <1>a DEF Gone, Kept
      <4>2. exec[y].ent # pool[g] /\ exec[y].ent \in Execs
        BY <2>2, <1>d DEF Awaited
      <4> QED
        BY <4>1, <4>2, <2>5
    <3> QED
      BY <3>1, <3>2 DEF Kept
  <2>7. Current'
    BY <2>1, <1>a DEF Current, CurrentEntry, Awaited
  <2> QED
    BY <2>3, <2>4, <2>6, <2>7 DEF ServedInv
<1>13. ASSUME NEW k \in Keys, RunnerEvicts(k) PROVE ServedInv'
  <2> DEFINE h == held[k]
  <2>1. /\ h \in Execs /\ InFlight(h) = {} /\ LosesAgent(h)
        /\ \A l \in Keys : held'[l] = IF l = k THEN None ELSE held[l]
        /\ \A a \in cleaned' : a \in cleaned \/ (a = ent[h].agent /\ a # None)
        /\ UNCHANGED <<conf, promised, pool, exec, built>> /\ ~TurnRunning(k)
    BY <1>13, RunnerEvictsEffect DEF MayEvict
  <2>2. /\ \A y \in Execs : /\ ent'[y].key = ent[y].key /\ ent'[y].private = ent[y].private /\ ent'[y].ctx = ent[y].ctx
                            /\ y # h => ent'[y].agent = ent[y].agent
        /\ ent'[h].agent = None
    BY <2>1 DEF LosesAgent
  <2>3. \A y \in Awaited : exec[y].ent # h /\ exec[y].ent \in Execs
    BY <2>1, <1>d DEF Awaited, InFlight
  <2> HIDE DEF h
  <2>4. KeysAreOwn' /\ AwaitedShare'
    BY <2>1, <2>2, <1>a, <1>b, <1>d DEF KeysAreOwn, AwaitedShare, Awaited
  <2>5. AwaitedOnServed'
    <3>1. \A y \in Awaited : exec[y].kind = "turn" => exec[y].key # k
      BY <2>1 DEF TurnRunning, Awaited
    <3> QED
      BY <2>1, <2>2, <2>3, <3>1, <1>a DEF AwaitedOnServed, Awaited
  <2>6. RunDrives'
    BY <2>1, <2>2, <2>3, <1>a DEF RunDrives, Awaited
  <2>7. \A f \in Execs : f # h /\ ent[h].agent # None => ent[f].agent # ent[h].agent
    BY <2>1, <1>a DEF AgentsApart
  <2>8. Kept'
    <3>1. ASSUME NEW f \in Execs, ent[f].agent \notin cleaned PROVE ent'[f].agent \notin cleaned'
      BY <3>1, <2>1, <2>2, <2>7, <1>b, <1>d
    <3> QED
      BY <2>1, <2>3, <3>1, <1>a, <1>d DEF Kept, Awaited
  <2>9. Current'
    <3>1. \A l \in Keys : CurrentEntry(l, pool[l])' /\ CurrentEntry(l, held[l])'
      BY <2>1, <2>2, <1>a, <1>b, <1>d DEF Current, CurrentEntry
    <3> QED
      BY <2>1, <2>2, <2>3, <3>1, <1>a DEF Current, Awaited
  <2> QED
    BY <2>4, <2>5, <2>6, <2>8, <2>9 DEF ServedInv
<1>14. ASSUME NEW k \in Keys, SwitchConfig(k) PROVE ServedInv'
  <2> DEFINE p == pool[k]
  <2>1. /\ \A l \in Keys : /\ conf'[l] = IF l = k THEN Latest + 1 ELSE conf[l]
                           /\ promised'[l] = IF l = k THEN Latest + 1 ELSE promised[l]
        /\ LosesAgent(p)
        /\ UNCHANGED <<pool, held, exec, built, cleaned>>
    BY <1>14, SwitchEffect
  <2>2. /\ \A e \in Execs : ent[e].key = k => InFlight(e) = {}
        /\ held[k] \notin {None, p} => ent[held[k]].agent = None
    BY <1>14 DEF SwitchConfig
  <2>3. /\ \A y \in Execs : /\ ent'[y].key = ent[y].key /\ ent'[y].private = ent[y].private /\ ent'[y].ctx = ent[y].ctx
                            /\ y # p => ent'[y].agent = ent[y].agent
        /\ p # None => ent'[p].agent = None /\ p \in Execs /\ ent[p].key = k
    BY <2>1, <1>a, <1>d DEF LosesAgent, KeysAreOwn
  <2>4. \A y \in Awaited : /\ exec[y].ent \in Execs /\ exec[y].ent # p /\ exec[y].key # k /\ exec[y].key \in Keys
                           /\ ent'[exec[y].ent].agent = ent[exec[y].ent].agent
    <3>1. \A y \in Awaited : exec[y].ent \in Execs /\ ent[exec[y].ent].key = exec[y].key /\ exec[y].key \in Keys
      BY <1>a, <1>d DEF Awaited, AwaitedOnServed
    <3>2. \A y \in Awaited : exec[y].key # k
      BY <3>1, <2>2 DEF Awaited, InFlight
    <3> QED
      BY <3>1, <3>2, <2>3, <1>b
  <2> HIDE DEF p
  <2>5. KeysAreOwn' /\ AwaitedOnServed' /\ AwaitedShare'
    <3>1. \A y \in Awaited' : y \in Awaited /\ SameExec(y) /\ exec[y].ent \in Execs
      BY <2>1, <2>4 DEF Awaited, SameExec
    <3> QED
      BY <2>1, <2>3, <3>1, PlacesKept
  <2>6. RunDrives'
    BY <2>1, <2>3, <2>4, <1>a DEF RunDrives, Awaited
  <2>7. Kept'
    BY <2>1, <2>3, <2>4, <1>a, <1>d DEF Kept, Awaited
  <2>8. \A l \in Keys : CurrentEntry(l, pool[l])' /\ CurrentEntry(l, held[l])'
    <3>1. ASSUME NEW l \in Keys, l # k, NEW f \in Execs \cup {None}, f # None => ent[f].key = l, CurrentEntry(l, f)
          PROVE  CurrentEntry(l, f)'
      BY <3>1, <2>1, <2>3 DEF CurrentEntry
    <3>2. \A l \in Keys \ {k} : CurrentEntry(l, pool[l])' /\ CurrentEntry(l, held[l])'
      BY <2>1, <3>1, <1>a, <1>d DEF Current, KeysAreOwn
    <3>3. CurrentEntry(k, pool[k])' /\ CurrentEntry(k, held[k])'
      BY <2>1, <2>2, <2>3, <1>d DEF CurrentEntry, p
    <3> QED
      BY <3>2, <3>3
  <2>9. \A l \in Keys : promised'[l] <= conf'[l]
    <3>1. Latest + 1 <= Latest + 1
      BY LatestIsStored
    <3> QED
      BY <2>1, <3>1, <1>a DEF Current
  <2>10. Current'
    BY <2>1, <2>3, <2>4, <2>8, <2>9, <1>a DEF Current, Awaited
  <2> QED
    BY <2>5, <2>6, <2>7, <2>10 DEF ServedInv
<1>15. ASSUME NEW k \in Keys, ApplyConfig(k) PROVE ServedInv'
  <2>1. /\ UNCHANGED <<promised, ent, pool, held, exec, built, cleaned>>
        /\ \A l \in Keys : conf'[l] = IF l = k THEN Latest + 1 ELSE conf[l]
    BY <1>15 DEF ApplyConfig, PoolTypeOK
  <2>2. \A l \in Keys : promised'[l] <= conf'[l]
    <3>1. Latest \in 0 .. MaxConf /\ \A l \in Keys : conf[l] <= Latest
      BY LatestIsStored
    <3>2. \A l \in Keys : promised[l] <= conf[l] /\ promised[l] \in 0 .. MaxConf /\ conf[l] \in 0 .. MaxConf
      BY <1>a DEF Current, PoolTypeOK
    <3> QED
      BY <2>1, <3>1, <3>2
  <2> QED
    BY <2>1, <2>2, <1>a DEF ServedInv, KeysAreOwn, AwaitedOnServed, AwaitedShare, Awaited, RunDrives, Kept, Current,
       CurrentEntry
<1>16. CASE UNCHANGED poolVars
  BY <1>16, <1>a DEF poolVars, ServedInv, KeysAreOwn, AwaitedOnServed, AwaitedShare, Awaited, RunDrives, Kept, Current,
     CurrentEntry
<1>17. ASSUME NEW x \in Execs, TurnEnters(x) PROVE ServedInv'
  BY <1>17, <1>1 DEF TurnEnters
<1>18. ASSUME NEW x \in Execs, TaskEnters(x) PROVE ServedInv'
  BY <1>18, <1>1 DEF TaskEnters
<1>19. ASSUME NEW k \in Keys, Evict(k) PROVE ServedInv'
  BY <1>19, <1>12, EvictEffect
<1>20. CASE JanitorRound
  BY <1>20, <1>12, JanitorEffect
<1> QED
  BY <1>3, <1>4, <1>5, <1>6, <1>7, <1>9, <1>10, <1>11, <1>13, <1>14, <1>15, <1>16, <1>17, <1>18, <1>19, <1>20
  DEF PoolNext
-----------------------------------------------------------------------------
(* The theorems of the pool.                                                 *)

LEMMA DriversInductive == PoolSpec => [](PoolTypeOK /\ DriverInv)
<1>1. PoolTypeOK /\ DriverInv /\ [PoolNext]_poolVars => (PoolTypeOK /\ DriverInv)'
  BY PoolTypesStep, DriversStep DEF DriverInv
<1> QED
  BY <1>1, PoolTypesInit, DriversInit, PTL DEF PoolSpec

\* Entries, executions and agents keep to their domains, whatever races.
THEOREM PoolTypesAlways == PoolSpec => []PoolTypeOK
BY DriversInductive, PTL

\* Two executor threads are never inside agent.run() of one agent, threads that were given up
\* included, whatever races and however many executions there are (_execute_agent, exec_lock,
\* _quarantine_after_timeout).
THEOREM OneDriverAlways == PoolSpec => []OneDriverPerAgent
<1>1. DriverInv => OneDriverPerAgent
  BY DEF DriverInv
<1> QED
  BY <1>1, DriversInductive, PTL

LEMMA ServedInductive ==
  ASSUME Races = {} PROVE PoolSpec => [](PoolTypeOK /\ DriverInv /\ ServedInv)
<1>1. PoolTypeOK /\ DriverInv /\ ServedInv /\ [PoolNext]_poolVars => (PoolTypeOK /\ DriverInv /\ ServedInv)'
  BY PoolTypesStep, DriversStep, ServedStep DEF DriverInv
<1> QED
  BY <1>1, PoolTypesInit, DriversInit, ServedInit, PTL DEF PoolSpec

LEMMA ServedOneRun ==
  PoolTypeOK /\ DriverInv /\ ServedInv => OneRunPerKey
<1> SUFFICES ASSUME PoolTypeOK, DriverInv, ServedInv,
                    NEW x \in Execs, NEW y \in Execs, x # y, exec[x].at = "run", exec[y].at = "run"
             PROVE  exec[x].key # exec[y].key
  BY DEF OneRunPerKey
<1>1. x \in Awaited /\ y \in Awaited
  BY DEF Awaited
<1> QED
  BY <1>1 DEF DriverInv, ServedInv, AwaitedShare, LockHeld

LEMMA ServedSwitch ==
  PoolTypeOK /\ DriverInv /\ ServedInv => SwitchTakesEffect
<1> SUFFICES ASSUME PoolTypeOK, DriverInv, ServedInv,
                    NEW x \in Execs, exec[x].kind = "turn", exec[x].at = "run"
             PROVE  built[exec[x].agent] >= exec[x].due
  BY DEF SwitchTakesEffect
<1>1. x \in Awaited /\ x \in Driving
  BY DEF Awaited, Driving
<1>2. /\ exec[x].due = promised[exec[x].key] /\ exec[x].key \in Keys /\ held[exec[x].key] = exec[x].ent
      /\ ent[exec[x].ent].agent = exec[x].agent
  BY <1>1 DEF ServedInv, Current, AwaitedOnServed, RunDrives
<1>3. exec[x].agent # None /\ exec[x].ent # None
  BY <1>1 DEF DriverInv, DriversApart, HasEntry
<1> QED
  BY <1>2, <1>3 DEF ServedInv, Current, CurrentEntry

LEMMA ServedResources ==
  PoolTypeOK /\ DriverInv /\ ServedInv => RunKeepsResources
<1> SUFFICES ASSUME ServedInv, NEW x \in Execs, exec[x].at = "run"
             PROVE  exec[x].agent \notin cleaned
  BY DEF RunKeepsResources
<1>1. x \in Awaited
  BY DEF Awaited
<1> QED
  BY <1>1 DEF ServedInv, RunDrives, Kept

\* Outside the named races one awaited execution of a session runs at a time, turn or task.
THEOREM OneRunAlways == ASSUME Races = {} PROVE PoolSpec => []OneRunPerKey
BY ServedInductive, ServedOneRun, PTL

\* Outside the named races a turn that starts after a switch is driven with that
\* configuration or a later one.
THEOREM SwitchAlways == ASSUME Races = {} PROVE PoolSpec => []SwitchTakesEffect
BY ServedInductive, ServedSwitch, PTL

\* Outside the named races nobody evicts the processes of an agent that is being driven.
THEOREM ResourcesAlways == ASSUME Races = {} PROVE PoolSpec => []RunKeepsResources
BY ServedInductive, ServedResources, PTL
-----------------------------------------------------------------------------
(* Workspaces.                                                                *)

\* A busy session is held by the request that took the token, and by no other; a session
\* that was never made is not busy.
HeldOnce ==
  /\ \A q \in Requests : request[q].at = "wait" => /\ request[q].sess \in Sessions
                                                   /\ session[request[q].sess].busy = TRUE
                                                   /\ session[request[q].sess].status # "none"
  /\ \A q, r \in Requests : request[q].at = "wait" /\ request[r].at = "wait" /\ q # r
                            => request[q].sess # request[r].sess
  /\ \A s \in Sessions : session[s].busy = TRUE => \E q \in Requests : request[q].at = "wait" /\ request[q].sess = s

\* The setting of a profile that can still be loaded
ProfileSetting(p) == IF ProfileFound(p) THEN profile[p].setting ELSE 0
\* A snapshot of session s has its versions from the past, and what it says is what those
\* versions stand for.
SnapHonest(s) ==
  LET k == session[s].snap IN
  k # <<>> =>
    /\ k[4] <= ws.version /\ k[5] <= session[s].version
    /\ k[2] # "none" => k[2] \in Profiles /\ k[3] <= profile[k[2]].version
    /\ k[4] = ws.version /\ k[5] = session[s].version /\ (k[2] # "none" => k[3] = profile[k[2]].version)
       => k[2] = ProfileOf(s)
          /\ k[1] = FirstSet(session[s].setting, ws.setting, ProfileSetting(k[2]), GatewaySetting)
SnapsHonest == \A s \in Sessions : SnapHonest(s)
VersionsCount == \A p \in Profiles : profile[p].version >= 1
WsInv == ClosedHasNoActive /\ HeldOnce /\ SnapsHonest /\ VersionsCount
-----------------------------------------------------------------------------
LEMMA WsTypesInit == WsInit => WsTypeOK
<1>1. 0 \in Settings /\ 0 \in 0 .. MaxWsOps
  BY WsAssumption DEF Settings
<1> QED
  BY <1>1 DEF WsInit, WsTypeOK, WorkspaceRow, ProfileRow, SessionRow, RowStatus, ProfileIds, NoSession

LEMMA SessionUpdates ==
  ASSUME NEW r \in SessionRow
  PROVE  /\ r.version + 1 \in Nat
         /\ \A v \in Settings, n \in Nat : [r EXCEPT !.setting = v, !.version = n] \in SessionRow
         /\ \A st \in RowStatus : [r EXCEPT !.status = st] \in SessionRow
         /\ \A b \in BOOLEAN : [r EXCEPT !.busy = b] \in SessionRow
         /\ \A b \in BOOLEAN, k \in SnapKeys : [r EXCEPT !.busy = b, !.snap = k] \in SessionRow
         /\ \A p \in Profiles, v \in Settings :
              [NoSession EXCEPT !.status = "active", !.profile = p, !.setting = v, !.version = 1] \in SessionRow
<1>1. \A v \in Settings, n \in Nat : [r EXCEPT !.setting = v, !.version = n] \in SessionRow
  BY DEF SessionRow
<1>2. \A st \in RowStatus : [r EXCEPT !.status = st] \in SessionRow
  BY DEF SessionRow
<1>3. \A b \in BOOLEAN : [r EXCEPT !.busy = b] \in SessionRow
  BY DEF SessionRow
<1>4. \A b \in BOOLEAN, k \in SnapKeys : [r EXCEPT !.busy = b, !.snap = k] \in SessionRow
  BY DEF SessionRow
<1>5. \A p \in Profiles, v \in Settings :
        [NoSession EXCEPT !.status = "active", !.profile = p, !.setting = v, !.version = 1] \in SessionRow
  BY DEF SessionRow, RowStatus, ProfileIds, NoSession
<1>6. r.version + 1 \in Nat
  BY DEF SessionRow
<1> QED
  BY <1>1, <1>2, <1>3, <1>4, <1>5, <1>6, ZenonT(30)

LEMMA WorkspaceUpdates ==
  ASSUME NEW r \in WorkspaceRow
  PROVE  /\ r.version + 1 \in Nat
         /\ \A v \in Settings, p \in ProfileIds, n \in Nat :
              [r EXCEPT !.setting = v, !.default = p, !.version = n] \in WorkspaceRow
         /\ \A st \in RowStatus, n \in Nat : [r EXCEPT !.status = st, !.version = n] \in WorkspaceRow
<1>1. \A v \in Settings, p \in ProfileIds, n \in Nat :
        [r EXCEPT !.setting = v, !.default = p, !.version = n] \in WorkspaceRow
  BY DEF WorkspaceRow
<1>2. \A st \in RowStatus, n \in Nat : [r EXCEPT !.status = st, !.version = n] \in WorkspaceRow
  BY DEF WorkspaceRow
<1>3. r.version + 1 \in Nat
  BY DEF WorkspaceRow
<1> QED
  BY <1>1, <1>2, <1>3, ZenonT(30)

LEMMA ProfileUpdates ==
  ASSUME NEW r \in ProfileRow
  PROVE  /\ r.version + 1 \in Nat
         /\ \A st \in RowStatus, v \in Settings, n \in Nat : [status |-> st, setting |-> v, version |-> n] \in ProfileRow
         /\ \A st \in RowStatus, n \in Nat : [r EXCEPT !.status = st, !.version = n] \in ProfileRow
<1>1. \A st \in RowStatus, v \in Settings, n \in Nat : [status |-> st, setting |-> v, version |-> n] \in ProfileRow
  BY DEF ProfileRow
<1>2. \A st \in RowStatus, n \in Nat : [r EXCEPT !.status = st, !.version = n] \in ProfileRow
  BY DEF ProfileRow
<1>3. r.version + 1 \in Nat
  BY DEF ProfileRow
<1> QED
  BY <1>1, <1>2, <1>3, ZenonT(30)

LEMMA KeyTypes ==
  ASSUME WsTypeOK, NEW s \in Sessions PROVE DedupKey(s) \in SnapKeys
<1>1. /\ ws \in WorkspaceRow /\ session[s] \in SessionRow
      /\ \A p \in Profiles : profile[p] \in ProfileRow
  BY DEF WsTypeOK
<1>2. ProfileOf(s) \in ProfileIds
  BY <1>1 DEF ProfileOf, WorkspaceRow, SessionRow
<1>3. ProfileVersion(s) \in Nat
  BY <1>1, <1>2 DEF ProfileVersion, ProfileFound, ProfileRow
<1>4. GatewaySetting \in Settings /\ 0 \in Settings
  BY WsAssumption DEF Settings
<1>5. Resolve(s) \in Settings
  <2>1. (IF ProfileFound(ProfileOf(s)) THEN profile[ProfileOf(s)].setting ELSE 0) \in Settings
    BY <1>1, <1>4 DEF ProfileFound, ProfileRow
  <2>2. session[s].setting \in Settings /\ ws.setting \in Settings
    BY <1>1 DEF WorkspaceRow, SessionRow
  <2> QED
    BY <2>1, <2>2, <1>4 DEF Resolve, FirstSet
<1>6. ws.version \in Nat /\ session[s].version \in Nat
  BY <1>1 DEF WorkspaceRow, SessionRow
<1> QED
  BY <1>2, <1>3, <1>5, <1>6 DEF DedupKey, SnapKeys

LEMMA WsTypesStep == WsTypeOK /\ HeldOnce /\ [WsNext]_wsVars => WsTypeOK'
<1> SUFFICES ASSUME WsTypeOK, HeldOnce, [WsNext]_wsVars PROVE WsTypeOK'
  OBVIOUS
<1>a. /\ ws \in WorkspaceRow /\ \A s \in Sessions : session[s] \in SessionRow
      /\ \A p \in Profiles : profile[p] \in ProfileRow
      /\ {"active", "archived", "deleted"} = RowStatus
  BY DEF WsTypeOK, RowStatus
<1>b. RowCount => wsOps' \in 0 .. MaxWsOps
  BY WsAssumption DEF RowCount, WsTypeOK
<1>c. \A q \in Requests : request[q].sess \in Sessions \cup {"none"}
  BY DEF WsTypeOK
<1>d. \A s \in Sessions : session[s].setting \in Settings
  BY <1>a DEF SessionRow
<1>1. ASSUME NEW s \in Sessions, NEW p \in Profiles, NEW v \in Settings, CreateSession(s, p, v) PROVE WsTypeOK'
  BY <1>1, <1>a, <1>b, SessionUpdates DEF CreateSession, WsTypeOK
<1>2. ASSUME NEW s \in Sessions, NEW v \in Settings, session' = Overrides(s, v), RowCount,
             UNCHANGED <<ws, profile, snaps, request, deleting, planned>>
      PROVE  WsTypeOK'
  <2>1. [session[s] EXCEPT !.setting = v, !.version = @ + 1] \in SessionRow
    BY <1>a, SessionUpdates
  <2> QED
    BY <1>2, <2>1, <1>b DEF Overrides, WsTypeOK
<1>3. ASSUME NEW s \in Sessions, ArchiveSession(s) PROVE WsTypeOK'
  BY <1>3, <1>a, <1>b, SessionUpdates DEF ArchiveSession, ArchiveRow, WsTypeOK, RowStatus
<1>4. ASSUME NEW s \in Sessions, DeleteSessionBegins(s) PROVE WsTypeOK'
  BY <1>4, <1>b DEF DeleteSessionBegins, WsTypeOK
<1>5. ASSUME NEW s \in Sessions, DeleteSessionEnds(s) PROVE WsTypeOK'
  BY <1>5, <1>a, SessionUpdates DEF DeleteSessionEnds, ArchiveRow, WsTypeOK, RowStatus
<1>6. ASSUME NEW s \in Sessions, TurnFreezes(s) PROVE WsTypeOK'
  BY <1>6 DEF TurnFreezes, WsTypeOK
<1>7. ASSUME NEW s \in Sessions, NEW q \in Requests, PlanBegins(q, s) PROVE WsTypeOK'
  <2>1. [session[s] EXCEPT !.busy = TRUE, !.snap = DedupKey(s)] \in SessionRow
    BY <1>a, KeyTypes, SessionUpdates
  <2>2. session' \in [Sessions -> SessionRow]
    BY <1>7, <2>1 DEF PlanBegins, WsTypeOK
  <2>3. request' \in [Requests -> [at : {"off", "wait", "done"}, sess : Sessions \cup {"none"}]]
    BY <1>7 DEF PlanBegins, WsTypeOK
  <2> QED
    BY <1>7, <2>2, <2>3 DEF PlanBegins, WsTypeOK
<1>8. ASSUME NEW q \in Requests, PlanCreated(q) \/ PlanFails(q) PROVE WsTypeOK'
  <2>0. request[q].sess \in Sessions
    BY <1>8 DEF PlanCreated, PlanFails, HeldOnce
  <2>1. [session[request[q].sess] EXCEPT !.busy = FALSE] \in SessionRow
    BY <2>0, <1>a, SessionUpdates
  <2>2. session' \in [Sessions -> SessionRow]
    BY <1>8, <2>1 DEF PlanCreated, PlanFails, ReleaseBusy, WsTypeOK
  <2>3. request' \in [Requests -> [at : {"off", "wait", "done"}, sess : Sessions \cup {"none"}]]
    BY <1>8 DEF PlanCreated, PlanFails, WsTypeOK
  <2> QED
    BY <1>8, <2>0, <2>2, <2>3 DEF PlanCreated, PlanFails, WsTypeOK
<1>9. ASSUME NEW v \in Settings, NEW p \in ProfileIds, UpdateWorkspace(v, p) PROVE WsTypeOK'
  BY <1>9, <1>a, <1>b, WorkspaceUpdates DEF UpdateWorkspace, WsTypeOK
<1>10. CASE ArchiveWorkspace
  <2>1. ArchiveRows \in [Sessions -> SessionRow]
    <3>1. \A s \in Sessions : [session[s] EXCEPT !.status = "archived"] \in SessionRow
      BY <1>a, SessionUpdates
    <3> QED
      BY <3>1, <1>a DEF ArchiveRows
  <2>2. ws' \in WorkspaceRow
    BY <1>10, <1>a, WorkspaceUpdates DEF ArchiveWorkspace
  <2> QED
    BY <1>10, <2>1, <2>2, <1>b DEF ArchiveWorkspace, WsTypeOK
<1>11. CASE DeleteWorkspaceBegins
  BY <1>11, <1>b DEF DeleteWorkspaceBegins, WsTypeOK
<1>12. CASE DeleteWorkspaceEnds
  <2>1. [s \in Sessions |-> IF session[s].status = "none" THEN session[s]
                            ELSE [session[s] EXCEPT !.status = "deleted"]] \in [Sessions -> SessionRow]
    <3>1. \A s \in Sessions : [session[s] EXCEPT !.status = "deleted"] \in SessionRow
      BY <1>a, SessionUpdates
    <3> QED
      BY <3>1, <1>a
  <2>2. [ws EXCEPT !.status = "deleted", !.version = @ + 1] \in WorkspaceRow
    BY <1>a, WorkspaceUpdates
  <2>3. ws' \in WorkspaceRow /\ session' \in [Sessions -> SessionRow]
    BY <1>12, <2>1, <2>2 DEF DeleteWorkspaceEnds, WsTypeOK
  <2> QED
    BY <1>12, <2>3 DEF DeleteWorkspaceEnds, WsTypeOK
<1>13. CASE RestartGateway
  <2>1. FlagsReset \in [Sessions -> SessionRow]
    <3>1. \A s \in Sessions : [session[s] EXCEPT !.busy = FALSE] \in SessionRow
      BY <1>a, SessionUpdates
    <3> QED
      BY <3>1 DEF FlagsReset
  <2>2. request' \in [Requests -> [at : {"off", "wait", "done"}, sess : Sessions \cup {"none"}]]
    BY <1>13 DEF RestartGateway, WsTypeOK
  <2> QED
    BY <1>13, <2>1, <2>2, <1>b DEF RestartGateway, WsTypeOK
<1>14. ASSUME NEW p \in Profiles, NEW st \in {"active", "archived"}, NEW v \in Settings, UpdateProfile(p, v, st)
       PROVE  WsTypeOK'
  <2>1. [status |-> st, setting |-> v, version |-> profile[p].version + 1] \in ProfileRow
    BY <1>14, <1>a, ProfileUpdates
  <2> QED
    BY <1>14, <2>1, <1>b DEF UpdateProfile, WsTypeOK
<1>15. ASSUME NEW p \in Profiles, NEW st \in {"active", "archived", "deleted"}, SetProfileStatus(p, st)
       PROVE  WsTypeOK'
  <2>1. [profile[p] EXCEPT !.status = st, !.version = @ + 1] \in ProfileRow
    BY <1>15, <1>a, ProfileUpdates
  <2> QED
    BY <1>15, <2>1, <1>b DEF SetProfileStatus, WsTypeOK
<1>16. CASE UNCHANGED wsVars
  BY <1>16 DEF wsVars, WsTypeOK
<1>17. ASSUME NEW s \in Sessions, RenameSession(s) PROVE WsTypeOK'
  BY <1>17, <1>2, <1>d DEF RenameSession
<1>18. ASSUME NEW s \in Sessions, NEW v \in Settings, ChangeSettings(s, v) PROVE WsTypeOK'
  BY <1>18, <1>2 DEF ChangeSettings
<1> QED
  BY <1>1, <1>3, <1>4, <1>5, <1>6, <1>7, <1>8, <1>9, <1>10, <1>11, <1>12, <1>13, <1>14, <1>15, <1>16, <1>17, <1>18
  DEF WsNext, ProfileIds
-----------------------------------------------------------------------------
(* What the actions change of a session, field by field.                      *)

SameBusy == \A s \in Sessions : session'[s].busy = session[s].busy
\* No row gets active, and none of those there were goes.
RowsLast ==
  \A s \in Sessions : /\ session'[s].status = "active" => session[s].status = "active"
                      /\ session[s].status # "none" => session'[s].status # "none"
\* Settings that change get a new version, and nobody touches a snapshot.
SnapsLeft ==
  /\ ws' = ws \/ (ws'.version > ws.version)
  /\ \A p \in Profiles : profile'[p] = profile[p] \/ profile'[p].version > profile[p].version
  /\ \A s \in Sessions :
       /\ session'[s].snap = session[s].snap
       /\ \/ /\ session'[s].version = session[s].version /\ session'[s].setting = session[s].setting
             /\ session'[s].profile = session[s].profile
          \/ session'[s].version > session[s].version

LEMMA SnapsKept ==
  ASSUME WsTypeOK, WsTypeOK', SnapsHonest, VersionsCount, SnapsLeft PROVE SnapsHonest' /\ VersionsCount'
<1>a. /\ ws.version \in Nat /\ \A s \in Sessions : session[s] \in SessionRow
      /\ \A p \in Profiles : profile[p].version \in Nat
  BY DEF WsTypeOK, WorkspaceRow, ProfileRow
<1>b. \A s \in Sessions : session[s].version \in Nat /\ (session[s].snap # <<>> => session[s].snap \in SnapKeys)
  BY <1>a DEF SessionRow
<1>c. /\ ws'.version \in Nat /\ \A s \in Sessions : session'[s] \in SessionRow
      /\ \A p \in Profiles : profile'[p].version \in Nat
  BY DEF WsTypeOK, WorkspaceRow, ProfileRow
<1>d. \A s \in Sessions : session'[s].version \in Nat
  BY <1>c DEF SessionRow
<1>1. VersionsCount'
  BY <1>a, <1>c DEF VersionsCount, SnapsLeft
<1>2. ASSUME NEW s \in Sessions PROVE SnapHonest(s)'
  <2> SUFFICES ASSUME NEW k, k = session[s].snap, k # <<>>
               PROVE  /\ k[4] <= ws'.version /\ k[5] <= session'[s].version
                      /\ k[2] # "none" => k[2] \in Profiles /\ k[3] <= profile'[k[2]].version
                      /\ k[4] = ws'.version /\ k[5] = session'[s].version /\ (k[2] # "none" => k[3] = profile'[k[2]].version)
                         => k[2] = ProfileOf(s)'
                            /\ k[1] = FirstSet(session'[s].setting, ws'.setting, ProfileSetting(k[2])', GatewaySetting)
    BY DEF SnapHonest, SnapsLeft
  <2>1. /\ k[4] <= ws.version /\ k[5] <= session[s].version
        /\ k[2] # "none" => k[2] \in Profiles /\ k[3] <= profile[k[2]].version
        /\ k[4] = ws.version /\ k[5] = session[s].version /\ (k[2] # "none" => k[3] = profile[k[2]].version)
           => k[2] = ProfileOf(s)
              /\ k[1] = FirstSet(session[s].setting, ws.setting, ProfileSetting(k[2]), GatewaySetting)
    BY DEF SnapsHonest, SnapHonest
  <2>2. k[3] \in Nat /\ k[4] \in Nat /\ k[5] \in Nat
    BY <1>b DEF SnapKeys
  <2>3. /\ k[4] <= ws'.version /\ k[5] <= session'[s].version
        /\ k[2] # "none" => k[2] \in Profiles /\ k[3] <= profile'[k[2]].version
    <3>1. ws'.version >= ws.version
      BY <1>a, <1>c DEF SnapsLeft
    <3>2. session'[s].version >= session[s].version
      BY <1>b, <1>d DEF SnapsLeft
    <3>3. \A p \in Profiles : profile'[p].version >= profile[p].version
      BY <1>a, <1>c DEF SnapsLeft
    <3> QED
      <4>1. k[4] <= ws'.version
        BY <2>1, <2>2, <3>1, <1>a, <1>c
      <4>2. k[5] <= session'[s].version
        BY <2>1, <2>2, <3>2, <1>b, <1>d
      <4>3. ASSUME k[2] # "none" PROVE k[2] \in Profiles /\ k[3] <= profile'[k[2]].version
        <5>1. k[2] \in Profiles /\ k[3] <= profile[k[2]].version
          BY <4>3, <2>1
        <5>2. profile'[k[2]].version >= profile[k[2]].version
          BY <5>1, <3>3
        <5>3. profile[k[2]].version \in Nat /\ profile'[k[2]].version \in Nat
          BY <5>1, <1>a, <1>c
        <5> QED
          BY <5>1, <5>2, <5>3, <2>2
      <4> QED
        BY <4>1, <4>2, <4>3
  <2>4. ASSUME k[4] = ws'.version, k[5] = session'[s].version, k[2] # "none" => k[3] = profile'[k[2]].version
        PROVE  k[2] = ProfileOf(s)'
               /\ k[1] = FirstSet(session'[s].setting, ws'.setting, ProfileSetting(k[2])', GatewaySetting)
    <3>1. ws' = ws /\ session'[s].setting = session[s].setting /\ session'[s].profile = session[s].profile
          /\ session'[s].version = session[s].version
      BY <2>4, <2>1, <2>2, <1>a, <1>b DEF SnapsLeft
    <3>2. k[2] # "none" => profile'[k[2]] = profile[k[2]]
      BY <2>4, <2>1, <2>2, <1>a DEF SnapsLeft
    <3>3. ProfileSetting(k[2])' = ProfileSetting(k[2]) /\ ProfileOf(s)' = ProfileOf(s)
      BY <3>1, <3>2, WsAssumption DEF ProfileSetting, ProfileFound, ProfileOf
    <3> QED
      BY <2>4, <2>1, <3>1, <3>2, <3>3
  <2> QED
    BY <2>3, <2>4
<1> QED
  BY <1>1, <1>2 DEF SnapsHonest

\* One session changes: its settings, its status, its busy mark, or all of it when it is made.
LEMMA OneSession ==
  ASSUME WsTypeOK, NEW s \in Sessions, NEW r \in SessionRow, session' = [session EXCEPT ![s] = r]
  PROVE  session'[s] = r /\ \A u \in Sessions \ {s} : session'[u] = session[u]
BY DEF WsTypeOK

LEMMA WsKept ==
  ASSUME WsTypeOK, WsTypeOK', WsInv, SnapsLeft, RowsLast, SameBusy, UNCHANGED request,
         ws'.status = "active" => ws.status = "active" \/ \A s \in Sessions : session'[s].status # "active",
         ws'.status # "active" => ws.status # "active" \/ \A s \in Sessions : session'[s].status # "active"
  PROVE  WsInv'
<1>1. SnapsHonest' /\ VersionsCount'
  BY SnapsKept DEF WsInv
<1>2. HeldOnce'
  BY DEF WsInv, HeldOnce, SameBusy, RowsLast
<1>3. ClosedHasNoActive'
  BY DEF WsInv, ClosedHasNoActive, RowsLast
<1> QED
  BY <1>1, <1>2, <1>3 DEF WsInv

LEMMA WsInvInit == WsInit => WsInv
BY DEF WsInit, WsInv, ClosedHasNoActive, HeldOnce, SnapsHonest, SnapHonest, VersionsCount, NoSession

LEMMA WsStep == WsTypeOK /\ WsTypeOK' /\ WsInv /\ [WsNext]_wsVars => WsInv'
<1> SUFFICES ASSUME WsTypeOK, WsTypeOK', WsInv, [WsNext]_wsVars PROVE WsInv'
  OBVIOUS
<1>a. /\ ws \in WorkspaceRow /\ \A s \in Sessions : session[s] \in SessionRow
      /\ \A p \in Profiles : profile[p] \in ProfileRow
  BY DEF WsTypeOK
<1>b. /\ ws.version \in Nat /\ \A s \in Sessions : session[s].version \in Nat
      /\ \A p \in Profiles : profile[p].version \in Nat
  BY <1>a DEF WorkspaceRow, SessionRow, ProfileRow
<1>c. ClosedHasNoActive /\ HeldOnce /\ SnapsHonest /\ VersionsCount
  BY DEF WsInv
<1>1. ASSUME NEW s \in Sessions, NEW p \in Profiles, NEW v \in Settings, CreateSession(s, p, v) PROVE WsInv'
  <2> DEFINE r == [NoSession EXCEPT !.status = "active", !.profile = p, !.setting = v, !.version = 1]
  <2>1. /\ session'[s] = r /\ \A u \in Sessions \ {s} : session'[u] = session[u]
        /\ UNCHANGED <<ws, profile, request>> /\ session[s].status = "none" /\ ws.status = "active"
    BY <1>1 DEF CreateSession, WsTypeOK
  <2>2. session'[s].snap = <<>> /\ session'[s].busy = FALSE /\ session'[s].status = "active"
    BY <2>1 DEF NoSession
  <2>3. HeldOnce'
    <3>1. \A q \in Requests : request[q].at = "wait" => request[q].sess # s
      BY <2>1, <1>c DEF HeldOnce
    <3>2. \A u \in Sessions : session'[u].busy = TRUE => u # s /\ session[u].busy = TRUE
      BY <2>1, <2>2
    <3> QED
      BY <2>1, <3>1, <3>2, <1>c DEF HeldOnce
  <2>4. SnapsHonest'
    <3>1. \A u \in Sessions \ {s} : SnapHonest(u)'
      BY <2>1, <1>c DEF SnapsHonest, SnapHonest, ProfileOf, ProfileSetting, ProfileFound
    <3>2. SnapHonest(s)'
      BY <2>2 DEF SnapHonest
    <3> QED
      BY <3>1, <3>2 DEF SnapsHonest
  <2>5. ClosedHasNoActive' /\ VersionsCount'
    BY <2>1, <1>c DEF ClosedHasNoActive, VersionsCount
  <2> QED
    BY <2>3, <2>4, <2>5 DEF WsInv
<1>2. ASSUME NEW s \in Sessions, NEW v \in Settings, session' = Overrides(s, v),
             UNCHANGED <<ws, profile, request>>
      PROVE  WsInv'
  <2>1. /\ session'[s] = [session[s] EXCEPT !.setting = v, !.version = session[s].version + 1]
        /\ \A u \in Sessions \ {s} : session'[u] = session[u]
    BY <1>2 DEF Overrides, WsTypeOK
  <2>2. /\ session'[s].snap = session[s].snap /\ session'[s].busy = session[s].busy
        /\ session'[s].status = session[s].status /\ session'[s].version = session[s].version + 1
    BY <2>1, <1>a DEF SessionRow
  <2>3. session'[s].version > session[s].version
    BY <2>2, <1>b
  <2>4. SnapsLeft /\ RowsLast /\ SameBusy
    BY <1>2, <2>1, <2>2, <2>3 DEF SnapsLeft, RowsLast, SameBusy
  <2> QED
    BY <1>2, <2>4, WsKept
<1>3. ASSUME NEW s \in Sessions, session' = ArchiveRow(s), UNCHANGED <<ws, profile, request>>
      PROVE  WsInv'
  <2>1. /\ session'[s] = [session[s] EXCEPT !.status = "archived"]
        /\ \A u \in Sessions \ {s} : session'[u] = session[u]
    BY <1>3 DEF ArchiveRow, WsTypeOK
  <2>2. /\ session'[s].snap = session[s].snap /\ session'[s].busy = session[s].busy
        /\ session'[s].status = "archived" /\ session'[s].version = session[s].version
        /\ session'[s].setting = session[s].setting /\ session'[s].profile = session[s].profile
    BY <2>1, <1>a DEF SessionRow
  <2>3. SnapsLeft /\ RowsLast /\ SameBusy
    BY <1>3, <2>1, <2>2 DEF SnapsLeft, RowsLast, SameBusy
  <2> QED
    BY <1>3, <2>3, WsKept
<1>4. CASE UNCHANGED <<ws, profile, session, request>>
  <2>1. SnapsLeft /\ RowsLast /\ SameBusy
    BY <1>4 DEF SnapsLeft, RowsLast, SameBusy
  <2> QED
    BY <1>4, <2>1, WsKept
<1>5. ASSUME NEW s \in Sessions, DeleteSessionEnds(s) PROVE WsInv'
  BY <1>5, <1>3, <1>4 DEF DeleteSessionEnds
<1>6. ASSUME NEW s \in Sessions, NEW q \in Requests, PlanBegins(q, s) PROVE WsInv'
  <2>1. /\ session'[s] = [session[s] EXCEPT !.busy = TRUE, !.snap = DedupKey(s)]
        /\ \A u \in Sessions \ {s} : session'[u] = session[u]
        /\ UNCHANGED <<ws, profile>> /\ session[s].status = "active" /\ session[s].busy = FALSE
        /\ request'[q] = [at |-> "wait", sess |-> s] /\ request[q].at = "off"
        /\ \A o \in Requests \ {q} : request'[o] = request[o]
    <3>1. session[s].busy \in BOOLEAN
      BY <1>a DEF SessionRow
    <3> QED
      BY <1>6, <3>1 DEF PlanBegins, TrySetBusy, WsTypeOK
  <2>2. /\ session'[s].snap = DedupKey(s) /\ session'[s].busy = TRUE
        /\ session'[s].status = session[s].status /\ session'[s].version = session[s].version
        /\ session'[s].setting = session[s].setting /\ session'[s].profile = session[s].profile
    BY <2>1, <1>a DEF SessionRow
  <2>3. HeldOnce'
    <3>1. \A o \in Requests : request'[o].at = "wait" => o = q \/ (request[o].at = "wait" /\ request[o].sess # s
                                                              /\ request'[o].sess = request[o].sess)
      BY <2>1, <1>c DEF HeldOnce
    <3>2. request'[q].at = "wait" /\ request'[q].sess = s
      BY <2>1
    <3>3. ASSUME NEW o \in Requests, request'[o].at = "wait"
          PROVE  /\ request'[o].sess \in Sessions
                 /\ session'[request'[o].sess].busy = TRUE
                 /\ session'[request'[o].sess].status # "none"
      <4>1. CASE o = q
        BY <4>1, <3>2, <2>1, <2>2
      <4>2. CASE o # q
        <5>1. request[o].at = "wait" /\ request[o].sess # s /\ request'[o].sess = request[o].sess
          BY <3>1, <3>3, <4>2
        <5> QED
          BY <5>1, <2>1, <1>c DEF HeldOnce
      <4> QED
        BY <4>1, <4>2
    <3>4. \A o, r \in Requests : request'[o].at = "wait" /\ request'[r].at = "wait" /\ o # r
                                  => request'[o].sess # request'[r].sess
      BY <3>1, <3>2, <1>c DEF HeldOnce
    <3>5. ASSUME NEW u \in Sessions, session'[u].busy = TRUE
          PROVE  \E o \in Requests : request'[o].at = "wait" /\ request'[o].sess = u
      <4>1. CASE u = s
        BY <4>1, <3>2
      <4>2. CASE u # s
        <5>1. PICK o \in Requests : request[o].at = "wait" /\ request[o].sess = u
          BY <3>5, <4>2, <2>1, <1>c DEF HeldOnce
        <5>2. o # q
          BY <5>1, <2>1
        <5> QED
          BY <5>1, <5>2, <2>1
      <4> QED
        BY <4>1, <4>2
    <3> QED
      BY <3>3, <3>4, <3>5 DEF HeldOnce
  <2>4. SnapsHonest'
    <3>1. \A u \in Sessions \ {s} : SnapHonest(u)'
      BY <2>1, <1>c DEF SnapsHonest, SnapHonest, ProfileOf, ProfileSetting, ProfileFound
    <3>2. SnapHonest(s)'
      <4>1. ProfileOf(s)' = ProfileOf(s) /\ ProfileOf(s) \in ProfileIds /\ "none" \notin Profiles
        BY <2>1, <2>2, <1>a, WsAssumption DEF ProfileOf, WorkspaceRow, SessionRow
      <4>2. /\ DedupKey(s)[1] = Resolve(s) /\ DedupKey(s)[2] = ProfileOf(s) /\ DedupKey(s)[3] = ProfileVersion(s)
            /\ DedupKey(s)[4] = ws.version /\ DedupKey(s)[5] = session[s].version
        BY DEF DedupKey
      <4>3. ProfileOf(s) # "none" => ProfileOf(s) \in Profiles /\ ProfileVersion(s) <= profile[ProfileOf(s)].version
        BY <4>1, <1>b DEF ProfileVersion, ProfileIds
      <4>4. Resolve(s) = FirstSet(session[s].setting, ws.setting, ProfileSetting(ProfileOf(s)), GatewaySetting)
        BY DEF Resolve, ProfileSetting
      <4>5. \A p \in ProfileIds : ProfileSetting(p)' = ProfileSetting(p)
        BY <2>1 DEF ProfileSetting, ProfileFound
      <4> QED
        BY <2>1, <2>2, <4>1, <4>2, <4>3, <4>4, <4>5, <1>b DEF SnapHonest
    <3> QED
      BY <3>1, <3>2 DEF SnapsHonest
  <2>5. ClosedHasNoActive' /\ VersionsCount'
    BY <2>1, <2>2, <1>c DEF ClosedHasNoActive, VersionsCount
  <2> QED
    BY <2>3, <2>4, <2>5 DEF WsInv
<1>7. ASSUME NEW q \in Requests, PlanCreated(q) \/ PlanFails(q) PROVE WsInv'
  <2> DEFINE s == request[q].sess
  <2>1. s \in Sessions /\ request[q].at = "wait"
    BY <1>7, <1>c DEF PlanCreated, PlanFails, HeldOnce
  <2>2. /\ session'[s] = [session[s] EXCEPT !.busy = FALSE]
        /\ \A u \in Sessions \ {s} : session'[u] = session[u]
        /\ UNCHANGED <<ws, profile>>
        /\ request'[q].at = "done" /\ \A o \in Requests \ {q} : request'[o] = request[o]
    BY <1>7, <2>1 DEF PlanCreated, PlanFails, ReleaseBusy, WsTypeOK
  <2>3. /\ session'[s].snap = session[s].snap /\ session'[s].busy = FALSE
        /\ session'[s].status = session[s].status /\ session'[s].version = session[s].version
        /\ session'[s].setting = session[s].setting /\ session'[s].profile = session[s].profile
    BY <2>1, <2>2, <1>a DEF SessionRow
  <2>4. HeldOnce'
    <3>1. \A o \in Requests : request'[o].at = "wait" => o # q /\ request[o].at = "wait" /\ request[o].sess # s
                                                        /\ request'[o].sess = request[o].sess
      BY <2>1, <2>2, <1>c DEF HeldOnce
    <3>2. ASSUME NEW u \in Sessions, session'[u].busy = TRUE
          PROVE  \E o \in Requests : request'[o].at = "wait" /\ request'[o].sess = u
      <4>1. u # s /\ session[u].busy = TRUE
        BY <3>2, <2>1, <2>2, <2>3
      <4>2. PICK o \in Requests : request[o].at = "wait" /\ request[o].sess = u
        BY <4>1, <1>c DEF HeldOnce
      <4> QED
        BY <4>1, <4>2, <2>2
    <3>3. ASSUME NEW o \in Requests, request'[o].at = "wait"
          PROVE  /\ request'[o].sess \in Sessions
                 /\ session'[request'[o].sess].busy = TRUE
                 /\ session'[request'[o].sess].status # "none"
      <4>1. request[o].at = "wait" /\ request[o].sess # s /\ request'[o].sess = request[o].sess
        BY <3>1, <3>3
      <4> QED
        BY <4>1, <2>2, <1>c DEF HeldOnce
    <3>4. \A o, r \in Requests : request'[o].at = "wait" /\ request'[r].at = "wait" /\ o # r
                                  => request'[o].sess # request'[r].sess
      BY <3>1, <1>c DEF HeldOnce
    <3> QED
      BY <3>2, <3>3, <3>4 DEF HeldOnce
  <2> HIDE DEF s
  <2>5. SnapsLeft /\ RowsLast
    BY <2>1, <2>2, <2>3 DEF SnapsLeft, RowsLast
  <2>6. SnapsHonest' /\ VersionsCount'
    BY <2>5, <1>c, SnapsKept
  <2>7. ClosedHasNoActive'
    <3>1. \A u \in Sessions : session'[u].status = session[u].status
      BY <2>1, <2>2, <2>3
    <3> QED
      BY <2>2, <3>1, <1>c DEF ClosedHasNoActive
  <2> QED
    BY <2>4, <2>6, <2>7 DEF WsInv
<1>8. ASSUME NEW v \in Settings, NEW p \in ProfileIds, UpdateWorkspace(v, p) PROVE WsInv'
  <2>1. ws'.status = ws.status /\ ws'.version > ws.version /\ UNCHANGED <<profile, session, request>>
    BY <1>8, <1>a, <1>b DEF UpdateWorkspace, WorkspaceRow
  <2>2. SnapsLeft /\ RowsLast /\ SameBusy
    BY <2>1 DEF SnapsLeft, RowsLast, SameBusy
  <2> QED
    BY <2>1, <2>2, WsKept
<1>9. CASE ArchiveWorkspace
  <2>1. ws'.version > ws.version /\ UNCHANGED <<profile, request>>
    BY <1>9, <1>a, <1>b DEF ArchiveWorkspace, WorkspaceRow
  <2>2. ASSUME NEW s \in Sessions
        PROVE  /\ session'[s].snap = session[s].snap /\ session'[s].busy = session[s].busy
               /\ session'[s].status # "active" /\ (session[s].status # "none" => session'[s].status # "none")
               /\ session'[s].version = session[s].version
               /\ session'[s].setting = session[s].setting /\ session'[s].profile = session[s].profile
    BY <1>9, <1>a DEF ArchiveWorkspace, ArchiveRows, SessionRow
  <2>3. SnapsLeft /\ RowsLast /\ SameBusy
    BY <2>1, <2>2 DEF SnapsLeft, RowsLast, SameBusy
  <2> QED
    BY <2>1, <2>2, <2>3, WsKept
<1>10. CASE DeleteWorkspaceEnds /\ WorkspaceFound
  <2>1. ws'.version > ws.version /\ UNCHANGED <<profile, request>>
    <3>1. ws' = [ws EXCEPT !.status = "deleted", !.version = ws.version + 1] /\ UNCHANGED <<profile, request>>
      BY <1>10 DEF DeleteWorkspaceEnds
    <3> QED
      BY <3>1, <1>a, <1>b DEF WorkspaceRow
  <2>2. ASSUME NEW s \in Sessions
        PROVE  /\ session'[s].snap = session[s].snap /\ session'[s].busy = session[s].busy
               /\ session'[s].status # "active" /\ (session[s].status # "none" => session'[s].status # "none")
               /\ session'[s].version = session[s].version
               /\ session'[s].setting = session[s].setting /\ session'[s].profile = session[s].profile
    BY <1>10, <1>a DEF DeleteWorkspaceEnds, SessionRow
  <2>3. SnapsLeft /\ RowsLast /\ SameBusy
    BY <2>1, <2>2 DEF SnapsLeft, RowsLast, SameBusy
  <2> QED
    BY <2>1, <2>2, <2>3, WsKept
<1>11. CASE RestartGateway
  <2>1. /\ UNCHANGED <<ws, profile>>
        /\ \A q \in Requests : request'[q].at # "wait"
    BY <1>11 DEF RestartGateway
  <2>2. ASSUME NEW s \in Sessions
        PROVE  /\ session'[s].snap = session[s].snap /\ session'[s].busy = FALSE
               /\ session'[s].status = session[s].status
               /\ session'[s].version = session[s].version
               /\ session'[s].setting = session[s].setting /\ session'[s].profile = session[s].profile
    BY <1>11, <1>a DEF RestartGateway, FlagsReset, SessionRow
  <2>3. SnapsLeft /\ RowsLast
    BY <2>1, <2>2 DEF SnapsLeft, RowsLast
  <2>4. HeldOnce' /\ ClosedHasNoActive'
    BY <2>1, <2>2, <1>c DEF HeldOnce, ClosedHasNoActive
  <2> QED
    BY <2>3, <2>4, <1>c, SnapsKept DEF WsInv
<1>12. ASSUME NEW p \in Profiles, profile'[p].version > profile[p].version,
              \A o \in Profiles \ {p} : profile'[o] = profile[o], UNCHANGED <<ws, session, request>>
       PROVE  WsInv'
  <2>1. SnapsLeft /\ RowsLast /\ SameBusy
    BY <1>12 DEF SnapsLeft, RowsLast, SameBusy
  <2> QED
    BY <1>12, <2>1, WsKept
<1>13. ASSUME NEW p \in Profiles, NEW st \in {"active", "archived"}, NEW v \in Settings, UpdateProfile(p, v, st)
       PROVE  WsInv'
  <2>1. /\ profile'[p].version = profile[p].version + 1
        /\ \A o \in Profiles \ {p} : profile'[o] = profile[o]
        /\ UNCHANGED <<ws, session, request>>
    BY <1>13 DEF UpdateProfile, WsTypeOK
  <2>2. profile'[p].version > profile[p].version
    BY <2>1, <1>b
  <2> QED
    BY <2>1, <2>2, <1>12
<1>14. ASSUME NEW p \in Profiles, NEW st \in {"active", "archived", "deleted"}, SetProfileStatus(p, st)
       PROVE  WsInv'
  <2>1. /\ profile'[p] = [profile[p] EXCEPT !.status = st, !.version = profile[p].version + 1]
        /\ \A o \in Profiles \ {p} : profile'[o] = profile[o]
        /\ UNCHANGED <<ws, session, request>>
    BY <1>14 DEF SetProfileStatus, WsTypeOK
  <2>2. profile'[p].version > profile[p].version
    BY <2>1, <1>a, <1>b DEF ProfileRow
  <2> QED
    BY <2>1, <2>2, <1>12
<1>15. ASSUME NEW s \in Sessions, RenameSession(s) PROVE WsInv'
  <2>1. session[s].setting \in Settings
    BY <1>a DEF SessionRow
  <2> QED
    BY <1>15, <2>1, <1>2 DEF RenameSession
<1>16. ASSUME NEW s \in Sessions, NEW v \in Settings, ChangeSettings(s, v) PROVE WsInv'
  BY <1>16, <1>2 DEF ChangeSettings
<1>17. ASSUME NEW s \in Sessions, ArchiveSession(s) PROVE WsInv'
  BY <1>17, <1>3 DEF ArchiveSession
<1>18. ASSUME NEW s \in Sessions, TurnFreezes(s) \/ DeleteSessionBegins(s) PROVE WsInv'
  BY <1>18, <1>4 DEF TurnFreezes, DeleteSessionBegins
<1>19. CASE DeleteWorkspaceBegins
  BY <1>19, <1>4 DEF DeleteWorkspaceBegins
<1>20. CASE DeleteWorkspaceEnds
  BY <1>20, <1>10, <1>4 DEF DeleteWorkspaceEnds
<1>21. CASE UNCHANGED wsVars
  BY <1>21, <1>4 DEF wsVars
<1> QED
  BY <1>1, <1>5, <1>6, <1>7, <1>8, <1>9, <1>11, <1>13, <1>14, <1>15, <1>16, <1>17, <1>18, <1>19, <1>20, <1>21
  DEF WsNext, ProfileIds
-----------------------------------------------------------------------------
LEMMA OneHolder ==
  ASSUME WsTypeOK, HeldOnce PROVE BusyHasOneHolder
<1> SUFFICES ASSUME NEW s \in Sessions
             PROVE  Cardinality({q \in Requests : request[q].at = "wait" /\ request[q].sess = s})
                      = IF session[s].busy THEN 1 ELSE 0
  BY DEF BusyHasOneHolder
<1> DEFINE H == {q \in Requests : request[q].at = "wait" /\ request[q].sess = s}
<1>1. session[s].busy \in BOOLEAN
  <2>1. session[s] \in SessionRow
    BY DEF WsTypeOK
  <2> QED
    BY <2>1 DEF SessionRow
<1>2. CASE session[s].busy = TRUE
  <2>1. PICK q \in Requests : request[q].at = "wait" /\ request[q].sess = s
    BY <1>2 DEF HeldOnce
  <2>2. H = {q}
    BY <2>1 DEF HeldOnce
  <2> QED
    BY <1>2, <2>2, FS_Singleton
<1>3. CASE session[s].busy = FALSE
  <2>1. H = {}
    BY <1>3 DEF HeldOnce
  <2> QED
    BY <1>3, <2>1, FS_EmptySet
<1> QED
  BY <1>1, <1>2, <1>3

LEMMA FreshIsCurrent ==
  ASSUME WsTypeOK, SnapsHonest PROVE FreshSnapshotIsCurrent
<1> SUFFICES ASSUME NEW s \in Sessions, session[s].snap # <<>>, ~IsStale(s)
             PROVE  session[s].snap[1] = Resolve(s)
  BY DEF FreshSnapshotIsCurrent
<1> DEFINE k == session[s].snap
<1>1. /\ k[4] = ws.version /\ k[5] = session[s].version
      /\ k[2] # "none" => ProfileFound(k[2]) /\ k[3] = profile[k[2]].version
  BY DEF IsStale
<1>2. k[2] = ProfileOf(s)
      /\ k[1] = FirstSet(session[s].setting, ws.setting, ProfileSetting(k[2]), GatewaySetting)
  BY <1>1 DEF SnapsHonest, SnapHonest
<1> HIDE DEF k
<1>3. Resolve(s) = FirstSet(session[s].setting, ws.setting, ProfileSetting(ProfileOf(s)), GatewaySetting)
  BY DEF Resolve, ProfileSetting
<1> QED
  BY <1>2, <1>3 DEF k
-----------------------------------------------------------------------------
LEMMA WsInductive == WsSpec => [](WsTypeOK /\ WsInv)
<1>1. WsInit => WsTypeOK /\ WsInv
  BY WsTypesInit, WsInvInit
<1>2. WsTypeOK /\ WsInv /\ [WsNext]_wsVars => (WsTypeOK /\ WsInv)'
  BY WsTypesStep, WsStep DEF WsInv
<1> QED
  BY <1>1, <1>2, PTL DEF WsSpec

\* The rows of the workspace database have their types (workspace_store.py:31-120).
THEOREM WsTypesAlways == WsSpec => []WsTypeOK
BY WsInductive, PTL

\* A workspace that is being deleted or is gone has no active session, at whichever step the
\* cascade over its sessions is (api_workspace.py:700-780).
THEOREM ClosedAlways == WsSpec => []ClosedHasNoActive
<1>1. WsInv => ClosedHasNoActive
  BY DEF WsInv
<1> QED
  BY <1>1, WsInductive, PTL

\* A busy row has exactly one request under way and an idle row none, however requests, the
\* deletion of sessions and the archive follow one another.
THEOREM BusyHasOneHolderAlways == WsSpec => []BusyHasOneHolder
<1>1. WsTypeOK /\ WsInv => BusyHasOneHolder
  BY OneHolder DEF WsInv
<1> QED
  BY <1>1, WsInductive, PTL

\* A frozen snapshot that the staleness check accepts equals what resolving the settings now
\* would give, whatever was changed meanwhile.
THEOREM FreshSnapshotAlways == WsSpec => []FreshSnapshotIsCurrent
<1>1. WsTypeOK /\ WsInv => FreshSnapshotIsCurrent
  BY FreshIsCurrent DEF WsInv
<1> QED
  BY <1>1, WsInductive, PTL
-----------------------------------------------------------------------------
(* Scheduler.                                                                 *)

\* A set of numbers has a least one.
LEMMA LeastOfSet == ASSUME NEW S \in SUBSET Nat, S # {} PROVE \E m \in S : \A n \in S : m <= n
<1>1. S \subseteq Nat
  OBVIOUS
<1>2. IsWellFoundedOn(OpToRel(<, Nat), Nat)
  BY NatLessThanWellFounded
<1>3. PICK m \in S : \A n \in S : <<n, m>> \notin OpToRel(<, Nat)
  BY <1>1, <1>2, WFMin
<1>4. \A n \in S : ~(n < m)
  BY <1>1, <1>3 DEF OpToRel
<1> QED
  BY <1>1, <1>4
-----------------------------------------------------------------------------
\* The fires that wait on instance i are its own, one per job, and mark their jobs; a
\* tick waits for a fire; an instance that is down has forgotten everything.
MarkInv ==
  \A i \in Instances :
    /\ sched[i].running = {fire[p].job : p \in sched[i].pending}
    /\ Cardinality(sched[i].running) <= MaxConcurrent
    /\ \A p, q \in sched[i].pending : fire[p].job = fire[q].job => p = q
    /\ \A p \in sched[i].pending : fire[p].at # "off" /\ fire[p].inst = i
    /\ sched[i].on # 0 => fire[sched[i].on].at # "off"
    /\ ~sched[i].up => sched[i].pending = {} /\ sched[i].todo = {} /\ sched[i].on = 0

\* A run under way is not overdue and waits on its instance.
LiveInv ==
  \A r \in Fires :
    /\ fire[r].at = "live" => ~fire[r].late /\ r \in sched[fire[r].inst].pending
    /\ fire[r].end = "reply" => fire[r].at = "done"

\* The next fire of job j is one that instance i can come to: i leads, or i is still
\* in a round it began as the leader.  The slot of the fire its tick awaits is past.
MayCome(i, j) ==
  /\ sched[i].nf[j] # 0
  /\ lease = i \/ (j \in sched[i].todo /\ sched[i].nf[j] <= sched[i].now)
  /\ sched[i].on = 0 \/ fire[sched[i].on].job # j

\* What an instance can come to has not been fired, and no other can come to it; a leader
\* in a round began it last, after all that was fired.
Ahead(i, j) ==
  /\ \A r \in Fires : fire[r].slot # 0 /\ fire[r].job = j => fire[r].slot # sched[i].nf[j]
  /\ \A n \in Instances : n # i /\ MayCome(n, j) => sched[n].nf[j] # sched[i].nf[j]
LeadsLast(i) ==
  /\ \A r \in Fires : fire[r].slot <= sched[i].now
  /\ \A n \in Instances : sched[n].todo # {} => sched[n].now <= sched[i].now
SlotInv ==
  /\ \A r \in Fires : fire[r].slot <= clock
  /\ \A i \in Instances : sched[i].now <= clock
  /\ \A i \in Instances, j \in JobNames : MayCome(i, j) => Ahead(i, j)
  /\ \A i \in Instances : lease = i /\ sched[i].todo # {} => LeadsLast(i)
  /\ SlotFiredOnce
-----------------------------------------------------------------------------
\* What becomes of the record of one instance, and what stays of every fire
Schedules(i, e) == e \in SchedRecord /\ sched' = [sched EXCEPT ![i] = e]
FiresStay ==
  /\ fire' \in [Fires -> FireRecord \cup {NoFire}]
  /\ \A r \in Fires :
       /\ fire'[r].job = fire[r].job /\ fire'[r].inst = fire[r].inst /\ fire'[r].slot = fire[r].slot
       /\ fire'[r].at = "off" <=> fire[r].at = "off"

LEMMA SchedTyped ==
  ASSUME SchedTypeOK
  PROVE  /\ clock \in Nat /\ MaxClock \in Nat /\ clock <= MaxClock
         /\ \A i \in Instances :
              /\ sched[i] \in SchedRecord
              /\ sched[i].up \in BOOLEAN /\ sched[i].todo \subseteq JobNames /\ sched[i].now \in 0 .. MaxClock
              /\ sched[i].on \in 0 .. MaxFires /\ sched[i].nf \in [JobNames -> 0 .. MaxClock + 1]
              /\ sched[i].running \subseteq JobNames /\ sched[i].pending \subseteq Fires
              /\ sched[i].jobs \subseteq JobNames
              /\ sched[i].last \in [JobNames -> 0 .. MaxClock]
         /\ \A r \in Fires : fire[r] \in FireRecord \cup {NoFire}
BY SchedAssumption DEF SchedTypeOK, SchedRecord

LEMMA FireTyped ==
  ASSUME SchedTypeOK, NEW r \in Fires
  PROVE  /\ fire[r].slot \in 0 .. MaxClock /\ fire[r].late \in BOOLEAN
         /\ fire[r].at \in {"off", "live", "lost", "done"} /\ fire[r].end \in {"open", "reply", "dog"}
         /\ fire[r].at = "off" => fire[r] = NoFire
         /\ fire[r].at # "off" => fire[r] \in FireRecord /\ fire[r].job \in JobNames /\ fire[r].inst \in Instances
<1>1. fire[r] \in FireRecord \cup {NoFire}
  BY DEF SchedTypeOK
<1>2. CASE fire[r] \in FireRecord
  BY <1>2, SchedAssumption DEF FireRecord
<1>3. CASE fire[r] = NoFire
  BY <1>3, SchedAssumption DEF NoFire
<1> QED
  BY <1>1, <1>2, <1>3

LEMMA OneInstance ==
  ASSUME SchedTypeOK, NEW i \in Instances, NEW e \in SchedRecord, Schedules(i, e)
  PROVE  /\ sched' \in [Instances -> SchedRecord] /\ sched'[i] = e
         /\ \A n \in Instances : n # i => sched'[n] = sched[n]
BY DEF Schedules, SchedTypeOK

LEMMA StartedTyped ==
  ASSUME NEW last \in [JobNames -> 0 .. MaxClock], NEW paused \in SUBSET JobNames,
         NEW jobs \in SUBSET JobNames, NEW missed \in SUBSET JobNames
  PROVE  /\ Started(last, paused, jobs, missed) \in SchedRecord
         /\ [Started(last, paused, jobs, missed) EXCEPT !.up = FALSE] \in SchedRecord
<1> DEFINE s == Started(last, paused, jobs, missed)
<1>1. [j \in JobNames |-> 0] \in [JobNames -> 0 .. MaxClock + 1] /\ 0 \in 0 .. MaxFires /\ 0 \in 0 .. MaxClock
  BY SchedAssumption
<1>2. s \in SchedRecord
  BY <1>1 DEF Started, SchedRecord
<1>3. [s EXCEPT !.up = FALSE] \in SchedRecord
  BY <1>2 DEF SchedRecord
<1> QED
  BY <1>2, <1>3

LEMMA SchedInits == SchedInit => SchedTypeOK /\ MarkInv /\ LiveInv /\ SlotInv
<1> SUFFICES ASSUME SchedInit PROVE SchedTypeOK /\ MarkInv /\ LiveInv /\ SlotInv
  OBVIOUS
<1>1. Started([j \in JobNames |-> 0], {}, JobNames, {}) \in SchedRecord
  <2>1. [j \in JobNames |-> 0] \in [JobNames -> 0 .. MaxClock]
    BY SchedAssumption
  <2> QED
    BY <2>1, StartedTyped
<1>2. SchedTypeOK
  BY <1>1, SchedAssumption DEF SchedInit, SchedTypeOK
<1>3. \A i \in Instances : /\ sched[i].running = {} /\ sched[i].pending = {} /\ sched[i].on = 0 /\ sched[i].up
                           /\ sched[i].todo = {} /\ sched[i].now = 0 /\ \A j \in JobNames : sched[i].nf[j] = 0
  BY DEF SchedInit, Started
<1>4. \A r \in Fires : fire[r] = NoFire
  BY DEF SchedInit
<1>5. MarkInv
  <2>1. 0 <= MaxConcurrent
    BY SchedAssumption
  <2> SUFFICES ASSUME NEW i \in Instances
               PROVE  /\ sched[i].running = {fire[p].job : p \in sched[i].pending}
                      /\ Cardinality(sched[i].running) <= MaxConcurrent
                      /\ sched[i].pending = {} /\ sched[i].on = 0 /\ sched[i].up
    BY DEF MarkInv
  <2>2. sched[i].running = {} /\ sched[i].pending = {}
    BY <1>3
  <2>3. sched[i].on = 0 /\ sched[i].up
    BY <1>3
  <2>4. Cardinality(sched[i].running) <= MaxConcurrent
    BY <2>1, <2>2, FS_EmptySet
  <2> QED
    BY <2>2, <2>3, <2>4
<1>6. LiveInv
  BY <1>4 DEF LiveInv, NoFire
<1>7. SlotInv
  BY <1>3, <1>4, SchedAssumption DEF SlotInv, MayCome, SlotFiredOnce, NoFire, SchedInit, Ahead, LeadsLast
<1> QED
  BY <1>2, <1>5, <1>6, <1>7
-----------------------------------------------------------------------------
\* What a step of instance i makes of its fields; the others keep theirs.
Moves(i, todo, now, on, nf, pending, running) ==
  /\ sched' \in [Instances -> SchedRecord]
  /\ \A n \in Instances : n # i => sched'[n] = sched[n]
  /\ sched'[i].todo = todo /\ sched'[i].now = now /\ sched'[i].on = on /\ sched'[i].nf = nf
  /\ sched'[i].pending = pending /\ sched'[i].running = running
StaysUp(i) == sched[i].up /\ sched'[i].up
\* Fire r is a new one of job j on instance i.
NewFire(r, i, j, slot) ==
  /\ fire[r].at = "off" /\ fire' \in [Fires -> FireRecord \cup {NoFire}]
  /\ \A x \in Fires : x # r => fire'[x] = fire[x]
  /\ fire'[r].job = j /\ fire'[r].inst = i /\ fire'[r].slot = slot
  /\ fire'[r].at = "live" /\ ~fire'[r].late /\ fire'[r].end = "open"
Overdue(i) == {p \in sched[i].pending : fire[p].late}

LEMMA KeysTyped ==
  ASSUME SchedTypeOK, NEW r \in Fires, fire[r].at # "off"
  PROVE  FireKey(r) \in JobNames \X (0 .. MaxFires) /\ FireKey(r)[1] = fire[r].job
BY FireTyped, SchedAssumption DEF FireKey, Fires

LEMMA TickBeginsEffect ==
  ASSUME SchedTypeOK, MarkInv, NEW i \in Instances, TickBegins(i)
  PROVE  /\ Moves(i, sched[i].jobs, clock, 0, sched[i].nf, sched[i].pending \ Overdue(i),
                   sched[i].running \ {fire[p].job : p \in Overdue(i)})
         /\ StaysUp(i) /\ FiresStay /\ \A r \in Fires : fire'[r].at = fire[r].at /\ fire'[r].late = fire[r].late
         /\ \A r \in Fires : fire'[r].end = "reply" => fire[r].end = "reply" 
         /\ \A r \in Fires : r \in Overdue(i) => fire'[r].end = "dog"
         /\ sched[i].todo = {} /\ sched[i].on = 0 /\ lease' = i /\ MayLead(i) /\ UNCHANGED <<clock, schedOps>>
<1> DEFINE over == Overdue(i)
           last == [j \in JobNames |-> IF \E p \in over : fire[p].job = j THEN clock ELSE sched[i].last[j]]
           keys == sched[i].expired \cup {FireKey(p) : p \in over}
           marks == sched[i].running \ {fire[p].job : p \in over}
           e == [sched[i] EXCEPT !.todo = sched[i].jobs, !.now = clock, !.pending = @ \ over, !.running = marks,
                                 !.expired = keys, !.last = last]
<1>a. sched' = [sched EXCEPT ![i] = e]
  BY DEF TickBegins, SweepWatchdogs, Overdue
<1>b. fire' = [r \in Fires |-> IF r \in over THEN [fire[r] EXCEPT !.end = "dog"] ELSE fire[r]]
  BY DEF TickBegins, SweepWatchdogs, Overdue
<1>1. /\ sched' = [sched EXCEPT ![i] = e]
      /\ fire' = [r \in Fires |-> IF r \in over THEN [fire[r] EXCEPT !.end = "dog"] ELSE fire[r]]
      /\ sched[i].up /\ sched[i].todo = {} /\ sched[i].on = 0 /\ lease' = i /\ MayLead(i) /\ UNCHANGED <<clock, schedOps>>
  BY <1>a, <1>b DEF TickBegins
<1>2. last \in [JobNames -> 0 .. MaxClock]
  BY SchedTyped, SchedAssumption DEF SchedTypeOK
<1>3. \A p \in over : p \in Fires /\ fire[p].at # "off"
  BY SchedTyped DEF MarkInv, Overdue
<1>4. keys \in SUBSET (JobNames \X (0 .. MaxFires))
  BY <1>3, KeysTyped, SchedTyped DEF SchedRecord
<1>5. marks \in SUBSET JobNames /\ sched[i].jobs \in SUBSET JobNames
  BY SchedTyped
<1>6. e \in SchedRecord
  <2> DEFINE left == sched[i].pending \ over
  <2>1. left \in SUBSET Fires /\ clock \in 0 .. MaxClock /\ sched[i] \in SchedRecord
    BY SchedTyped DEF SchedTypeOK
  <2> HIDE DEF last, keys, marks, left
  <2> QED
    BY <1>2, <1>4, <1>5, <2>1 DEF SchedRecord
<1>7. Moves(i, sched[i].jobs, clock, 0, sched[i].nf, sched[i].pending \ over, marks) /\ StaysUp(i)
  <2>1. sched' \in [Instances -> SchedRecord] /\ sched'[i] = e /\ \A n \in Instances : n # i => sched'[n] = sched[n]
    BY <1>1, <1>6, OneInstance DEF Schedules
  <2> HIDE DEF last, keys, marks, over
  <2> QED
    BY <2>1, <1>1, <1>6, SchedTyped DEF Moves, SchedRecord, StaysUp
<1>8. ASSUME NEW r \in Fires
      PROVE  /\ fire'[r] \in FireRecord \cup {NoFire} /\ fire'[r].job = fire[r].job /\ fire'[r].inst = fire[r].inst
             /\ fire'[r].slot = fire[r].slot /\ fire'[r].at = fire[r].at /\ fire'[r].late = fire[r].late
             /\ fire'[r].end = "reply" => fire[r].end = "reply"
             /\ r \in over => fire'[r].end = "dog"
  <2>1. CASE r \in over
    <3>1. fire[r] \in FireRecord /\ fire'[r] = [fire[r] EXCEPT !.end = "dog"]
      BY <1>1, <1>3, <2>1, FireTyped
    <3> QED
      BY <3>1 DEF FireRecord
  <2>2. CASE r \notin over
    BY <1>1, <2>2, SchedTyped
  <2> QED
    BY <2>1, <2>2
<1>9. FiresStay
  BY <1>1, <1>8 DEF FiresStay
<1> QED
  BY <1>1, <1>7, <1>8, <1>9

\* Fires take the lowest free number.
LEMMA FiredEffect ==
  ASSUME SchedTypeOK, MarkInv, NEW i \in Instances, NEW j \in JobNames, NEW slot \in 0 .. MaxClock,
         NEW s \in SchedRecord, s.pending = sched[i].pending, s.running = sched[i].running,
         MayFire(i, j), Fired(i, j, slot, s)
  PROVE  /\ (sched[i].up /\ s.up) => StaysUp(i)
         /\ \E r \in Fires :
              /\ NewFire(r, i, j, slot)
              /\ Moves(i, s.todo, s.now, IF slot # 0 THEN r ELSE s.on, s.nf, s.pending \cup {r}, s.running \cup {j})
<1> DEFINE free == {r \in Fires : fire[r].at = "off"}
           r == CHOOSE x \in free : \A y \in free : x <= y
           f == [NoFire EXCEPT !.job = j, !.inst = i, !.slot = slot, !.at = "live"]
           same == {p \in s.pending : j \in PersistJobs /\ fire[p].job = j}
           waits == (s.pending \ same) \cup {r}
           e == [s EXCEPT !.running = @ \cup {j}, !.pending = waits, !.on = IF slot # 0 THEN r ELSE @]
<1>1. free # {} /\ fire' = [fire EXCEPT ![r] = f] /\ sched' = [sched EXCEPT ![i] = e]
  BY DEF Fired
<1>2. r \in free
  <2>1. free \in SUBSET Nat
    BY SchedAssumption DEF Fires
  <2>2. \E m \in free : \A n \in free : m <= n
    BY <1>1, <2>1, LeastOfSet
  <2> HIDE DEF free
  <2> QED
    BY <2>2
<1> HIDE DEF r
<1>3. r \in Fires /\ fire[r].at = "off" /\ r \in 0 .. MaxFires
  BY <1>2, SchedAssumption DEF Fires
<1>4. f \in FireRecord /\ f.job = j /\ f.inst = i /\ f.slot = slot /\ f.at = "live" /\ ~f.late /\ f.end = "open"
  BY DEF NoFire, FireRecord
<1>5. NewFire(r, i, j, slot)
  <2>1. fire \in [Fires -> FireRecord \cup {NoFire}]
    BY DEF SchedTypeOK
  <2> HIDE DEF f
  <2> QED
    BY <1>1, <1>3, <1>4, <2>1 DEF NewFire
<1>6. same = {}
  BY DEF MarkInv, MayFire
<1>7. waits = s.pending \cup {r} /\ waits \in SUBSET Fires
  BY <1>3, <1>6, SchedTyped
<1>8. e \in SchedRecord /\ e.todo = s.todo /\ e.now = s.now /\ e.nf = s.nf /\ e.pending = waits
      /\ e.on = (IF slot # 0 THEN r ELSE s.on) /\ e.running = s.running \cup {j} /\ e.up = s.up
  <2> HIDE DEF waits
  <2> QED
    BY <1>3, <1>7 DEF SchedRecord
<1>9. sched' \in [Instances -> SchedRecord] /\ sched'[i] = e /\ \A n \in Instances : n # i => sched'[n] = sched[n]
  BY <1>1, <1>8, OneInstance DEF Schedules
<1> HIDE DEF e, waits
<1> QED
  BY <1>3, <1>5, <1>7, <1>8, <1>9 DEF Moves, StaysUp

\* A record with other next fires, its round and its fires as they were
Plans(e, s, f) ==
  /\ e \in SchedRecord /\ e.nf = f
  /\ e.up = s.up /\ e.todo = s.todo /\ e.now = s.now /\ e.pending = s.pending /\ e.running = s.running

LEMMA NextFireTyped ==
  ASSUME NEW s \in SchedRecord, NEW j \in JobNames, NEW v \in 0 .. MaxClock + 1
  PROVE  Plans([s EXCEPT !.nf[j] = v], s, [s.nf EXCEPT ![j] = v]) /\ [s EXCEPT !.nf[j] = v].on = s.on
<1> DEFINE f == [s.nf EXCEPT ![j] = v]
<1>1. s.nf \in [JobNames -> 0 .. MaxClock + 1] /\ s.last \in [JobNames -> 0 .. MaxClock] /\ 0 \in 0 .. MaxFires
  BY SchedAssumption DEF SchedRecord
<1>2. f \in [JobNames -> 0 .. MaxClock + 1]
  BY <1>1
<1>3. Plans([s EXCEPT !.nf = f], s, f) /\ [s EXCEPT !.nf = f].on = s.on
  <2> HIDE DEF f
  <2> QED
    BY <1>1, <1>2 DEF SchedRecord, Plans
<1> QED
  BY <1>3

LEMMA ResumeTyped ==
  ASSUME NEW s \in SchedRecord, NEW j \in JobNames, NEW v \in 0 .. MaxClock + 1
  PROVE  Plans([s EXCEPT !.on = 0, !.nf[j] = v], s, [s.nf EXCEPT ![j] = v]) /\ [s EXCEPT !.on = 0, !.nf[j] = v].on = 0
<1> DEFINE f == [s.nf EXCEPT ![j] = v]
<1>1. s.nf \in [JobNames -> 0 .. MaxClock + 1] /\ s.last \in [JobNames -> 0 .. MaxClock] /\ 0 \in 0 .. MaxFires
  BY SchedAssumption DEF SchedRecord
<1>2. f \in [JobNames -> 0 .. MaxClock + 1]
  BY <1>1
<1>3. Plans([s EXCEPT !.on = 0, !.nf = f], s, f) /\ [s EXCEPT !.on = 0, !.nf = f].on = 0
  <2> HIDE DEF f
  <2> QED
    BY <1>1, <1>2 DEF SchedRecord, Plans
<1> QED
  BY <1>3

\* Where a round does not fire job j it sets its next fire, if at all, to one that is to come.
NextFire(i, j, v) ==
  \/ v = 0
  \/ v = sched[i].nf[j]
  \/ v = sched[i].now + 1
  \/ v = clock + 1

LEMMA TryFireEffect ==
  ASSUME SchedTypeOK, MarkInv, NEW i \in Instances, NEW j \in JobNames, NEW slot \in 0 .. MaxClock,
         NEW s \in SchedRecord, s.pending = sched[i].pending, s.running = sched[i].running,
         sched[i].up, s.up, TryFire(i, j, slot, s)
  PROVE  /\ StaysUp(i)
         /\ \/ /\ MayFire(i, j)
               /\ \E r \in Fires :
                    /\ NewFire(r, i, j, slot)
                    /\ Moves(i, s.todo, s.now, IF slot # 0 THEN r ELSE s.on, s.nf,
                             s.pending \cup {r}, s.running \cup {j})
            \/ /\ fire' = fire
               /\ Moves(i, s.todo, s.now, s.on, [s.nf EXCEPT ![j] = IF slot = 0 THEN s.nf[j] ELSE clock + 1],
                        s.pending, s.running)
<1>1. CASE MayFire(i, j)
  BY <1>1, FiredEffect DEF TryFire
<1>2. CASE ~MayFire(i, j)
  <2> DEFINE v == IF slot = 0 THEN s.nf[j] ELSE clock + 1
             e == [s EXCEPT !.last[j] = clock, !.nf[j] = v]
  <2>1. sched' = [sched EXCEPT ![i] = e] /\ fire' = fire
    BY <1>2 DEF TryFire
  <2>2. v \in 0 .. MaxClock + 1 /\ clock \in 0 .. MaxClock
    BY SchedTyped DEF SchedTypeOK, SchedRecord
  <2> DEFINE f == [s.nf EXCEPT ![j] = v]
             l == [s.last EXCEPT ![j] = clock]
  <2>a. f \in [JobNames -> 0 .. MaxClock + 1] /\ l \in [JobNames -> 0 .. MaxClock]
    BY <2>2 DEF SchedRecord
  <2>b. Plans([s EXCEPT !.last = l, !.nf = f], s, f) /\ [s EXCEPT !.last = l, !.nf = f].on = s.on
    <3> HIDE DEF f, l
    <3> QED
      BY <2>a DEF SchedRecord, Plans
  <2>3. Plans(e, s, [s.nf EXCEPT ![j] = v]) /\ e.on = s.on
    BY <2>b
  <2>5. sched' \in [Instances -> SchedRecord] /\ sched'[i] = e /\ \A n \in Instances : n # i => sched'[n] = sched[n]
    BY <2>1, <2>3, OneInstance DEF Schedules, Plans
  <2> HIDE DEF e, v
  <2>6. Moves(i, s.todo, s.now, s.on, [s.nf EXCEPT ![j] = v], s.pending, s.running) /\ StaysUp(i)
    BY <2>3, <2>5 DEF Moves, StaysUp, Plans
  <2> QED
    BY <2>1, <2>6 DEF v
<1> QED
  BY <1>1, <1>2

LEMMA TickJobEffect ==
  ASSUME SchedTypeOK, MarkInv, NEW i \in Instances, TickJob(i)
  PROVE  /\ StaysUp(i) /\ sched[i].on = 0 /\ UNCHANGED <<clock, lease, schedOps>>
         /\ \E j \in sched[i].todo :
              \/ /\ MayFire(i, j) /\ sched[i].nf[j] # 0 /\ sched[i].nf[j] <= sched[i].now
                 /\ \E r \in Fires :
                      /\ NewFire(r, i, j, sched[i].nf[j])
                      /\ Moves(i, sched[i].todo \ {j}, sched[i].now, r, sched[i].nf,
                               sched[i].pending \cup {r}, sched[i].running \cup {j})
              \/ /\ fire' = fire
                 /\ \E v \in 0 .. MaxClock + 1 :
                      /\ NextFire(i, j, v)
                      /\ Moves(i, sched[i].todo \ {j}, sched[i].now, 0, [sched[i].nf EXCEPT ![j] = v],
                               sched[i].pending, sched[i].running)
<1> DEFINE s == sched[i]
           j == CHOOSE x \in s.todo : TRUE
           rest == [s EXCEPT !.todo = @ \ {j}]
           v == IF ~JobActive(s, j) THEN 0 ELSE IF s.nf[j] = 0 THEN s.now + 1 ELSE s.nf[j]
<1>1. s.up /\ s.on = 0 /\ s.todo # {} /\ UNCHANGED <<clock, lease, schedOps>>
  BY DEF TickJob
<1>2. j \in s.todo /\ j \in JobNames /\ s \in SchedRecord
  BY <1>1, SchedTyped
<1>3. \/ JobActive(s, j) /\ s.nf[j] # 0 /\ s.now >= s.nf[j] /\ TryFire(i, j, s.nf[j], rest)
      \/ sched' = [sched EXCEPT ![i] = [rest EXCEPT !.nf[j] = IF ~JobActive(s, j) THEN 0 ELSE IF @ = 0 THEN s.now + 1 ELSE @]]
         /\ fire' = fire
  BY DEF TickJob
<1> HIDE DEF j
<1>4. /\ rest \in SchedRecord /\ rest.pending = s.pending /\ rest.running = s.running /\ rest.todo = s.todo \ {j}
      /\ rest.now = s.now /\ rest.on = s.on /\ rest.nf = s.nf /\ rest.up = s.up
  <2> DEFINE t == s.todo \ {j}
  <2>1. t \in SUBSET JobNames
    BY <1>2, SchedTyped
  <2>2. [s EXCEPT !.todo = t] \in SchedRecord /\ [s EXCEPT !.todo = t].todo = t
    <3> HIDE DEF t
    <3> QED
      BY <1>2, <2>1 DEF SchedRecord
  <2> QED
    BY <1>2, <2>2 DEF SchedRecord
<1> HIDE DEF rest
<1>5. CASE JobActive(s, j) /\ s.nf[j] # 0 /\ s.now >= s.nf[j] /\ TryFire(i, j, s.nf[j], rest)
  <2>1. s.nf[j] \in 0 .. MaxClock /\ s.nf[j] <= s.now /\ s.nf[j] # 0 /\ clock + 1 \in 0 .. MaxClock + 1
    BY <1>2, <1>5, SchedTyped
  <2> DEFINE n == s.nf[j]
  <2>a. n \in 0 .. MaxClock /\ n # 0 /\ TryFire(i, j, n, rest)
    BY <1>5, <2>1
  <2>b. /\ StaysUp(i)
        /\ \/ /\ MayFire(i, j)
              /\ \E r \in Fires :
                   /\ NewFire(r, i, j, n)
                   /\ Moves(i, rest.todo, rest.now, IF n # 0 THEN r ELSE rest.on, rest.nf,
                            rest.pending \cup {r}, rest.running \cup {j})
           \/ /\ fire' = fire
              /\ Moves(i, rest.todo, rest.now, rest.on, [rest.nf EXCEPT ![j] = IF n = 0 THEN rest.nf[j] ELSE clock + 1],
                       rest.pending, rest.running)
    <3> HIDE DEF n
    <3> QED
      BY <1>1, <1>2, <1>4, <2>a, TryFireEffect
  <2>2. \/ /\ MayFire(i, j)
           /\ \E r \in Fires :
                /\ NewFire(r, i, j, s.nf[j])
                /\ Moves(i, rest.todo, rest.now, r, rest.nf, rest.pending \cup {r}, rest.running \cup {j})
        \/ /\ fire' = fire
           /\ Moves(i, rest.todo, rest.now, rest.on, [rest.nf EXCEPT ![j] = clock + 1], rest.pending, rest.running)
    BY <2>a, <2>b
  <2>3. StaysUp(i)
    BY <2>b
  <2>4. NextFire(i, j, clock + 1)
    BY DEF NextFire
  <2> QED
    BY <1>1, <1>2, <1>4, <2>1, <2>2, <2>3, <2>4
<1>6. CASE sched' = [sched EXCEPT ![i] = [rest EXCEPT !.nf[j] = IF ~JobActive(s, j) THEN 0 ELSE IF @ = 0 THEN s.now + 1 ELSE @]]
           /\ fire' = fire
  <2> DEFINE e == [rest EXCEPT !.nf[j] = v]
  <2>1. sched' = [sched EXCEPT ![i] = e]
    BY <1>4, <1>6
  <2>2. v \in 0 .. MaxClock + 1 /\ NextFire(i, j, v)
    BY <1>2, SchedTyped DEF NextFire
  <2>3. Plans(e, rest, [s.nf EXCEPT ![j] = v]) /\ e.on = rest.on
    <3> HIDE DEF v
    <3> QED
      BY <1>2, <1>4, <2>2, NextFireTyped
  <2>5. sched' \in [Instances -> SchedRecord] /\ sched'[i] = e /\ \A n \in Instances : n # i => sched'[n] = sched[n]
    BY <2>1, <2>3, OneInstance DEF Schedules, Plans
  <2> HIDE DEF e, v
  <2>6. Moves(i, s.todo \ {j}, s.now, 0, [s.nf EXCEPT ![j] = v], s.pending, s.running) /\ StaysUp(i)
    BY <1>1, <1>4, <2>3, <2>5 DEF Moves, StaysUp, Plans
  <2> QED
    BY <1>1, <1>2, <1>6, <2>2, <2>6
<1> QED
  BY <1>3, <1>5, <1>6
-----------------------------------------------------------------------------
LEMMA TickResumesEffect ==
  ASSUME SchedTypeOK, MarkInv, NEW i \in Instances, TickResumes(i)
  PROVE  /\ sched[i].on \in Fires /\ fire[sched[i].on].job \in JobNames
         /\ Moves(i, sched[i].todo, sched[i].now, 0, [sched[i].nf EXCEPT ![fire[sched[i].on].job] = clock + 1],
                  sched[i].pending, sched[i].running)
         /\ StaysUp(i) /\ UNCHANGED <<clock, lease, fire, schedOps>>
<1> DEFINE s == sched[i]
           j == fire[s.on].job
           v == clock + 1
           e == [s EXCEPT !.on = 0, !.nf[j] = v]
<1>1. s.up /\ s.on # 0 /\ sched' = [sched EXCEPT ![i] = e] /\ UNCHANGED <<clock, lease, fire, schedOps>>
  BY DEF TickResumes
<1>2. s \in SchedRecord /\ s.on \in Fires /\ v \in 0 .. MaxClock + 1
  BY <1>1, SchedTyped, SchedAssumption DEF Fires
<1>3. j \in JobNames
  BY <1>1, <1>2, FireTyped DEF MarkInv
<1>4. Plans(e, s, [s.nf EXCEPT ![j] = v]) /\ e.on = 0
  <2> HIDE DEF v, j, s
  <2> QED
    BY <1>2, <1>3, ResumeTyped
<1>5. sched' \in [Instances -> SchedRecord] /\ sched'[i] = e /\ \A n \in Instances : n # i => sched'[n] = sched[n]
  BY <1>1, <1>4, OneInstance DEF Schedules, Plans
<1> HIDE DEF e
<1>6. Moves(i, s.todo, s.now, 0, [s.nf EXCEPT ![j] = v], s.pending, s.running) /\ StaysUp(i)
  BY <1>1, <1>4, <1>5 DEF Moves, StaysUp, Plans
<1> QED
  BY <1>1, <1>2, <1>3, <1>6

LEMMA CmdPauseEffect ==
  ASSUME SchedTypeOK, NEW i \in Instances, NEW j \in JobNames, NEW pause \in BOOLEAN, CmdPause(i, j, pause)
  PROVE  /\ Moves(i, sched[i].todo, sched[i].now, sched[i].on, [sched[i].nf EXCEPT ![j] = 0],
                  sched[i].pending, sched[i].running)
         /\ StaysUp(i) /\ UNCHANGED <<clock, lease, fire>> /\ SchedOp
<1> DEFINE s == sched[i]
           p == IF pause THEN s.paused \cup {j} ELSE s.paused \ {j}
           e == [s EXCEPT !.paused = p, !.nf[j] = 0]
<1>1. s.up /\ SchedOp /\ sched' = [sched EXCEPT ![i] = e] /\ UNCHANGED <<clock, lease, fire>>
  BY DEF CmdPause, LoopFree
<1>2. s \in SchedRecord /\ p \in SUBSET JobNames /\ 0 \in 0 .. MaxClock + 1
  BY SchedTyped DEF SchedRecord
<1> DEFINE f == [s.nf EXCEPT ![j] = 0]
<1>3. f \in [JobNames -> 0 .. MaxClock + 1]
  BY <1>2 DEF SchedRecord
<1>a. Plans([s EXCEPT !.paused = p, !.nf = f], s, f) /\ [s EXCEPT !.paused = p, !.nf = f].on = s.on
  <2> HIDE DEF f, p
  <2> QED
    BY <1>2, <1>3 DEF SchedRecord, Plans
<1>4. Plans(e, s, [s.nf EXCEPT ![j] = 0]) /\ e.on = s.on
  BY <1>a
<1>5. sched' \in [Instances -> SchedRecord] /\ sched'[i] = e /\ \A n \in Instances : n # i => sched'[n] = sched[n]
  BY <1>1, <1>4, OneInstance DEF Schedules, Plans
<1> HIDE DEF e
<1>6. Moves(i, s.todo, s.now, s.on, [s.nf EXCEPT ![j] = 0], s.pending, s.running) /\ StaysUp(i)
  BY <1>1, <1>4, <1>5 DEF Moves, StaysUp, Plans
<1> QED
  BY <1>1, <1>6

LEMMA WriteJobsEffect ==
  ASSUME SchedTypeOK, NEW i \in Instances, NEW js \in SUBSET JobNames, WriteJobs(i, js)
  PROVE  /\ Moves(i, sched[i].todo, sched[i].now, sched[i].on, [j \in JobNames |-> 0], sched[i].pending, sched[i].running)
         /\ StaysUp(i) /\ UNCHANGED <<clock, lease, fire>> /\ SchedOp
<1> DEFINE s == sched[i]
           f == [j \in JobNames |-> 0]
           e == [s EXCEPT !.jobs = js, !.nf = f]
<1>1. s.up /\ SchedOp /\ sched' = [sched EXCEPT ![i] = e] /\ UNCHANGED <<clock, lease, fire>>
  BY DEF WriteJobs, LoopFree
<1>2. s \in SchedRecord /\ f \in [JobNames -> 0 .. MaxClock + 1]
  BY SchedTyped
<1>4. Plans(e, s, f) /\ e.on = s.on
  <2> HIDE DEF f
  <2> QED
    BY <1>2 DEF Plans, SchedRecord
<1>5. sched' \in [Instances -> SchedRecord] /\ sched'[i] = e /\ \A n \in Instances : n # i => sched'[n] = sched[n]
  BY <1>1, <1>4, OneInstance DEF Schedules, Plans
<1> HIDE DEF e
<1>6. Moves(i, s.todo, s.now, s.on, f, s.pending, s.running) /\ StaysUp(i)
  BY <1>1, <1>4, <1>5 DEF Moves, StaysUp, Plans
<1> QED
  BY <1>1, <1>6

LEMMA InstanceStartsEffect ==
  ASSUME SchedTypeOK, NEW i \in Instances, InstanceStarts(i)
  PROVE  /\ Moves(i, {}, 0, 0, [j \in JobNames |-> 0], {}, {})
         /\ ~sched[i].up /\ sched'[i].up /\ UNCHANGED <<clock, lease, fire, schedOps>>
<1> DEFINE s == sched[i]
           missed == {j \in JobNames : JobActive(s, j) /\ s.last[j] # 0 /\ clock > s.last[j]}
           e == Started(s.last, s.paused, s.jobs, missed)
<1>1. ~s.up /\ sched' = [sched EXCEPT ![i] = e] /\ UNCHANGED <<clock, lease, fire, schedOps>>
  BY DEF InstanceStarts
<1>2. s.last \in [JobNames -> 0 .. MaxClock] /\ s.paused \in SUBSET JobNames /\ s.jobs \in SUBSET JobNames
      /\ missed \in SUBSET JobNames
  BY SchedTyped DEF SchedRecord
<1>3. e \in SchedRecord
  <2> HIDE DEF missed
  <2> QED
    BY <1>2, StartedTyped
<1>4. e.up /\ e.todo = {} /\ e.now = 0 /\ e.on = 0 /\ e.nf = [j \in JobNames |-> 0] /\ e.pending = {} /\ e.running = {}
  BY DEF Started
<1>5. sched' \in [Instances -> SchedRecord] /\ sched'[i] = e /\ \A n \in Instances : n # i => sched'[n] = sched[n]
  BY <1>1, <1>3, OneInstance DEF Schedules
<1> HIDE DEF e
<1> QED
  BY <1>1, <1>4, <1>5 DEF Moves

LEMMA InstanceStopsEffect ==
  ASSUME SchedTypeOK, NEW i \in Instances, InstanceStops(i)
  PROVE  /\ Moves(i, {}, 0, 0, [j \in JobNames |-> 0], {}, {})
         /\ ~sched'[i].up /\ UNCHANGED <<clock, lease>> /\ SchedOp
         /\ FiresStay
         /\ \A r \in Fires : /\ fire'[r].late = fire[r].late /\ fire'[r].end = fire[r].end
                             /\ fire'[r].at = IF fire[r].inst = i /\ fire[r].at = "live" THEN "lost" ELSE fire[r].at
<1> DEFINE s == sched[i]
           b == Started(s.last, s.paused, s.jobs, {})
           e == [b EXCEPT !.up = FALSE]
<1>1. /\ SchedOp /\ sched' = [sched EXCEPT ![i] = e] /\ UNCHANGED <<clock, lease>>
      /\ fire' = [r \in Fires |-> IF fire[r].inst = i /\ fire[r].at = "live"
                                  THEN [fire[r] EXCEPT !.at = "lost"] ELSE fire[r]]
  BY DEF InstanceStops
<1>2. s.last \in [JobNames -> 0 .. MaxClock] /\ s.paused \in SUBSET JobNames /\ s.jobs \in SUBSET JobNames
  BY SchedTyped DEF SchedRecord
<1>3. b \in SchedRecord /\ e \in SchedRecord
  BY <1>2, StartedTyped
<1>4. b.todo = {} /\ b.now = 0 /\ b.on = 0 /\ b.nf = [j \in JobNames |-> 0] /\ b.pending = {} /\ b.running = {}
  BY DEF Started
<1>5. sched' \in [Instances -> SchedRecord] /\ sched'[i] = e /\ \A n \in Instances : n # i => sched'[n] = sched[n]
  BY <1>1, <1>3, OneInstance DEF Schedules
<1>6. ~e.up /\ e.todo = {} /\ e.now = 0 /\ e.on = 0 /\ e.nf = [j \in JobNames |-> 0] /\ e.pending = {} /\ e.running = {}
  <2> HIDE DEF b
  <2> QED
    BY <1>3, <1>4 DEF SchedRecord
<1>7. ASSUME NEW r \in Fires
      PROVE  /\ fire'[r] \in FireRecord \cup {NoFire} /\ fire'[r].job = fire[r].job /\ fire'[r].inst = fire[r].inst
             /\ fire'[r].slot = fire[r].slot /\ fire'[r].late = fire[r].late /\ fire'[r].end = fire[r].end
             /\ fire'[r].at = IF fire[r].inst = i /\ fire[r].at = "live" THEN "lost" ELSE fire[r].at
  <2>1. CASE fire[r].inst = i /\ fire[r].at = "live"
    <3>1. fire[r] \in FireRecord /\ fire'[r] = [fire[r] EXCEPT !.at = "lost"]
      BY <1>1, <2>1, FireTyped
    <3> QED
      BY <2>1, <3>1 DEF FireRecord
  <2>2. CASE ~(fire[r].inst = i /\ fire[r].at = "live")
    BY <1>1, <2>2, SchedTyped
  <2> QED
    BY <2>1, <2>2
<1>8. FiresStay
  BY <1>1, <1>7 DEF FiresStay
<1> HIDE DEF e
<1> QED
  BY <1>1, <1>5, <1>6, <1>7, <1>8 DEF Moves

\* The reply of fire r ends the fires under its key, which by the marks are of its job.
LEMMA ReplyArrivesEffect ==
  ASSUME SchedTypeOK, MarkInv, NEW r \in Fires, ReplyArrives(r)
  PROVE  LET i == fire[r].inst
             own == PendingFor(i, r)
         IN /\ i \in Instances /\ fire[r].at = "live" /\ own \subseteq sched[i].pending
            /\ Moves(i, sched[i].todo, sched[i].now, sched[i].on, sched[i].nf, sched[i].pending \ own,
                     sched[i].running \ {fire[p].job : p \in own})
            /\ StaysUp(i) /\ FiresStay /\ UNCHANGED <<clock, lease, schedOps>>
            /\ \A x \in Fires : /\ fire'[x].late = fire[x].late
                                /\ fire'[x].at = IF x = r THEN "done" ELSE fire[x].at
                                /\ fire'[x].end = IF x \in own THEN "reply" ELSE fire[x].end
<1> DEFINE i == fire[r].inst
           s == sched[i]
           own == PendingFor(i, r)
           j == fire[r].job
           marks == s.running \ {j}
           left == s.pending \ own
           l == [s.last EXCEPT ![j] = clock]
           e == [s EXCEPT !.pending = left, !.running = marks, !.last = l]
           keys == s.expired \ {FireKey(r)}
           g == [s EXCEPT !.expired = keys]
<1>1. /\ fire[r].at = "live" /\ s.up /\ UNCHANGED <<clock, lease, schedOps>>
      /\ sched' = [sched EXCEPT ![i] = IF own # {} THEN e ELSE g]
  BY DEF ReplyArrives, OnReply, LoopFree
<1>2. fire' = [x \in Fires |-> [fire[x] EXCEPT !.at = IF x = r THEN "done" ELSE @, !.end = IF x \in own THEN "reply" ELSE @]]
  BY DEF ReplyArrives, OnReply
<1>3. i \in Instances /\ j \in JobNames /\ fire[r].at # "off"
  BY <1>1, FireTyped
<1>4. s \in SchedRecord /\ clock \in 0 .. MaxClock /\ own \subseteq s.pending
  BY <1>3, SchedTyped DEF SchedTypeOK, PendingFor
<1>5. \A p \in own : p \in Fires /\ fire[p].at # "off" /\ fire[p].job = j
  <2> TAKE p \in own
  <2>1. p \in Fires /\ fire[p].at # "off" /\ FireKey(p) = FireKey(r)
    BY <1>3, SchedTyped DEF MarkInv, PendingFor
  <2> QED
    BY <1>3, <2>1, KeysTyped
<1>6. marks \in SUBSET JobNames /\ left \in SUBSET Fires /\ l \in [JobNames -> 0 .. MaxClock]
      /\ keys \in SUBSET (JobNames \X (0 .. MaxFires))
  BY <1>3, <1>4 DEF SchedRecord
<1>7. e \in SchedRecord /\ e.up = s.up /\ e.todo = s.todo /\ e.now = s.now /\ e.on = s.on /\ e.nf = s.nf
      /\ e.pending = left /\ e.running = marks
  <2> HIDE DEF marks, left, l, s
  <2> QED
    BY <1>4, <1>6 DEF SchedRecord
<1>8. g \in SchedRecord /\ g.up = s.up /\ g.todo = s.todo /\ g.now = s.now /\ g.on = s.on /\ g.nf = s.nf
      /\ g.pending = s.pending /\ g.running = s.running
  <2> HIDE DEF keys, s
  <2> QED
    BY <1>4, <1>6 DEF SchedRecord
<1>9. Moves(i, s.todo, s.now, s.on, s.nf, left, s.running \ {fire[p].job : p \in own}) /\ StaysUp(i)
  <2>1. CASE own # {}
    <3>1. sched' = [sched EXCEPT ![i] = e]
      BY <1>1, <2>1
    <3>2. sched' \in [Instances -> SchedRecord] /\ sched'[i] = e /\ \A n \in Instances : n # i => sched'[n] = sched[n]
      BY <3>1, <1>3, <1>7, OneInstance DEF Schedules
    <3>3. marks = s.running \ {fire[p].job : p \in own}
      BY <2>1, <1>5
    <3> HIDE DEF e, marks, own, left
    <3> QED
      BY <1>1, <1>7, <3>2, <3>3 DEF Moves, StaysUp
  <2>2. CASE own = {}
    <3>1. sched' = [sched EXCEPT ![i] = g]
      BY <1>1, <2>2
    <3>2. sched' \in [Instances -> SchedRecord] /\ sched'[i] = g /\ \A n \in Instances : n # i => sched'[n] = sched[n]
      BY <3>1, <1>3, <1>8, OneInstance DEF Schedules
    <3>3. s.running = s.running \ {fire[p].job : p \in own} /\ left = s.pending
      BY <2>2
    <3> HIDE DEF g, own, left
    <3> QED
      BY <1>1, <1>8, <3>2, <3>3 DEF Moves, StaysUp
  <2> QED
    BY <2>1, <2>2
<1>10. ASSUME NEW x \in Fires
       PROVE  /\ fire'[x] \in FireRecord \cup {NoFire} /\ fire'[x].job = fire[x].job /\ fire'[x].inst = fire[x].inst
              /\ fire'[x].slot = fire[x].slot /\ fire'[x].late = fire[x].late
              /\ fire'[x].at = (IF x = r THEN "done" ELSE fire[x].at)
              /\ fire'[x].end = (IF x \in own THEN "reply" ELSE fire[x].end)
  <2> DEFINE a == IF x = r THEN "done" ELSE fire[x].at
             d == IF x \in own THEN "reply" ELSE fire[x].end
  <2>1. fire'[x] = [fire[x] EXCEPT !.at = a, !.end = d]
    BY <1>2
  <2>2. CASE fire[x].at # "off"
    <3>1. fire[x] \in FireRecord /\ a \in {"live", "lost", "done"} /\ d \in {"open", "reply", "dog"}
      BY <2>2, FireTyped
    <3>2. fire'[x] \in FireRecord /\ fire'[x].job = fire[x].job /\ fire'[x].inst = fire[x].inst
          /\ fire'[x].slot = fire[x].slot /\ fire'[x].late = fire[x].late /\ fire'[x].at = a /\ fire'[x].end = d
      <4> HIDE DEF a, d
      <4> QED
        BY <2>1, <3>1 DEF FireRecord
    <3> QED
      BY <3>2
  <2>3. CASE fire[x].at = "off"
    <3>1. fire[x] = NoFire /\ x # r /\ x \notin own
      BY <1>3, <1>5, <2>3, FireTyped
    <3>2. fire'[x] = NoFire
      BY <2>1, <3>1 DEF NoFire
    <3> QED
      BY <2>3, <3>1, <3>2
  <2> QED
    BY <2>2, <2>3
<1>11. FiresStay
  <2>1. fire' \in [Fires -> FireRecord \cup {NoFire}]
    BY <1>2, <1>10
  <2> QED
    BY <2>1, <1>3, <1>10 DEF FiresStay
<1>12. \A x \in Fires : /\ fire'[x].late = fire[x].late
                        /\ fire'[x].at = IF x = r THEN "done" ELSE fire[x].at
                        /\ fire'[x].end = IF x \in own THEN "reply" ELSE fire[x].end
  BY <1>10
<1>13. /\ i \in Instances /\ fire[r].at = "live" /\ own \subseteq s.pending /\ StaysUp(i) /\ FiresStay
       /\ UNCHANGED <<clock, lease, schedOps>>
  BY <1>1, <1>3, <1>4, <1>9, <1>11
<1> QED
  BY <1>9, <1>12, <1>13, Zenon

LEMMA ReplyLostEffect ==
  ASSUME SchedTypeOK, NEW r \in Fires, ReplyLost(r) \/ DeadlinePasses(r)
  PROVE  /\ FiresStay /\ UNCHANGED <<clock, lease, sched, schedOps>>
         /\ \A x \in Fires : x # r => fire'[x] = fire[x]
         /\ fire'[r].end = fire[r].end
         /\ \/ fire[r].at = "live" /\ fire'[r].at = "lost"
            \/ fire'[r].at = fire[r].at /\ (PunctualRuns => fire[r].at = "lost")
<1>1. CASE ReplyLost(r)
  <2>1. fire[r].at = "live" /\ fire' = [fire EXCEPT ![r] = [fire[r] EXCEPT !.at = "lost"]]
        /\ UNCHANGED <<clock, lease, sched, schedOps>>
    BY <1>1 DEF ReplyLost
  <2> DEFINE f == [fire[r] EXCEPT !.at = "lost"]
  <2>2. f \in FireRecord /\ f.job = fire[r].job /\ f.inst = fire[r].inst /\ f.slot = fire[r].slot
        /\ f.at = "lost" /\ f.end = fire[r].end
    BY <2>1, FireTyped DEF FireRecord
  <2> HIDE DEF f
  <2>3. fire' \in [Fires -> FireRecord \cup {NoFire}] /\ fire'[r] = f /\ \A x \in Fires : x # r => fire'[x] = fire[x]
    BY <2>1, <2>2 DEF SchedTypeOK, f
  <2> QED
    BY <2>1, <2>2, <2>3 DEF FiresStay
<1>2. CASE DeadlinePasses(r)
  <2>1. fire[r].at # "off" /\ fire' = [fire EXCEPT ![r] = [fire[r] EXCEPT !.late = TRUE]]
        /\ (PunctualRuns => fire[r].at = "lost") /\ UNCHANGED <<clock, lease, sched, schedOps>>
    BY <1>2 DEF DeadlinePasses
  <2> DEFINE f == [fire[r] EXCEPT !.late = TRUE]
  <2>2. f \in FireRecord /\ f.job = fire[r].job /\ f.inst = fire[r].inst /\ f.slot = fire[r].slot
        /\ f.at = fire[r].at /\ f.end = fire[r].end
    BY <2>1, FireTyped DEF FireRecord
  <2> HIDE DEF f
  <2>3. fire' \in [Fires -> FireRecord \cup {NoFire}] /\ fire'[r] = f /\ \A x \in Fires : x # r => fire'[x] = fire[x]
    BY <2>1, <2>2 DEF SchedTypeOK, f
  <2> QED
    BY <2>1, <2>2, <2>3 DEF FiresStay
<1> QED
  BY <1>1, <1>2

\* /cron run and a misfire task leave the round and the next fires alone.
LEMMA CommandEffect ==
  ASSUME SchedTypeOK, MarkInv, NEW i \in Instances, NEW j \in JobNames, CmdRun(i, j) \/ MisfireRuns(i, j)
  PROVE  /\ StaysUp(i) /\ UNCHANGED <<clock, lease>> /\ (SchedOp \/ UNCHANGED schedOps)
         /\ \/ /\ MayFire(i, j)
               /\ \E r \in Fires :
                    /\ NewFire(r, i, j, 0)
                    /\ Moves(i, sched[i].todo, sched[i].now, sched[i].on, sched[i].nf,
                             sched[i].pending \cup {r}, sched[i].running \cup {j})
            \/ /\ fire' = fire
               /\ Moves(i, sched[i].todo, sched[i].now, sched[i].on, sched[i].nf, sched[i].pending, sched[i].running)
<1> DEFINE s == sched[i]
           slot == 0
<1>1. s \in SchedRecord /\ slot \in 0 .. MaxClock
  BY SchedTyped, SchedAssumption
<1>2. CASE CmdRun(i, j)
  <2>1. s.up /\ SchedOp /\ MayFire(i, j) /\ Fired(i, j, slot, s) /\ UNCHANGED <<clock, lease>>
    BY <1>2 DEF CmdRun, LoopFree
  <2>2. /\ StaysUp(i)
        /\ \E r \in Fires :
              /\ NewFire(r, i, j, slot)
              /\ Moves(i, s.todo, s.now, IF slot # 0 THEN r ELSE s.on, s.nf, s.pending \cup {r}, s.running \cup {j})
    <3> HIDE DEF slot
    <3> QED
      BY <1>1, <2>1, FiredEffect
  <2> QED
    BY <2>1, <2>2
<1>3. CASE MisfireRuns(i, j)
  <2> DEFINE m == s.missed \ {j}
             t == [s EXCEPT !.missed = m]
  <2>1. s.up /\ TryFire(i, j, slot, t) /\ UNCHANGED <<clock, lease, schedOps>>
    BY <1>3 DEF MisfireRuns, LoopFree
  <2>2. m \in SUBSET JobNames
    BY <1>1 DEF SchedRecord
  <2>3. t \in SchedRecord /\ t.up = s.up /\ t.todo = s.todo /\ t.now = s.now /\ t.on = s.on /\ t.nf = s.nf
        /\ t.pending = s.pending /\ t.running = s.running
    <3> HIDE DEF m
    <3> QED
      BY <1>1, <2>2 DEF SchedRecord
  <2>4. /\ StaysUp(i)
        /\ \/ /\ MayFire(i, j)
              /\ \E r \in Fires :
                   /\ NewFire(r, i, j, slot)
                   /\ Moves(i, t.todo, t.now, IF slot # 0 THEN r ELSE t.on, t.nf, t.pending \cup {r}, t.running \cup {j})
           \/ /\ fire' = fire
              /\ Moves(i, t.todo, t.now, t.on, [t.nf EXCEPT ![j] = IF slot = 0 THEN t.nf[j] ELSE clock + 1],
                       t.pending, t.running)
    <3> HIDE DEF slot, t
    <3> QED
      BY <1>1, <2>1, <2>3, TryFireEffect
  <2>5. [s.nf EXCEPT ![j] = s.nf[j]] = s.nf
    BY <1>1 DEF SchedRecord
  <2> HIDE DEF t
  <2>6. \/ /\ MayFire(i, j)
           /\ \E r \in Fires :
                /\ NewFire(r, i, j, 0)
                /\ Moves(i, s.todo, s.now, s.on, s.nf, s.pending \cup {r}, s.running \cup {j})
        \/ /\ fire' = fire
           /\ Moves(i, s.todo, s.now, s.on, s.nf, s.pending, s.running)
    BY <2>3, <2>4, <2>5
  <2> QED
    BY <2>1, <2>4, <2>6
<1> QED
  BY <1>2, <1>3
-----------------------------------------------------------------------------
LEMMA SchedTypesStep == SchedTypeOK /\ MarkInv /\ [SchedNext]_schedVars => SchedTypeOK'
<1> SUFFICES ASSUME SchedTypeOK, MarkInv, [SchedNext]_schedVars PROVE SchedTypeOK'
  OBVIOUS
<1> DEFINE Typed == sched' \in [Instances -> SchedRecord] /\ fire' \in [Fires -> FireRecord \cup {NoFire}]
           Counts == clock' \in 0 .. MaxClock /\ lease' \in Instances \cup {"none"} /\ schedOps' \in 0 .. MaxSchedOps
<1>a. sched \in [Instances -> SchedRecord] /\ fire \in [Fires -> FireRecord \cup {NoFire}]
      /\ clock \in 0 .. MaxClock /\ lease \in Instances \cup {"none"} /\ schedOps \in 0 .. MaxSchedOps
  BY DEF SchedTypeOK
<1>b. SchedOp \/ UNCHANGED schedOps => schedOps' \in 0 .. MaxSchedOps
  BY <1>a, SchedAssumption DEF SchedOp
<1>1. CASE UNCHANGED schedVars
  BY <1>1, <1>a DEF schedVars, SchedTypeOK
<1>2. CASE LeaseExpires \/ SlotComes
  BY <1>2, <1>a, SchedAssumption DEF LeaseExpires, SlotComes, SchedTypeOK
<1>3. ASSUME NEW i \in Instances, TickBegins(i) PROVE SchedTypeOK'
  BY <1>3, <1>a, TickBeginsEffect DEF Moves, FiresStay, SchedTypeOK
<1>4. ASSUME NEW i \in Instances, TickJob(i) PROVE SchedTypeOK'
  <2>1. Typed
    BY <1>4, <1>a, TickJobEffect DEF Moves, NewFire
  <2> QED
    BY <1>4, <2>1, <1>a, TickJobEffect DEF SchedTypeOK
<1>5. ASSUME NEW i \in Instances, TickResumes(i) PROVE SchedTypeOK'
  BY <1>5, <1>a, TickResumesEffect DEF Moves, SchedTypeOK
<1>6. ASSUME NEW i \in Instances, InstanceStops(i) PROVE SchedTypeOK'
  BY <1>6, <1>a, <1>b, InstanceStopsEffect DEF Moves, FiresStay, SchedTypeOK
<1>7. ASSUME NEW i \in Instances, InstanceStarts(i) PROVE SchedTypeOK'
  BY <1>7, <1>a, InstanceStartsEffect DEF Moves, SchedTypeOK
<1>8. ASSUME NEW i \in Instances, NEW j \in JobNames, CmdRun(i, j) \/ MisfireRuns(i, j) PROVE SchedTypeOK'
  <2>1. Typed /\ Counts
    BY <1>8, <1>a, <1>b, CommandEffect DEF Moves, NewFire
  <2> QED
    BY <2>1 DEF SchedTypeOK
<1>9. ASSUME NEW i \in Instances, NEW j \in JobNames, NEW p \in BOOLEAN, CmdPause(i, j, p) PROVE SchedTypeOK'
  BY <1>9, <1>a, <1>b, CmdPauseEffect DEF Moves, SchedTypeOK
<1>10. ASSUME NEW i \in Instances, NEW js \in SUBSET JobNames, WriteJobs(i, js) PROVE SchedTypeOK'
  BY <1>10, <1>a, <1>b, WriteJobsEffect DEF Moves, SchedTypeOK
<1>11. ASSUME NEW i \in Instances, NEW j \in JobNames, AddJob(i, j) \/ DeleteJob(i, j) PROVE SchedTypeOK'
  BY <1>11, <1>10, SchedTyped DEF AddJob, DeleteJob
<1>12. ASSUME NEW r \in Fires, ReplyArrives(r) PROVE SchedTypeOK'
  BY <1>12, <1>a, ReplyArrivesEffect DEF Moves, FiresStay, SchedTypeOK
<1>13. ASSUME NEW r \in Fires, ReplyLost(r) \/ DeadlinePasses(r) PROVE SchedTypeOK'
  BY <1>13, <1>a, ReplyLostEffect DEF FiresStay, SchedTypeOK
<1> QED
  BY <1>1, <1>2, <1>3, <1>4, <1>5, <1>6, <1>7, <1>8, <1>9, <1>11, <1>12, <1>13 DEF SchedNext
-----------------------------------------------------------------------------
\* Only pending fires are in _running_jobs, so there are finitely many.
LEMMA MarksFinite ==
  ASSUME SchedTypeOK, MarkInv, NEW i \in Instances
  PROVE  IsFiniteSet(sched[i].running) /\ Cardinality(sched[i].running) \in Nat
<1>1. IsFiniteSet(sched[i].pending)
  <2>1. IsFiniteSet(1 .. MaxFires)
    BY FS_Interval, SchedAssumption
  <2> QED
    BY <2>1, FS_Subset, SchedTyped DEF Fires
<1>2. IsFiniteSet({fire[p].job : p \in sched[i].pending})
  <2> DEFINE P == sched[i].pending
             f == [p \in P |-> fire[p].job]
             R == {f[p] : p \in P}
  <2>1. f \in Surjection(P, R)
    BY DEF Surjection
  <2>2. IsFiniteSet(R)
    BY <1>1, <2>1, FS_Surjection
  <2> QED
    BY <2>2
<1> QED
  BY <1>2, FS_CardinalityType DEF MarkInv

LEMMA MarksLeft ==
  ASSUME MarkInv, NEW i \in Instances, NEW D \in SUBSET sched[i].pending
  PROVE  sched[i].running \ {fire[p].job : p \in D} = {fire[p].job : p \in sched[i].pending \ D}
BY DEF MarkInv

\* Fires that end take their marks with them: a sweep, a reply and a stop.
LEMMA FiresEnd ==
  ASSUME SchedTypeOK, MarkInv, NEW i \in Instances, FiresStay,
         NEW todo, NEW now, NEW on \in {0, sched[i].on}, NEW nf, NEW P, NEW R,
         Moves(i, todo, now, on, nf, P, R), P \subseteq sched[i].pending, R = {fire[p].job : p \in P},
         sched'[i].up \/ (todo = {} /\ on = 0 /\ P = {})
  PROVE  MarkInv'
<1>1. P \subseteq Fires /\ \A n \in Instances : sched[n].pending \subseteq Fires /\ sched[n].on \in 0 .. MaxFires
  BY SchedTyped
<1>3. Cardinality(R) <= MaxConcurrent
  <2>1. R \subseteq sched[i].running
    BY DEF MarkInv
  <2>2. Cardinality(R) <= Cardinality(sched[i].running) /\ Cardinality(R) \in Nat
    BY <2>1, MarksFinite, FS_Subset, FS_CardinalityType
  <2> QED
    BY <2>2, MarksFinite, SchedAssumption DEF MarkInv
<1>4. \A r \in Fires : fire'[r].job = fire[r].job /\ fire'[r].inst = fire[r].inst /\ (fire'[r].at = "off" <=> fire[r].at = "off")
  BY DEF FiresStay
<1>5. sched'[i].pending = P /\ sched'[i].running = R /\ sched'[i].on = on /\ sched'[i].todo = todo
      /\ \A n \in Instances : n # i => sched'[n] = sched[n]
  BY DEF Moves
<1> SUFFICES ASSUME NEW n \in Instances
             PROVE  /\ sched'[n].running = {fire'[p].job : p \in sched'[n].pending}
                    /\ Cardinality(sched'[n].running) <= MaxConcurrent
                    /\ \A p, q \in sched'[n].pending : fire'[p].job = fire'[q].job => p = q
                    /\ \A p \in sched'[n].pending : fire'[p].at # "off" /\ fire'[p].inst = n
                    /\ sched'[n].on # 0 => fire'[sched'[n].on].at # "off"
                    /\ ~sched'[n].up => sched'[n].pending = {} /\ sched'[n].todo = {} /\ sched'[n].on = 0
  BY DEF MarkInv
<1>6. sched[n].on # 0 => sched[n].on \in Fires
  BY <1>1, SchedAssumption DEF Fires
<1>7. CASE n = i
  <2>1. R = {fire'[p].job : p \in P}
    BY <1>1, <1>4
  <2>2. \A p, q \in P : fire'[p].job = fire'[q].job => p = q
    BY <1>1, <1>4 DEF MarkInv
  <2>3. \A p \in P : fire'[p].at # "off" /\ fire'[p].inst = i
    BY <1>1, <1>4 DEF MarkInv
  <2>4. on # 0 => fire'[on].at # "off"
    BY <1>4, <1>6, <1>7 DEF MarkInv
  <2>5. sched'[i].up \/ (todo = {} /\ on = 0 /\ P = {})
    OBVIOUS
  <2> QED
    BY <1>3, <1>5, <1>7, <2>1, <2>2, <2>3, <2>4, <2>5
<1>8. CASE n # i
  <2>1. {fire[p].job : p \in sched[n].pending} = {fire'[p].job : p \in sched[n].pending}
    BY <1>1, <1>4
  <2> QED
    BY <1>1, <1>4, <1>5, <1>6, <1>8, <2>1 DEF MarkInv
<1> QED
  BY <1>7, <1>8

\* A new fire marks its job.
LEMMA FireBegins ==
  ASSUME SchedTypeOK, MarkInv, NEW i \in Instances, NEW j \in JobNames, NEW slot, NEW r \in Fires,
         MayFire(i, j), NewFire(r, i, j, slot), sched'[i].up,
         NEW todo, NEW now, NEW on \in {r, sched[i].on}, NEW nf,
         Moves(i, todo, now, on, nf, sched[i].pending \cup {r}, sched[i].running \cup {j})
  PROVE  MarkInv'
<1> DEFINE P == sched[i].pending \cup {r}
           R == sched[i].running \cup {j}
<1>1. P \subseteq Fires /\ \A n \in Instances : sched[n].pending \subseteq Fires /\ sched[n].on \in 0 .. MaxFires
  BY SchedTyped
<1>2. /\ r \notin sched[i].pending
      /\ \A n \in Instances : r \notin sched[n].pending
      /\ \A n \in Instances : sched[n].on # 0 => sched[n].on # r
  BY DEF MarkInv, NewFire
<1>3. Cardinality(R) <= MaxConcurrent
  <2>1. Cardinality(R) = Cardinality(sched[i].running) + 1
    BY MarksFinite, FS_AddElement DEF MayFire
  <2> QED
    BY <2>1, MarksFinite, SchedAssumption DEF MayFire
<1>4. /\ \A x \in Fires : x # r => fire'[x] = fire[x]
      /\ fire'[r].job = j /\ fire'[r].inst = i /\ fire'[r].at = "live"
  BY DEF NewFire
<1>5. sched'[i].pending = P /\ sched'[i].running = R /\ sched'[i].on = on
      /\ \A n \in Instances : n # i => sched'[n] = sched[n]
  BY DEF Moves
<1> SUFFICES ASSUME NEW n \in Instances
             PROVE  /\ sched'[n].running = {fire'[p].job : p \in sched'[n].pending}
                    /\ Cardinality(sched'[n].running) <= MaxConcurrent
                    /\ \A p, q \in sched'[n].pending : fire'[p].job = fire'[q].job => p = q
                    /\ \A p \in sched'[n].pending : fire'[p].at # "off" /\ fire'[p].inst = n
                    /\ sched'[n].on # 0 => fire'[sched'[n].on].at # "off"
                    /\ ~sched'[n].up => sched'[n].pending = {} /\ sched'[n].todo = {} /\ sched'[n].on = 0
  BY DEF MarkInv
<1>6. sched[n].on # 0 => sched[n].on \in Fires
  BY <1>1, SchedAssumption DEF Fires
<1>7. CASE n = i
  <2>1. R = {fire'[p].job : p \in P}
    <3>1. sched[i].running = {fire[p].job : p \in sched[i].pending}
      BY DEF MarkInv
    <3>2. {fire[p].job : p \in sched[i].pending} = {fire'[p].job : p \in sched[i].pending}
      BY <1>1, <1>2, <1>4
    <3> QED
      BY <1>4, <3>1, <3>2
  <2>2. \A p \in sched[i].pending : fire'[p].job \in sched[i].running /\ fire'[p].job # j
    BY <1>1, <1>2, <1>4 DEF MarkInv, MayFire
  <2>3. \A p, q \in P : fire'[p].job = fire'[q].job => p = q
    BY <1>1, <1>2, <1>4, <2>2 DEF MarkInv
  <2>4. \A p \in P : fire'[p].at # "off" /\ fire'[p].inst = i
    BY <1>1, <1>2, <1>4 DEF MarkInv
  <2>5. on # 0 => fire'[on].at # "off"
    BY <1>2, <1>4, <1>6, <1>7 DEF MarkInv
  <2> HIDE DEF P, R
  <2> QED
    BY <1>3, <1>5, <1>7, <2>1, <2>3, <2>4, <2>5
<1>8. CASE n # i
  <2>1. {fire[p].job : p \in sched[n].pending} = {fire'[p].job : p \in sched[n].pending}
    BY <1>1, <1>2, <1>4
  <2>2. \A p \in sched[n].pending : fire'[p] = fire[p]
    BY <1>1, <1>2, <1>4
  <2>3. sched[n].on # 0 => fire'[sched[n].on] = fire[sched[n].on]
    BY <1>2, <1>4, <1>6
  <2> QED
    BY <1>5, <1>8, <2>1, <2>2, <2>3 DEF MarkInv
<1> QED
  BY <1>7, <1>8

LEMMA FiresKept ==
  ASSUME SchedTypeOK, MarkInv, NEW i \in Instances, FiresStay,
         NEW todo, NEW now, NEW on \in {0, sched[i].on}, NEW nf,
         Moves(i, todo, now, on, nf, sched[i].pending, sched[i].running),
         sched'[i].up \/ (todo = {} /\ on = 0 /\ sched[i].pending = {})
  PROVE  MarkInv'
<1>1. sched[i].running = {fire[p].job : p \in sched[i].pending}
  BY DEF MarkInv
<1> QED
  BY <1>1, FiresEnd

LEMMA SameFiresStay == ASSUME SchedTypeOK, fire' = fire PROVE FiresStay
BY DEF SchedTypeOK, FiresStay

LEMMA MarkStep == SchedTypeOK /\ MarkInv /\ [SchedNext]_schedVars => MarkInv'
<1> SUFFICES ASSUME SchedTypeOK, MarkInv, [SchedNext]_schedVars PROVE MarkInv'
  OBVIOUS
<1>2. CASE LeaseExpires \/ SlotComes \/ UNCHANGED schedVars
  BY <1>2 DEF LeaseExpires, SlotComes, schedVars, MarkInv
<1>3. ASSUME NEW i \in Instances, TickBegins(i) PROVE MarkInv'
  <2>1. Overdue(i) \in SUBSET sched[i].pending
    BY DEF Overdue
  <2> DEFINE P == sched[i].pending \ Overdue(i)
             R == sched[i].running \ {fire[p].job : p \in Overdue(i)}
  <2>2. R = {fire[p].job : p \in P} /\ P \subseteq sched[i].pending
    BY <2>1, MarksLeft
  <2>3. Moves(i, sched[i].jobs, clock, 0, sched[i].nf, P, R) /\ FiresStay /\ sched'[i].up
    BY <1>3, TickBeginsEffect DEF StaysUp
  <2> HIDE DEF P, R
  <2> QED
    BY <2>2, <2>3, FiresEnd
<1>4. ASSUME NEW i \in Instances, TickJob(i) PROVE MarkInv'
  <2>1. StaysUp(i) /\ sched[i].on = 0
    BY <1>4, TickJobEffect
  <2>2. ASSUME NEW j \in sched[i].todo, MayFire(i, j), NEW r \in Fires, NewFire(r, i, j, sched[i].nf[j]),
               Moves(i, sched[i].todo \ {j}, sched[i].now, r, sched[i].nf,
                     sched[i].pending \cup {r}, sched[i].running \cup {j})
        PROVE  MarkInv'
    <3>1. j \in JobNames
      BY SchedTyped
    <3> QED
      BY <2>1, <2>2, <3>1, FireBegins DEF StaysUp
  <2>3. ASSUME NEW j \in sched[i].todo, fire' = fire, NEW v,
               Moves(i, sched[i].todo \ {j}, sched[i].now, 0, [sched[i].nf EXCEPT ![j] = v],
                     sched[i].pending, sched[i].running)
        PROVE  MarkInv'
    <3> DEFINE f == [sched[i].nf EXCEPT ![j] = v]
    <3>1. Moves(i, sched[i].todo \ {j}, sched[i].now, 0, f, sched[i].pending, sched[i].running)
      BY <2>3
    <3> HIDE DEF f
    <3> QED
      BY <2>1, <2>3, <3>1, FiresKept, SameFiresStay DEF StaysUp
  <2> QED
    BY <1>4, <2>2, <2>3, TickJobEffect
<1>5. ASSUME NEW i \in Instances, TickResumes(i) PROVE MarkInv'
  BY <1>5, TickResumesEffect, FiresKept, SameFiresStay DEF StaysUp
<1>6. ASSUME NEW i \in Instances, InstanceStops(i) PROVE MarkInv'
  <2> DEFINE z == [j \in JobNames |-> 0]
  <2>1. Moves(i, {}, 0, 0, z, {}, {}) /\ FiresStay
    BY <1>6, InstanceStopsEffect
  <2>2. {} = {fire[p].job : p \in {}}
    OBVIOUS
  <2> HIDE DEF z
  <2> QED
    BY <2>1, <2>2, FiresEnd
<1>7. ASSUME NEW i \in Instances, InstanceStarts(i) PROVE MarkInv'
  <2> DEFINE z == [j \in JobNames |-> 0]
  <2>1. Moves(i, {}, 0, 0, z, {}, {}) /\ ~sched[i].up /\ sched'[i].up /\ FiresStay
    BY <1>7, InstanceStartsEffect, SameFiresStay
  <2>2. sched[i].pending = {} /\ sched[i].running = {}
    BY <2>1 DEF MarkInv
  <2> HIDE DEF z
  <2> QED
    BY <2>1, <2>2, FiresKept
<1>8. ASSUME NEW i \in Instances, NEW j \in JobNames, CmdRun(i, j) \/ MisfireRuns(i, j) PROVE MarkInv'
  BY <1>8, CommandEffect, FireBegins, FiresKept, SameFiresStay DEF StaysUp
<1>9. ASSUME NEW i \in Instances, NEW j \in JobNames, NEW p \in BOOLEAN, CmdPause(i, j, p) PROVE MarkInv'
  BY <1>9, CmdPauseEffect, FiresKept, SameFiresStay DEF StaysUp
<1>10. ASSUME NEW i \in Instances, NEW js \in SUBSET JobNames, WriteJobs(i, js) PROVE MarkInv'
  <2> DEFINE z == [j \in JobNames |-> 0]
  <2>1. Moves(i, sched[i].todo, sched[i].now, sched[i].on, z, sched[i].pending, sched[i].running)
        /\ sched'[i].up /\ FiresStay
    BY <1>10, WriteJobsEffect, SameFiresStay DEF StaysUp
  <2> HIDE DEF z
  <2> QED
    BY <2>1, FiresKept
<1>11. ASSUME NEW i \in Instances, NEW j \in JobNames, AddJob(i, j) \/ DeleteJob(i, j) PROVE MarkInv'
  BY <1>11, <1>10, SchedTyped DEF AddJob, DeleteJob
<1>12. ASSUME NEW r \in Fires, ReplyArrives(r) PROVE MarkInv'
  <2> DEFINE i == fire[r].inst
             own == PendingFor(i, r)
             P == sched[i].pending \ own
             R == sched[i].running \ {fire[p].job : p \in own}
  <2>1. /\ i \in Instances /\ own \subseteq sched[i].pending /\ FiresStay /\ StaysUp(i)
        /\ Moves(i, sched[i].todo, sched[i].now, sched[i].on, sched[i].nf, P, R)
    BY <1>12, ReplyArrivesEffect
  <2>2. R = {fire[p].job : p \in P} /\ P \subseteq sched[i].pending
    BY <2>1, MarksLeft
  <2> HIDE DEF P, R, i
  <2> QED
    BY <2>1, <2>2, FiresEnd DEF StaysUp
<1>13. ASSUME NEW r \in Fires, ReplyLost(r) \/ DeadlinePasses(r) PROVE MarkInv'
  <2>1. FiresStay /\ sched' = sched
    BY <1>13, ReplyLostEffect
  <2>2. fire[r].inst \in Instances
    BY <1>13, FireTyped DEF ReplyLost, DeadlinePasses
  <2> DEFINE i == fire[r].inst
             s == sched[i]
  <2>3. Moves(i, s.todo, s.now, s.on, s.nf, s.pending, s.running)
    BY <2>1, <2>2 DEF Moves, SchedTypeOK
  <2>4. sched'[i].up \/ (s.todo = {} /\ s.on = 0 /\ s.pending = {})
    BY <2>1, <2>2 DEF MarkInv
  <2> HIDE DEF i
  <2> QED
    BY <2>1, <2>2, <2>3, <2>4, FiresKept DEF i
<1> QED
  BY <1>2, <1>3, <1>4, <1>5, <1>6, <1>7, <1>8, <1>9, <1>11, <1>12, <1>13 DEF SchedNext
-----------------------------------------------------------------------------
\* A new fire is the only one of its key, and a run under way keeps its place.
LEMMA LiveBegins ==
  ASSUME SchedTypeOK, LiveInv, NEW i \in Instances, NEW j, NEW slot, NEW r \in Fires, NewFire(r, i, j, slot),
         NEW todo, NEW now, NEW on, NEW nf, NEW R, Moves(i, todo, now, on, nf, sched[i].pending \cup {r}, R)
  PROVE  LiveInv'
<1> SUFFICES ASSUME NEW x \in Fires
             PROVE  /\ fire'[x].at = "live" => ~fire'[x].late /\ x \in sched'[fire'[x].inst].pending
                    /\ fire'[x].end = "reply" => fire'[x].at = "done"
  BY DEF LiveInv
<1>1. sched'[i].pending = sched[i].pending \cup {r} /\ \A n \in Instances : n # i => sched'[n].pending = sched[n].pending
  BY DEF Moves
<1>2. CASE x = r
  BY <1>1, <1>2 DEF NewFire
<1>3. CASE x # r
  <2>1. fire'[x] = fire[x] /\ (fire[x].at = "live" => fire[x].inst \in Instances)
    BY <1>3, FireTyped DEF NewFire
  <2> QED
    BY <1>1, <2>1 DEF LiveInv
<1> QED
  BY <1>2, <1>3

LEMMA LiveKept ==
  ASSUME SchedTypeOK, LiveInv, fire' = fire, NEW i \in Instances,
         NEW todo, NEW now, NEW on, NEW nf, NEW R, Moves(i, todo, now, on, nf, sched[i].pending, R)
  PROVE  LiveInv'
<1>1. \A n \in Instances : sched'[n].pending = sched[n].pending
  BY DEF Moves
<1>2. \A x \in Fires : fire[x].at = "live" => fire[x].inst \in Instances
  BY FireTyped
<1> QED
  BY <1>1, <1>2 DEF LiveInv

LEMMA LiveStep ==
  PunctualRuns /\ SchedTypeOK /\ MarkInv /\ LiveInv /\ [SchedNext]_schedVars => LiveInv'
<1> SUFFICES ASSUME PunctualRuns, SchedTypeOK, MarkInv, LiveInv, [SchedNext]_schedVars PROVE LiveInv'
  OBVIOUS
<1>a. \A x \in Fires : fire[x].at = "live" =>
        fire[x].inst \in Instances /\ ~fire[x].late /\ x \in sched[fire[x].inst].pending /\ fire[x].job \in JobNames
  BY FireTyped DEF LiveInv
<1>2. CASE LeaseExpires \/ SlotComes \/ UNCHANGED schedVars
  BY <1>2 DEF LeaseExpires, SlotComes, schedVars, LiveInv
<1>3. ASSUME NEW i \in Instances, TickBegins(i) PROVE LiveInv'
  <2> SUFFICES ASSUME NEW x \in Fires
               PROVE  /\ fire'[x].at = "live" => ~fire'[x].late /\ x \in sched'[fire'[x].inst].pending
                      /\ fire'[x].end = "reply" => fire'[x].at = "done"
    BY DEF LiveInv
  <2>1. /\ fire'[x].at = fire[x].at /\ fire'[x].late = fire[x].late /\ fire'[x].inst = fire[x].inst
        /\ fire'[x].end = "reply" => fire[x].end = "reply"
        /\ sched'[i].pending = sched[i].pending \ Overdue(i)
        /\ \A n \in Instances : n # i => sched'[n].pending = sched[n].pending
    BY <1>3, TickBeginsEffect DEF FiresStay, Moves
  <2>2. fire[x].at = "live" => x \notin Overdue(i)
    BY <1>a DEF Overdue
  <2> QED
    BY <2>1, <2>2, <1>a DEF LiveInv
<1>4. ASSUME NEW i \in Instances, TickJob(i) PROVE LiveInv'
  <2>1. ASSUME NEW j \in sched[i].todo, NEW r \in Fires, NewFire(r, i, j, sched[i].nf[j]),
               Moves(i, sched[i].todo \ {j}, sched[i].now, r, sched[i].nf,
                     sched[i].pending \cup {r}, sched[i].running \cup {j})
        PROVE  LiveInv'
    BY <2>1, LiveBegins
  <2>2. ASSUME NEW j \in sched[i].todo, fire' = fire, NEW v,
               Moves(i, sched[i].todo \ {j}, sched[i].now, 0, [sched[i].nf EXCEPT ![j] = v],
                     sched[i].pending, sched[i].running)
        PROVE  LiveInv'
    <3> DEFINE f == [sched[i].nf EXCEPT ![j] = v]
    <3>1. Moves(i, sched[i].todo \ {j}, sched[i].now, 0, f, sched[i].pending, sched[i].running)
      BY <2>2
    <3> HIDE DEF f
    <3> QED
      BY <2>2, <3>1, LiveKept
  <2> QED
    BY <1>4, <2>1, <2>2, TickJobEffect
<1>5. ASSUME NEW i \in Instances, TickResumes(i) PROVE LiveInv'
  <2> DEFINE f == [sched[i].nf EXCEPT ![fire[sched[i].on].job] = clock + 1]
  <2>1. Moves(i, sched[i].todo, sched[i].now, 0, f, sched[i].pending, sched[i].running) /\ fire' = fire
    BY <1>5, TickResumesEffect
  <2> HIDE DEF f
  <2> QED
    BY <2>1, LiveKept
<1>6. ASSUME NEW i \in Instances, InstanceStops(i) PROVE LiveInv'
  <2> SUFFICES ASSUME NEW x \in Fires
               PROVE  /\ fire'[x].at = "live" => ~fire'[x].late /\ x \in sched'[fire'[x].inst].pending
                      /\ fire'[x].end = "reply" => fire'[x].at = "done"
    BY DEF LiveInv
  <2>1. /\ fire'[x].at = (IF fire[x].inst = i /\ fire[x].at = "live" THEN "lost" ELSE fire[x].at)
        /\ fire'[x].late = fire[x].late /\ fire'[x].inst = fire[x].inst /\ fire'[x].end = fire[x].end
        /\ \A n \in Instances : n # i => sched'[n].pending = sched[n].pending
    BY <1>6, InstanceStopsEffect DEF FiresStay, Moves
  <2> QED
    BY <2>1, <1>a DEF LiveInv
<1>7. ASSUME NEW i \in Instances, InstanceStarts(i) PROVE LiveInv'
  <2> DEFINE z == [j \in JobNames |-> 0]
  <2>1. Moves(i, {}, 0, 0, z, {}, {}) /\ sched[i].pending = {} /\ fire' = fire
    BY <1>7, InstanceStartsEffect DEF MarkInv
  <2> HIDE DEF z
  <2> QED
    BY <2>1, LiveKept
<1>8. ASSUME NEW i \in Instances, NEW j \in JobNames, CmdRun(i, j) \/ MisfireRuns(i, j) PROVE LiveInv'
  BY <1>8, CommandEffect, LiveBegins, LiveKept
<1>9. ASSUME NEW i \in Instances, NEW j \in JobNames, NEW p \in BOOLEAN, CmdPause(i, j, p) PROVE LiveInv'
  <2> DEFINE f == [sched[i].nf EXCEPT ![j] = 0]
  <2>1. Moves(i, sched[i].todo, sched[i].now, sched[i].on, f, sched[i].pending, sched[i].running) /\ fire' = fire
    BY <1>9, CmdPauseEffect
  <2> HIDE DEF f
  <2> QED
    BY <2>1, LiveKept
<1>10. ASSUME NEW i \in Instances, NEW js \in SUBSET JobNames, WriteJobs(i, js) PROVE LiveInv'
  <2> DEFINE z == [j \in JobNames |-> 0]
  <2>1. Moves(i, sched[i].todo, sched[i].now, sched[i].on, z, sched[i].pending, sched[i].running) /\ fire' = fire
    BY <1>10, WriteJobsEffect
  <2> HIDE DEF z
  <2> QED
    BY <2>1, LiveKept
<1>11. ASSUME NEW i \in Instances, NEW j \in JobNames, AddJob(i, j) \/ DeleteJob(i, j) PROVE LiveInv'
  BY <1>11, <1>10, SchedTyped DEF AddJob, DeleteJob
<1>12. ASSUME NEW r \in Fires, ReplyArrives(r) PROVE LiveInv'
  <2> DEFINE i == fire[r].inst
             own == PendingFor(i, r)
  <2>1. /\ fire[r].at = "live" /\ i \in Instances
        /\ \A x \in Fires : /\ fire'[x].late = fire[x].late /\ fire'[x].inst = fire[x].inst
                            /\ fire'[x].at = (IF x = r THEN "done" ELSE fire[x].at)
                            /\ fire'[x].end = (IF x \in own THEN "reply" ELSE fire[x].end)
        /\ sched'[i].pending = sched[i].pending \ own
        /\ \A n \in Instances : n # i => sched'[n].pending = sched[n].pending
    BY <1>12, ReplyArrivesEffect DEF FiresStay, Moves
  <2>2. ASSUME NEW p \in own PROVE p = r
    <3>1. p \in sched[i].pending /\ p \in Fires /\ fire[p].at # "off" /\ FireKey(p) = FireKey(r)
      BY <2>1, SchedTyped DEF PendingFor, MarkInv
    <3>2. fire[p].job = fire[r].job
      BY <2>1, <3>1, KeysTyped
    <3>3. r \in sched[i].pending
      BY <2>1, <1>a
    <3> QED
      BY <2>1, <3>1, <3>2, <3>3 DEF MarkInv
  <2> SUFFICES ASSUME NEW x \in Fires
               PROVE  /\ fire'[x].at = "live" => ~fire'[x].late /\ x \in sched'[fire'[x].inst].pending
                      /\ fire'[x].end = "reply" => fire'[x].at = "done"
    BY DEF LiveInv
  <2> HIDE DEF own
  <2> QED
    BY <2>1, <2>2, <1>a DEF LiveInv
<1>13. ASSUME NEW r \in Fires, ReplyLost(r) \/ DeadlinePasses(r) PROVE LiveInv'
  <2> SUFFICES ASSUME NEW x \in Fires
               PROVE  /\ fire'[x].at = "live" => ~fire'[x].late /\ x \in sched'[fire'[x].inst].pending
                      /\ fire'[x].end = "reply" => fire'[x].at = "done"
    BY DEF LiveInv
  <2> QED
    BY <1>13, <1>a, ReplyLostEffect DEF FiresStay, LiveInv
<1> QED
  BY <1>2, <1>3, <1>4, <1>5, <1>6, <1>7, <1>8, <1>9, <1>11, <1>12, <1>13 DEF SchedNext
-----------------------------------------------------------------------------
\* A step of one instance that fires no slot
LEMMA NoSlotFired ==
  ASSUME SchedTypeOK, SlotInv, NEW i \in Instances, clock' = clock, lease' = lease,
         fire' \in [Fires -> FireRecord \cup {NoFire}], sched' \in [Instances -> SchedRecord],
         \A r \in Fires : fire'[r].slot # 0 => fire'[r].slot = fire[r].slot /\ fire'[r].job = fire[r].job,
         \A n \in Instances : n # i => sched'[n] = sched[n],
         \A n \in Instances : n # i /\ sched[n].on # 0 => fire'[sched[n].on].job = fire[sched[n].on].job,
         sched'[i].now <= clock,
         sched'[i].todo # {} => sched[i].todo # {} /\ sched'[i].now = sched[i].now,
         \A j \in JobNames : MayCome(i, j)' =>
            \/ MayCome(i, j) /\ sched'[i].nf[j] = sched[i].nf[j]
            \/ sched'[i].nf[j] > clock
            \/ lease = i /\ sched[i].todo # {} /\ sched'[i].nf[j] = sched[i].now + 1
  PROVE  SlotInv'
<1>1. /\ clock \in Nat
      /\ \A r \in Fires : fire[r].slot \in Nat /\ fire'[r].slot \in Nat
      /\ \A n \in Instances : sched[n].now \in Nat /\ sched'[n].now \in Nat
      /\ \A n \in Instances : sched[n].nf \in [JobNames -> Nat] /\ sched'[n].nf \in [JobNames -> Nat]
  <2>1. \A r \in Fires : fire[r].slot \in Nat
    BY FireTyped
  <2>2. \A r \in Fires : fire'[r].slot \in Nat
    BY SchedAssumption DEF FireRecord, NoFire
  <2>3. \A n \in Instances : sched'[n] \in SchedRecord
    OBVIOUS
  <2>4. \A n \in Instances : sched[n].now \in Nat /\ sched'[n].now \in Nat
    BY <2>3, SchedTyped DEF SchedRecord
  <2>5. \A n \in Instances : sched[n].nf \in [JobNames -> Nat] /\ sched'[n].nf \in [JobNames -> Nat]
    BY <2>3, SchedTyped DEF SchedRecord
  <2> QED
    BY <2>1, <2>2, <2>4, <2>5, SchedTyped
<1>2. /\ \A r \in Fires : fire[r].slot <= clock
      /\ \A n \in Instances : sched[n].now <= clock
      /\ \A n \in Instances, j \in JobNames : MayCome(n, j) => Ahead(n, j)
      /\ \A n \in Instances : lease = n /\ sched[n].todo # {} => LeadsLast(n)
      /\ SlotFiredOnce
  BY DEF SlotInv
<1>3. \A r \in Fires : fire'[r].slot <= clock'
  BY <1>1, <1>2
<1>4. \A n \in Instances : sched'[n].now <= clock'
  BY <1>2
<1>5. ASSUME NEW n \in Instances, n # i, NEW j \in JobNames PROVE MayCome(n, j)' <=> MayCome(n, j)
  BY <1>5 DEF MayCome
<1>6. ASSUME NEW n \in Instances, n # i, NEW j \in JobNames, MayCome(n, j), MayCome(i, j)'
      PROVE  sched[n].nf[j] # sched'[i].nf[j]
  <2>1. CASE MayCome(i, j) /\ sched'[i].nf[j] = sched[i].nf[j]
    BY <1>2, <1>6, <2>1 DEF Ahead
  <2>2. CASE lease = i
    <3>1. j \in sched[n].todo /\ sched[n].nf[j] <= sched[n].now
      BY <1>6, <2>2 DEF MayCome
    <3>2. CASE sched'[i].nf[j] > clock
      BY <1>1, <1>2, <3>1, <3>2
    <3>3. CASE sched[i].todo # {} /\ sched'[i].nf[j] = sched[i].now + 1
      <4>1. sched[n].now <= sched[i].now
        BY <1>2, <2>2, <3>1, <3>3 DEF LeadsLast
      <4> QED
        BY <1>1, <3>1, <3>3, <4>1
    <3> QED
      BY <1>6, <2>1, <3>2, <3>3
  <2>3. CASE lease # i /\ sched'[i].nf[j] > clock
    <3>1. sched'[i].nf[j] <= sched'[i].now
      BY <1>6, <2>3 DEF MayCome
    <3> QED
      BY <1>1, <2>3, <3>1
  <2> QED
    BY <1>6, <2>1, <2>2, <2>3
<1>7. ASSUME NEW j \in JobNames, MayCome(i, j)', NEW r \in Fires, fire'[r].slot # 0, fire'[r].job = j
      PROVE  fire'[r].slot # sched'[i].nf[j]
  <2>1. fire[r].slot # 0 /\ fire[r].job = j /\ fire'[r].slot = fire[r].slot
    BY <1>7
  <2>2. CASE MayCome(i, j) /\ sched'[i].nf[j] = sched[i].nf[j]
    BY <1>2, <2>1, <2>2 DEF Ahead
  <2>3. CASE sched'[i].nf[j] > clock
    BY <1>1, <1>2, <2>1, <2>3
  <2>4. CASE lease = i /\ sched[i].todo # {} /\ sched'[i].nf[j] = sched[i].now + 1
    <3>1. fire[r].slot <= sched[i].now
      BY <1>2, <2>4 DEF LeadsLast
    <3> QED
      BY <1>1, <2>1, <2>4, <3>1
  <2> QED
    BY <1>7, <2>2, <2>3, <2>4
<1>8. ASSUME NEW n \in Instances, NEW j \in JobNames, MayCome(n, j)' PROVE Ahead(n, j)'
  <2>1. CASE n = i
    BY <1>5, <1>6, <1>7, <1>8, <2>1 DEF Ahead
  <2>2. CASE n # i
    <3>1. MayCome(n, j) /\ Ahead(n, j) /\ sched'[n] = sched[n]
      BY <1>2, <1>5, <1>8, <2>2
    <3>2. ASSUME NEW r \in Fires, fire'[r].slot # 0, fire'[r].job = j PROVE fire'[r].slot # sched[n].nf[j]
      BY <3>1, <3>2 DEF Ahead
    <3>3. ASSUME NEW m \in Instances, m # n, MayCome(m, j)' PROVE sched'[m].nf[j] # sched[n].nf[j]
      <4>1. CASE m = i
        BY <1>6, <2>2, <3>1, <3>3, <4>1
      <4>2. CASE m # i
        BY <1>5, <3>1, <3>3, <4>2 DEF Ahead
      <4> QED
        BY <4>1, <4>2
    <3> QED
      BY <3>1, <3>2, <3>3 DEF Ahead
  <2> QED
    BY <2>1, <2>2
<1>9. ASSUME NEW n \in Instances, lease' = n, sched'[n].todo # {} PROVE LeadsLast(n)'
  <2>1. LeadsLast(n) /\ sched'[n].now = sched[n].now
    BY <1>2, <1>9
  <2>2. ASSUME NEW r \in Fires PROVE fire'[r].slot <= sched[n].now
    BY <1>1, <2>1 DEF LeadsLast
  <2>3. ASSUME NEW m \in Instances, sched'[m].todo # {} PROVE sched'[m].now <= sched[n].now
    BY <2>1, <2>3 DEF LeadsLast
  <2> QED
    BY <2>1, <2>2, <2>3 DEF LeadsLast
<1>10. SlotFiredOnce'
  BY <1>2 DEF SlotFiredOnce
<1> QED
  BY <1>3, <1>4, <1>8, <1>9, <1>10 DEF SlotInv

\* A round fires the slot that it can come to.
LEMMA SlotIsFired ==
  ASSUME SchedTypeOK, MarkInv, SlotInv, NEW i \in Instances, NEW j \in sched[i].todo, NEW r \in Fires,
         UNCHANGED <<clock, lease>>, sched[i].on = 0, sched[i].nf[j] # 0, sched[i].nf[j] <= sched[i].now,
         NewFire(r, i, j, sched[i].nf[j]), NEW P, NEW R,
         Moves(i, sched[i].todo \ {j}, sched[i].now, r, sched[i].nf, P, R)
  PROVE  SlotInv'
<1>1. /\ clock \in Nat /\ j \in JobNames
      /\ \A x \in Fires : fire[x].slot \in Nat
      /\ \A n \in Instances : sched[n].now \in Nat /\ sched[n].nf \in [JobNames -> Nat] /\ sched[n].on \in 0 .. MaxFires
  BY SchedTyped, FireTyped
<1>2. /\ \A x \in Fires : fire[x].slot <= clock
      /\ \A n \in Instances : sched[n].now <= clock
      /\ \A n \in Instances, k \in JobNames : MayCome(n, k) => Ahead(n, k)
      /\ \A n \in Instances : lease = n /\ sched[n].todo # {} => LeadsLast(n)
      /\ SlotFiredOnce
  BY DEF SlotInv
<1>3. MayCome(i, j) /\ Ahead(i, j)
  BY <1>1, <1>2 DEF MayCome
<1>4. /\ \A x \in Fires : x # r => fire'[x] = fire[x]
      /\ fire'[r].job = j /\ fire'[r].slot = sched[i].nf[j]
  BY DEF NewFire
<1>5. /\ sched'[i].todo = sched[i].todo \ {j} /\ sched'[i].now = sched[i].now /\ sched'[i].on = r
      /\ sched'[i].nf = sched[i].nf
      /\ \A n \in Instances : n # i => sched'[n] = sched[n]
  BY DEF Moves
<1>6. \A x \in Fires : fire'[x].slot <= clock'
  BY <1>1, <1>2, <1>4
<1>7. \A n \in Instances : sched'[n].now <= clock'
  BY <1>2, <1>5
<1>8. ASSUME NEW n \in Instances, NEW k \in JobNames, MayCome(n, k)'
      PROVE  MayCome(n, k) /\ sched'[n].nf = sched[n].nf /\ (n = i => k # j)
  <2>1. CASE n = i
    <3>1. r # 0
      BY SchedAssumption DEF Fires
    <3> QED
      BY <1>4, <1>5, <1>8, <2>1, <3>1 DEF MayCome
  <2>2. CASE n # i
    <3>1. sched[n].on # 0 => sched[n].on \in Fires /\ sched[n].on # r
      BY <1>1, SchedAssumption DEF MarkInv, NewFire, Fires
    <3> QED
      BY <1>4, <1>5, <1>8, <2>2, <3>1 DEF MayCome
  <2> QED
    BY <2>1, <2>2
<1>9. ASSUME NEW n \in Instances, NEW k \in JobNames, MayCome(n, k)' PROVE Ahead(n, k)'
  <2>1. MayCome(n, k) /\ sched'[n].nf = sched[n].nf /\ (n = i => k # j) /\ Ahead(n, k)
    BY <1>2, <1>8, <1>9
  <2>2. ASSUME NEW x \in Fires, fire'[x].slot # 0, fire'[x].job = k PROVE fire'[x].slot # sched[n].nf[k]
    <3>1. CASE x # r
      BY <1>4, <2>1, <2>2, <3>1 DEF Ahead
    <3>2. CASE x = r
      BY <1>3, <1>4, <2>1, <2>2, <3>2 DEF Ahead
    <3> QED
      BY <3>1, <3>2
  <2>3. ASSUME NEW m \in Instances, m # n, MayCome(m, k)' PROVE sched'[m].nf[k] # sched[n].nf[k]
    BY <1>8, <2>1, <2>3 DEF Ahead
  <2> QED
    BY <2>1, <2>2, <2>3 DEF Ahead
<1>10. ASSUME NEW n \in Instances, lease' = n, sched'[n].todo # {} PROVE LeadsLast(n)'
  <2>1. lease = n /\ sched[n].todo # {} /\ sched'[n].now = sched[n].now
    BY <1>5, <1>10
  <2>2. LeadsLast(n)
    BY <1>2, <2>1
  <2>3. ASSUME NEW x \in Fires PROVE fire'[x].slot <= sched[n].now
    <3>1. sched[i].now <= sched[n].now
      BY <2>2 DEF LeadsLast
    <3> QED
      BY <1>1, <1>4, <2>2, <3>1 DEF LeadsLast
  <2>4. ASSUME NEW m \in Instances, sched'[m].todo # {} PROVE sched'[m].now <= sched[n].now
    <3>1. sched'[m].now = sched[m].now /\ sched[m].todo # {}
      BY <1>5, <2>4
    <3> QED
      BY <2>2, <3>1 DEF LeadsLast
  <2> QED
    BY <2>1, <2>3, <2>4 DEF LeadsLast
<1>11. SlotFiredOnce'
  <2>1. ASSUME NEW x \in Fires, x # r, fire[x].job = j, fire[x].slot # 0 PROVE fire[x].slot # sched[i].nf[j]
    BY <1>3, <2>1 DEF Ahead
  <2> QED
    BY <1>2, <1>4, <2>1 DEF SlotFiredOnce
<1> QED
  BY <1>6, <1>7, <1>9, <1>10, <1>11 DEF SlotInv

\* A round begins after everything that was fired, and with no next fire of its own unless
\* the instance leads already.
LEMMA RoundBegins ==
  ASSUME ~LeaderReturns, SchedTypeOK, MarkInv, SlotInv, NEW i \in Instances, TickBegins(i)
  PROVE  SlotInv'
<1>1. /\ clock \in Nat
      /\ \A n \in Instances : sched[n].now \in Nat /\ sched[n].nf \in [JobNames -> Nat] /\ sched[n].on \in 0 .. MaxFires
  BY SchedTyped
<1>2. /\ \A x \in Fires : fire[x].slot <= clock
      /\ \A n \in Instances : sched[n].now <= clock
      /\ \A n \in Instances, k \in JobNames : MayCome(n, k) => Ahead(n, k)
      /\ SlotFiredOnce
  BY DEF SlotInv
<1>3. /\ \A x \in Fires : fire'[x].job = fire[x].job /\ fire'[x].slot = fire[x].slot
      /\ sched'[i].now = clock /\ sched'[i].on = 0 /\ sched'[i].nf = sched[i].nf /\ sched[i].on = 0
      /\ \A n \in Instances : n # i => sched'[n] = sched[n]
      /\ lease' = i /\ clock' = clock /\ lease \in {i, "none"}
      /\ lease = i \/ \A j \in JobNames : sched[i].nf[j] = 0
  BY TickBeginsEffect DEF FiresStay, Moves, MayLead
<1>4. \A n \in Instances : sched[n].on # 0 => sched[n].on \in Fires
  BY <1>1, SchedAssumption DEF Fires
<1>5. ASSUME NEW n \in Instances, NEW j \in JobNames, MayCome(n, j)' PROVE MayCome(n, j) /\ sched'[n].nf = sched[n].nf
  <2>1. CASE n = i
    BY <1>3, <1>5, <2>1 DEF MayCome
  <2>2. CASE n # i
    BY <1>3, <1>4, <1>5, <2>2 DEF MayCome
  <2> QED
    BY <2>1, <2>2
<1>6. ASSUME NEW n \in Instances, NEW j \in JobNames, MayCome(n, j)' PROVE Ahead(n, j)'
  <2>1. MayCome(n, j) /\ sched'[n].nf = sched[n].nf /\ Ahead(n, j)
    BY <1>2, <1>5, <1>6
  <2>2. ASSUME NEW m \in Instances, m # n, MayCome(m, j)' PROVE sched'[m].nf[j] # sched[n].nf[j]
    BY <1>5, <2>1, <2>2 DEF Ahead
  <2> QED
    BY <1>3, <2>1, <2>2 DEF Ahead
<1>7. ASSUME NEW n \in Instances, lease' = n PROVE LeadsLast(n)'
  BY <1>1, <1>2, <1>3, <1>7 DEF LeadsLast
<1>8. SlotFiredOnce' /\ (\A x \in Fires : fire'[x].slot <= clock') /\ \A n \in Instances : sched'[n].now <= clock'
  BY <1>1, <1>2, <1>3 DEF SlotFiredOnce
<1> QED
  BY <1>6, <1>7, <1>8 DEF SlotInv

\* A step that lets the rounds be, and at most forgets next fires
LEMMA RoundsStay ==
  ASSUME SchedTypeOK, MarkInv, SlotInv, NEW i \in Instances, UNCHANGED <<clock, lease>>,
         FiresStay \/ (\E r \in Fires, j \in JobNames : NewFire(r, i, j, 0)),
         NEW P, NEW R, NEW nf,
         Moves(i, sched[i].todo, sched[i].now, sched[i].on, nf, P, R),
         \A j \in JobNames : nf[j] \in {0, sched[i].nf[j]}
  PROVE  SlotInv'
<1>1. /\ fire' \in [Fires -> FireRecord \cup {NoFire}]
      /\ \A x \in Fires : fire'[x].slot # 0 => fire'[x].slot = fire[x].slot /\ fire'[x].job = fire[x].job
      /\ \A x \in Fires : fire[x].at # "off" => fire'[x].job = fire[x].job
  BY DEF FiresStay, NewFire
<1>2. \A n \in Instances : sched[n].on # 0 => sched[n].on \in Fires /\ fire[sched[n].on].at # "off"
  BY SchedTyped, SchedAssumption DEF MarkInv, Fires
<1>3. /\ sched' \in [Instances -> SchedRecord] /\ \A n \in Instances : n # i => sched'[n] = sched[n]
      /\ sched'[i].todo = sched[i].todo /\ sched'[i].now = sched[i].now /\ sched'[i].on = sched[i].on /\ sched'[i].nf = nf
  BY DEF Moves
<1>4. ASSUME NEW j \in JobNames, MayCome(i, j)' PROVE MayCome(i, j) /\ sched'[i].nf[j] = sched[i].nf[j]
  BY <1>1, <1>2, <1>3, <1>4 DEF MayCome
<1>5. sched'[i].now <= clock
  BY <1>3 DEF SlotInv
<1> QED
  BY <1>1, <1>2, <1>3, <1>4, <1>5, NoSlotFired

LEMMA SlotStep ==
  ~LeaderReturns /\ SchedTypeOK /\ MarkInv /\ SlotInv /\ [SchedNext]_schedVars => SlotInv'
<1> SUFFICES ASSUME ~LeaderReturns, SchedTypeOK, MarkInv, SlotInv, [SchedNext]_schedVars PROVE SlotInv'
  OBVIOUS
<1>a. /\ clock \in Nat /\ fire \in [Fires -> FireRecord \cup {NoFire}]
      /\ \A n \in Instances : sched[n].now \in Nat /\ sched[n].nf \in [JobNames -> Nat] /\ sched[n].now <= clock
      /\ \A n \in Instances : sched[n].on # 0 => sched[n].on \in Fires /\ fire[sched[n].on].at # "off"
      /\ \A x \in Fires : fire[x].slot \in Nat
  BY SchedTyped, FireTyped, SchedAssumption DEF SchedTypeOK, SlotInv, MarkInv, Fires
<1>1. CASE UNCHANGED schedVars
  BY <1>1 DEF schedVars, SlotInv, MayCome, Ahead, LeadsLast, SlotFiredOnce
<1>2. CASE LeaseExpires
  <2>1. sched' = sched /\ fire' = fire /\ clock' = clock /\ lease' \notin Instances
    BY <1>2, SchedAssumption DEF LeaseExpires
  <2>2. \A n \in Instances, j \in JobNames : MayCome(n, j)' => MayCome(n, j)
    BY <2>1 DEF MayCome
  <2>3. \A n \in Instances, j \in JobNames : MayCome(n, j)' => Ahead(n, j)'
    BY <2>1, <2>2 DEF SlotInv, Ahead
  <2> QED
    BY <2>1, <2>3 DEF SlotInv, LeadsLast, SlotFiredOnce
<1>3. CASE SlotComes
  <2>1. sched' = sched /\ fire' = fire /\ clock' = clock + 1 /\ lease' = lease
    BY <1>3 DEF SlotComes
  <2>2. \A n \in Instances, j \in JobNames : MayCome(n, j)' <=> MayCome(n, j)
    BY <2>1 DEF MayCome
  <2>3. \A n \in Instances, j \in JobNames : MayCome(n, j)' => Ahead(n, j)'
    BY <2>1, <2>2 DEF SlotInv, Ahead
  <2>4. (\A x \in Fires : fire'[x].slot <= clock') /\ \A n \in Instances : sched'[n].now <= clock'
    BY <1>a, <2>1 DEF SlotInv
  <2> QED
    BY <2>1, <2>3, <2>4 DEF SlotInv, LeadsLast, SlotFiredOnce
<1>4. ASSUME NEW i \in Instances, TickJob(i) PROVE SlotInv'
  <2>1. sched[i].on = 0 /\ UNCHANGED <<clock, lease>>
    BY <1>4, TickJobEffect
  <2>2. ASSUME NEW j \in sched[i].todo, NEW r \in Fires, NewFire(r, i, j, sched[i].nf[j]),
               sched[i].nf[j] # 0, sched[i].nf[j] <= sched[i].now,
               Moves(i, sched[i].todo \ {j}, sched[i].now, r, sched[i].nf,
                     sched[i].pending \cup {r}, sched[i].running \cup {j})
        PROVE  SlotInv'
    BY <2>1, <2>2, SlotIsFired
  <2>3. ASSUME NEW j \in sched[i].todo, fire' = fire, NEW v \in 0 .. MaxClock + 1, NextFire(i, j, v),
               Moves(i, sched[i].todo \ {j}, sched[i].now, 0, [sched[i].nf EXCEPT ![j] = v],
                     sched[i].pending, sched[i].running)
        PROVE  SlotInv'
    <3>1. /\ sched' \in [Instances -> SchedRecord] /\ \A n \in Instances : n # i => sched'[n] = sched[n]
          /\ sched'[i].todo = sched[i].todo \ {j} /\ sched'[i].now = sched[i].now /\ sched'[i].on = 0
          /\ sched'[i].nf = [sched[i].nf EXCEPT ![j] = v]
      BY <2>3 DEF Moves
    <3>2. j \in JobNames /\ sched'[i].nf[j] = v /\ \A k \in JobNames : k # j => sched'[i].nf[k] = sched[i].nf[k]
      BY <1>a, <3>1, SchedTyped
    <3>3. ASSUME NEW k \in JobNames, MayCome(i, k)'
          PROVE  \/ MayCome(i, k) /\ sched'[i].nf[k] = sched[i].nf[k]
                 \/ sched'[i].nf[k] > clock
                 \/ lease = i /\ sched[i].todo # {} /\ sched'[i].nf[k] = sched[i].now + 1
      <4>1. CASE k # j
        BY <2>1, <3>1, <3>2, <3>3, <4>1 DEF MayCome
      <4>2. CASE k = j
        <5>1. lease = i /\ v # 0
          BY <2>1, <3>1, <3>2, <3>3, <4>2 DEF MayCome
        <5>2. CASE v = sched[i].nf[j]
          BY <2>1, <3>2, <4>2, <5>1, <5>2 DEF MayCome
        <5>3. CASE v = sched[i].now + 1
          BY <3>2, <4>2, <5>1, <5>3
        <5>4. CASE v = clock + 1
          BY <1>a, <3>2, <4>2, <5>4
        <5> QED
          BY <2>3, <5>1, <5>2, <5>3, <5>4 DEF NextFire
      <4> QED
        BY <4>1, <4>2
    <3>4. sched'[i].todo # {} => sched[i].todo # {} /\ sched'[i].now = sched[i].now
      BY <3>1
    <3> QED
      BY <1>a, <2>1, <2>3, <3>1, <3>3, <3>4, NoSlotFired
  <2> QED
    BY <1>4, <2>2, <2>3, TickJobEffect
<1>5. ASSUME NEW i \in Instances, TickResumes(i) PROVE SlotInv'
  <2> DEFINE j == fire[sched[i].on].job
  <2>1. /\ sched' \in [Instances -> SchedRecord] /\ \A n \in Instances : n # i => sched'[n] = sched[n]
        /\ sched'[i].todo = sched[i].todo /\ sched'[i].now = sched[i].now /\ sched'[i].on = 0
        /\ sched'[i].nf = [sched[i].nf EXCEPT ![j] = clock + 1] /\ j \in JobNames
        /\ fire' = fire /\ clock' = clock /\ lease' = lease
    BY <1>5, TickResumesEffect DEF Moves
  <2> HIDE DEF j
  <2>2. sched'[i].nf[j] = clock + 1 /\ \A k \in JobNames : k # j => sched'[i].nf[k] = sched[i].nf[k]
    BY <1>a, <2>1
  <2>3. ASSUME NEW k \in JobNames, MayCome(i, k)'
        PROVE  (MayCome(i, k) /\ sched'[i].nf[k] = sched[i].nf[k]) \/ sched'[i].nf[k] > clock
    <3>1. CASE k = j
      BY <1>a, <2>2, <3>1
    <3>2. CASE k # j
      BY <2>1, <2>2, <2>3, <3>2 DEF MayCome, j
    <3> QED
      BY <3>1, <3>2
  <2> QED
    BY <1>a, <2>1, <2>3, NoSlotFired
<1>6. ASSUME NEW i \in Instances, InstanceStops(i) \/ InstanceStarts(i) PROVE SlotInv'
  <2>1. /\ Moves(i, {}, 0, 0, [j \in JobNames |-> 0], {}, {}) /\ FiresStay /\ UNCHANGED <<clock, lease>>
    BY <1>6, InstanceStopsEffect, InstanceStartsEffect, SameFiresStay
  <2>2. \A k \in JobNames : ~MayCome(i, k)'
    BY <2>1 DEF Moves, MayCome
  <2>3. /\ sched' \in [Instances -> SchedRecord] /\ \A n \in Instances : n # i => sched'[n] = sched[n]
        /\ sched'[i].todo = {} /\ sched'[i].now = 0 /\ fire' \in [Fires -> FireRecord \cup {NoFire}]
        /\ \A x \in Fires : fire'[x].slot = fire[x].slot /\ fire'[x].job = fire[x].job
    BY <2>1 DEF Moves, FiresStay
  <2> QED
    BY <1>a, <2>1, <2>2, <2>3, NoSlotFired
<1>7. ASSUME NEW i \in Instances, NEW j \in JobNames, CmdRun(i, j) \/ MisfireRuns(i, j) PROVE SlotInv'
  BY <1>7, CommandEffect, RoundsStay, SameFiresStay
<1>8. ASSUME NEW i \in Instances, NEW j \in JobNames, NEW p \in BOOLEAN, CmdPause(i, j, p) PROVE SlotInv'
  <2> DEFINE f == [sched[i].nf EXCEPT ![j] = 0]
  <2>1. Moves(i, sched[i].todo, sched[i].now, sched[i].on, f, sched[i].pending, sched[i].running)
        /\ FiresStay /\ UNCHANGED <<clock, lease>>
    BY <1>8, CmdPauseEffect, SameFiresStay
  <2>2. \A k \in JobNames : f[k] \in {0, sched[i].nf[k]}
    BY <1>a
  <2> HIDE DEF f
  <2> QED
    BY <2>1, <2>2, RoundsStay
<1>9. ASSUME NEW i \in Instances, NEW js \in SUBSET JobNames, WriteJobs(i, js) PROVE SlotInv'
  <2> DEFINE f == [j \in JobNames |-> 0]
  <2>1. Moves(i, sched[i].todo, sched[i].now, sched[i].on, f, sched[i].pending, sched[i].running)
        /\ FiresStay /\ UNCHANGED <<clock, lease>>
    BY <1>9, WriteJobsEffect, SameFiresStay
  <2>2. \A k \in JobNames : f[k] \in {0, sched[i].nf[k]}
    OBVIOUS
  <2> HIDE DEF f
  <2> QED
    BY <2>1, <2>2, RoundsStay
<1>10. ASSUME NEW i \in Instances, NEW j \in JobNames, AddJob(i, j) \/ DeleteJob(i, j) PROVE SlotInv'
  BY <1>10, <1>9, SchedTyped DEF AddJob, DeleteJob
<1>11. ASSUME NEW r \in Fires, ReplyArrives(r) PROVE SlotInv'
  <2> DEFINE i == fire[r].inst
             P == sched[i].pending \ PendingFor(i, r)
             R == sched[i].running \ {fire[p].job : p \in PendingFor(i, r)}
  <2>1. /\ i \in Instances /\ FiresStay /\ UNCHANGED <<clock, lease>>
        /\ Moves(i, sched[i].todo, sched[i].now, sched[i].on, sched[i].nf, P, R)
    BY <1>11, ReplyArrivesEffect
  <2> HIDE DEF P, R, i
  <2> QED
    BY <2>1, RoundsStay
<1>12. ASSUME NEW r \in Fires, ReplyLost(r) \/ DeadlinePasses(r) PROVE SlotInv'
  <2>1. FiresStay /\ UNCHANGED <<clock, lease, sched>>
    BY <1>12, ReplyLostEffect
  <2>2. \A n \in Instances, j \in JobNames : (MayCome(n, j)' <=> MayCome(n, j)) /\ (Ahead(n, j) => Ahead(n, j)')
    BY <1>a, <2>1 DEF FiresStay, MayCome, Ahead
  <2>3. \A n \in Instances : LeadsLast(n) => LeadsLast(n)'
    BY <2>1 DEF FiresStay, LeadsLast
  <2>4. SlotFiredOnce' /\ (\A x \in Fires : fire'[x].slot <= clock') /\ \A n \in Instances : sched'[n].now <= clock'
    BY <2>1 DEF FiresStay, SlotInv, SlotFiredOnce
  <2> QED
    BY <2>1, <2>2, <2>3, <2>4 DEF SlotInv
<1> QED
  BY <1>1, <1>2, <1>3, <1>4, <1>5, <1>6, <1>7, <1>8, <1>10, <1>11, <1>12, RoundBegins DEF SchedNext
-----------------------------------------------------------------------------
LEMMA MarksInductive == SchedSpec => [](SchedTypeOK /\ MarkInv)
BY SchedInits, SchedTypesStep, MarkStep, PTL DEF SchedSpec

\* Every field of a scheduler and of a fire has its type, numbers stay within their bounds
\* (the Scheduler and its _pending, _next_fire and _running_jobs).
THEOREM SchedTypesAlways == SchedSpec => []SchedTypeOK
BY MarksInductive, PTL

\* The marks in _running_jobs are the fires that wait in _pending, one per job and at most
\* max_concurrent, whatever fires: a tick, a misfire task or /cron run; also after watchdogs,
\* late replies, restarts and changed job lists (_try_fire, _cmd_run, on_reply,
\* _sweep_watchdogs).
THEOREM MarksArePendingAlways == SchedSpec => []MarksArePending
<1>1. ASSUME SchedTypeOK, MarkInv PROVE MarksArePending
  <2> SUFFICES ASSUME NEW i \in Instances
               PROVE  /\ sched[i].running = {fire[p].job : p \in sched[i].pending}
                      /\ Cardinality(sched[i].pending) = Cardinality(sched[i].running)
                      /\ Cardinality(sched[i].running) <= MaxConcurrent
    BY DEF MarksArePending
  <2> DEFINE P == sched[i].pending
             R == sched[i].running
             f == [p \in P |-> fire[p].job]
  <2>1. sched[i].running = {fire[p].job : p \in P}
    BY <1>1 DEF MarkInv
  <2>2. f \in Bijection(P, R)
    BY <1>1, <2>1 DEF MarkInv, Bijection, Injection, Surjection, IsInjective
  <2>3. IsFiniteSet(P)
    <3>1. IsFiniteSet(1 .. MaxFires)
      BY FS_Interval, SchedAssumption
    <3> QED
      BY <1>1, <3>1, FS_Subset, SchedTyped DEF Fires
  <2>4. Cardinality(P) = Cardinality(R)
    <3> HIDE DEF P, R, f
    <3> QED
      BY <2>2, <2>3, FS_Bijection DEF ExistsBijection
  <2> QED
    BY <1>1, <2>1, <2>4 DEF MarkInv
<1> QED
  BY <1>1, MarksInductive, PTL

\* A fire recorded as answered was answered by its own run, although on_reply knows it only
\* by its session key, provided that no run outlives its watchdog.
THEOREM AnswersAreOwnAlways == ASSUME PunctualRuns PROVE SchedSpec => []AnswersAreOwn
<1>1. SchedTypeOK /\ MarkInv /\ LiveInv /\ [SchedNext]_schedVars => (SchedTypeOK /\ MarkInv /\ LiveInv)'
  BY SchedTypesStep, MarkStep, LiveStep
<1>2. LiveInv => AnswersAreOwn
  BY DEF LiveInv, AnswersAreOwn
<1> QED
  BY <1>1, <1>2, SchedInits, PTL DEF SchedSpec

\* A slot of a job is fired once however the lease passes between instances, whose rounds may
\* still be under way when they lose it, provided that an instance whose next fires are of an
\* earlier lead does not lead again (leader_lease, _tick_once).
THEOREM SlotFiredOnceAlways == ASSUME ~LeaderReturns PROVE SchedSpec => []SlotFiredOnce
<1>1. SchedTypeOK /\ MarkInv /\ SlotInv /\ [SchedNext]_schedVars => (SchedTypeOK /\ MarkInv /\ SlotInv)'
  BY SchedTypesStep, MarkStep, SlotStep
<1>2. SlotInv => SlotFiredOnce
  BY DEF SlotInv
<1> QED
  BY <1>1, <1>2, SchedInits, PTL DEF SchedSpec
=============================================================================
