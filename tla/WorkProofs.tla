------------------------------ MODULE WorkProofs ------------------------------
(* Theorems about what runs on behalf of a session, for any number of goals, jobs,  *)
(* steps, executors, children, runs and beats.  One invariant per part:             *)
(*   goals      every job is where its goal's record says, one job is past the gate *)
(*              of the session, and an armed goal has a job or a trigger;           *)
(*   plan       a step in flight is linked to its one task, a ready one has its     *)
(*              dependencies behind it, and one executor knows step and task;       *)
(*   children   an observer is the registered one of its child, which is reported   *)
(*              as running its run, and a run that nobody asked to stop has one;    *)
(*   heartbeat  a live execution keeps its entry busy, which nothing evicts.        *)
EXTENDS MCWork, ExecutionProofs, FiniteSetTheorems, WellFoundedInduction, TLAPS

-----------------------------------------------------------------------------
\* A set of naturals has a least element, since < is well-founded.
LEMMA LeastOf ==
  ASSUME NEW S \in SUBSET Nat, S # {}
  PROVE  \E x \in S : \A y \in S : x <= y
<1> DEFINE R == {ss \in Nat \X Nat : ss[1] < ss[2]}
<1>1. IsWellFoundedOn(R, Nat)
  BY NatLessThanWellFounded DEF OpToRel
<1>2. PICK x \in S : \A y \in S : <<y, x>> \notin R
  BY <1>1, WFMin
<1>3. \A y \in S : ~(y < x)
  BY <1>2
<1> QED BY <1>3

-----------------------------------------------------------------------------
(* Goals.                                                                    *)

Statuses == {"none", "active", "paused", "blocked", "gone"} \cup GoalTerminal
GoalRecords == [status : Statuses, armed : BOOLEAN, rounds : 0 .. RoundCap, max : 1 .. RoundCap,
                current : 0 .. MaxGoalTasks]
JobPlaces == {"off", "sleep", "drain", "gate", "submit", "wait", "timeout", "done"}
JobRecords == [goal : Goals \cup {"none"}, at : JobPlaces, task : 0 .. MaxGoalTasks,
               soon : BOOLEAN, error : BOOLEAN]
Holding == {"submit", "wait", "timeout"}

\* A stored goal keeps its limit, and only an armed one has a round.
GoodGoal(r) == r \in GoalRecords /\ r.rounds <= r.max /\ (r.current # 0 => IsArmed(r))

\* A job has a goal, a round from its reservation to its end, and leaves at most once.
GoodJob(w) ==
  /\ w \in JobRecords
  /\ w.at = "off" <=> w.goal = "none"
  /\ w.task # 0 <=> (w.at \in Holding \/ w.error)
  /\ w.soon \/ w.error => w.at = "done"
  /\ ~(w.soon /\ w.error)

GoalTypes ==
  /\ goal \in [Goals -> GoalRecords] /\ \A g \in Goals : GoodGoal(goal[g])
  /\ job \in [Jobs -> JobRecords] /\ \A j \in Jobs : GoodJob(job[j])
  /\ jobs \in [Goals -> Jobs \cup {"none"}]
  /\ round \in [Rounds -> {"none", "reserved"} \cup RoundRuns \cup RoundEnded]
  /\ line \in Seq(Jobs)
  /\ pausing \subseteq Goals /\ triggers \subseteq Goals /\ userWork \in BOOLEAN
  /\ goalOps \in 0 .. MaxGoalOps
  /\ toolRead # NoRead => toolRead.id \in Goals /\ GoodGoal(toolRead.record)

\* The registered job of a goal is one of its jobs.
RegisteredIsOwn == \A g \in Goals : jobs[g] # "none" => job[jobs[g]].goal = g
\* Who waits for the gate is in its line.
GateIsInLine == \A j \in Jobs : job[j].at = "gate" => \E i \in 1 .. Len(line) : line[i] = j
\* One job is past the gate, and while it submits its round no other runs.
OneHolder == \A j, k \in Jobs : job[j].at \in Holding /\ job[k].at \in Holding => j = k
OneRuns == \A t, u \in Rounds : round[t] \in RoundRuns /\ round[u] \in RoundRuns => t = u
SubmitsAlone == \A j \in Jobs : job[j].at = "submit" => \A t \in Rounds : round[t] \notin RoundRuns
\* User work found no job past its idle delay, and holds back the others.
UserIsQuiet ==
  userWork => \A j \in Jobs : job[j].at \in {"off", "sleep", "drain", "done"} /\ ~job[j].soon /\ ~job[j].error
\* An armed goal has a job or a trigger; under user work it is not a job that only has to leave.
Drives(g, j) == job[j].goal = g /\ (userWork => job[j].at # "done")
Driven == \A g \in Goals : WantsRound(goal[g]) => g \in triggers \/ \E j \in Jobs : Drives(g, j)
\* A goal whose round ran out of time has no other.
LateHasNone == \A j \in Jobs : job[j].at = "timeout" => goal[job[j].goal].current = 0

GoalInv ==
  /\ GoalTypes /\ RegisteredIsOwn /\ GateIsInLine /\ OneHolder /\ OneRuns /\ SubmitsAlone
  /\ UserIsQuiet /\ Driven /\ CurrentIsAwaited /\ LateHasNone
-----------------------------------------------------------------------------
\* What the pure changes of a goal keep.
LEMMA EditedIsGood ==
  ASSUME GoalAssumption, NEW r, GoodGoal(r), NEW s \in Statuses, NEW a \in BOOLEAN
  PROVE  /\ GoodGoal([r EXCEPT !.status = s, !.armed = a, !.current = 0])
         /\ GoodGoal([r EXCEPT !.armed = a, !.current = 0])
         /\ GoodGoal([r EXCEPT !.current = 0])
<1>1. r \in GoalRecords /\ 0 \in 0 .. MaxGoalTasks /\ r.rounds <= r.max
  BY DEF GoodGoal, GoalAssumption
<1>2. /\ [r EXCEPT !.status = s, !.armed = a, !.current = 0] \in GoalRecords
      /\ [r EXCEPT !.armed = a, !.current = 0] \in GoalRecords
      /\ [r EXCEPT !.current = 0] \in GoalRecords
  BY <1>1 DEF GoalRecords
<1> QED BY <1>1, <1>2 DEF GoodGoal, GoalRecords

LEMMA StoppedIsGood ==
  ASSUME GoalAssumption, NEW r, GoodGoal(r)
  PROVE  /\ GoodGoal(PauseRecord(r)) /\ PauseRecord(r).current = 0 /\ ~IsArmed(PauseRecord(r))
         /\ GoodGoal(BlockRecord(r)) /\ BlockRecord(r).current = 0 /\ ~IsArmed(BlockRecord(r))
         /\ GoodGoal(CancelRecord(r)) /\ CancelRecord(r).current = 0 /\ ~IsArmed(CancelRecord(r))
         /\ GoodGoal(CompleteRecord(r)) /\ CompleteRecord(r).current = 0 /\ ~IsArmed(CompleteRecord(r))
<1>1. {"paused", "blocked", "cancelled", "completed"} \subseteq Statuses
  BY DEF Statuses, GoalTerminal
<1>2. r \in GoalRecords
  BY DEF GoodGoal
<1>3. GoodGoal(PauseRecord(r)) /\ GoodGoal(BlockRecord(r)) /\ GoodGoal(CancelRecord(r)) /\ GoodGoal(CompleteRecord(r))
  BY <1>1, EditedIsGood, Zenon DEF PauseRecord, BlockRecord, CancelRecord, CompleteRecord
<1> QED BY <1>2, <1>3 DEF GoalRecords, IsArmed, PauseRecord, BlockRecord, CancelRecord, CompleteRecord

LEMMA DisarmedIsGood ==
  ASSUME GoalAssumption, NEW r, GoodGoal(r)
  PROVE  GoodGoal(DisarmRecord(r)) /\ DisarmRecord(r).current = 0 /\ ~WantsRound(DisarmRecord(r))
<1>1. r \in GoalRecords /\ "active" \in Statuses /\ "active" \notin GoalTerminal
  BY DEF GoodGoal, Statuses, GoalTerminal
<1>2. CASE r.status \in GoalTerminal
  BY <1>1, <1>2 DEF GoodGoal, DisarmRecord, IsArmed, WantsRound, GoalRecords
<1>3. CASE r.status \notin GoalTerminal
  <2>1. DisarmRecord(r) = [r EXCEPT !.armed = FALSE, !.current = 0]
    BY <1>3 DEF DisarmRecord
  <2> QED BY <1>1, <2>1, EditedIsGood DEF GoalRecords, WantsRound, IsArmed
<1> QED BY <1>2, <1>3

LEMMA OpenedIsGood ==
  ASSUME GoalAssumption, NEW r, GoodGoal(r)
  PROVE  /\ GoodGoal(ResumeRecord(r)) /\ ResumeRecord(r).current = 0
         /\ GoodGoal(FinishRound(r)) /\ FinishRound(r).current = 0
         /\ r.status = "none" => GoodGoal(NewGoal(r)) /\ NewGoal(r).current = 0
         /\ IsArmed(FinishRound(r)) <=> IsArmed(r)
<1>1. r \in GoalRecords /\ "active" \in Statuses
  BY DEF GoodGoal, Statuses, GoalTerminal
<1>2. GoodGoal(ResumeRecord(r)) /\ GoodGoal(FinishRound(r))
  BY <1>1, EditedIsGood, Zenon DEF ResumeRecord, FinishRound
<1>3. ASSUME r.status = "none" PROVE GoodGoal(NewGoal(r)) /\ NewGoal(r).current = 0
  <2>1. r.current = 0 /\ r.rounds <= r.max
    BY <1>3 DEF GoodGoal, IsArmed
  <2>2. NewGoal(r) \in GoalRecords
    BY <1>1 DEF GoalRecords, NewGoal
  <2> QED BY <1>1, <2>1, <2>2 DEF GoodGoal, GoalRecords, NewGoal
<1> QED BY <1>1, <1>2, <1>3 DEF GoalRecords, IsArmed, ResumeRecord, FinishRound

LEMMA ReservedIsGood ==
  ASSUME GoalAssumption, NEW r, GoodGoal(r), NEW t \in Rounds, WantsRound(r), ~RoundsSpent(r)
  PROVE  GoodGoal(ReserveRound(r, t)) /\ ReserveRound(r, t).current = t /\ ~WantsRound(ReserveRound(r, t))
<1>1. /\ r \in GoalRecords /\ t \in 0 .. MaxGoalTasks /\ t # 0 /\ r.rounds + 1 \in 0 .. RoundCap
      /\ r.rounds + 1 <= r.max
  BY DEF GoodGoal, GoalRecords, Rounds, RoundsSpent, GoalAssumption
<1>2. ReserveRound(r, t) \in GoalRecords
  BY <1>1 DEF GoalRecords, ReserveRound
<1> QED BY <1>1, <1>2 DEF GoodGoal, GoalRecords, ReserveRound, WantsRound, IsArmed

\* An operation that leaves jobs alone may stop a goal, or arm it with a trigger.
LEMMA RecordChanges ==
  ASSUME GoalInv, NEW g \in Goals, NEW r, GoodGoal(r), r.current \in {0, goal[g].current},
         goal' = [goal EXCEPT ![g] = r],
         WantsRound(r) => WantsRound(goal[g]) \/ g \in triggers',
         triggers \subseteq triggers', triggers' \subseteq Goals, pausing' \subseteq Goals,
         UNCHANGED <<job, jobs, line>>, userWork' \in BOOLEAN, userWork' => userWork,
         goalOps' \in 0 .. MaxGoalOps,
         toolRead' # NoRead => toolRead'.id \in Goals /\ GoodGoal(toolRead'.record),
         round' \in [Rounds -> {"none", "reserved"} \cup RoundRuns \cup RoundEnded],
         \A t \in Rounds : round'[t] \in RoundRuns => round[t] \in RoundRuns
  PROVE  GoalInv'
<1> USE DEF GoalInv
<1>1. GoalTypes'
  <2>2. r \in GoalRecords
    BY DEF GoodGoal
  <2>3. goal' \in [Goals -> GoalRecords] /\ \A h \in Goals : GoodGoal(goal'[h])
    BY <2>2 DEF GoalTypes
  <2> QED BY <2>3 DEF GoalTypes
<1>3. RegisteredIsOwn' /\ GateIsInLine' /\ OneHolder'
  BY DEF RegisteredIsOwn, GateIsInLine, OneHolder
<1>4. OneRuns' /\ SubmitsAlone'
  BY DEF OneRuns, SubmitsAlone
<1>5. UserIsQuiet'
  BY DEF UserIsQuiet
<1>6. \A h \in Goals : goal'[h] = IF h = g THEN r ELSE goal[h]
  BY DEF GoalTypes
<1>7. Driven'
  BY <1>6, ZenonT(40) DEF Driven, Drives
<1>8. CurrentIsAwaited'
  BY <1>6 DEF CurrentIsAwaited
<1>9. LateHasNone'
  <2>1. \A j \in Jobs : job[j].at = "timeout" => job[j].goal \in Goals
    BY SMTT(20) DEF GoalTypes, GoodJob, JobRecords
  <2> QED BY <1>6, <2>1 DEF LateHasNone
<1> QED BY <1>1, <1>3, <1>4, <1>5, <1>7, <1>8, <1>9

Sleeps(g) == [NoJob EXCEPT !.goal = g, !.at = "sleep"]

\* trigger leaves a goal with a job that is not done, of its own.
LEMMA TriggerMakesJob ==
  ASSUME GoalAssumption, NEW g \in Goals,
         NEW js \in [Jobs -> JobRecords], \A j \in Jobs : GoodJob(js[j]),
         NEW rg \in [Goals -> Jobs \cup {"none"}], \A h \in Goals : rg[h] # "none" => js[rg[h]].goal = h,
         TriggerGoal(g, js, rg)
  PROVE  /\ job' \in [Jobs -> JobRecords] /\ \A j \in Jobs : GoodJob(job'[j])
         /\ jobs' \in [Goals -> Jobs \cup {"none"}] /\ RegisteredIsOwn'
         /\ \A j \in Jobs : job'[j] = js[j] \/ (js[j].at = "off" /\ job'[j] = Sleeps(g))
         /\ \E j \in Jobs : job'[j].goal = g /\ job'[j].at # "done"
<1>1. CASE rg[g] # "none" /\ js[rg[g]].at # "done"
  <2>1. job' = js /\ jobs' = rg /\ rg[g] \in Jobs
    BY <1>1 DEF TriggerGoal
  <2> QED BY <1>1, <2>1 DEF RegisteredIsOwn
<1>2. CASE ~(rg[g] # "none" /\ js[rg[g]].at # "done")
  <2> DEFINE n == CHOOSE x \in FreeJobs(js) : TRUE
  <2>1. /\ n \in Jobs /\ js[n].at = "off"
        /\ job' = [js EXCEPT ![n] = Sleeps(g)] /\ jobs' = [rg EXCEPT ![g] = n]
    BY <1>2 DEF TriggerGoal, FreeJobs, Sleeps
  <2> HIDE DEF n
  <2>2. /\ Sleeps(g).goal = g /\ Sleeps(g).at = "sleep" /\ Sleeps(g).task = 0
        /\ ~Sleeps(g).soon /\ ~Sleeps(g).error /\ g # "none"
    BY DEF Sleeps, NoJob, GoalAssumption
  <2>3. Sleeps(g) \in JobRecords
    <3>1. NoJob \in JobRecords
      BY DEF NoJob, JobRecords, JobPlaces, GoalAssumption
    <3>2. "sleep" \in JobPlaces
      BY DEF JobPlaces
    <3> QED BY <3>1, <3>2 DEF Sleeps, JobRecords
  <2>4. GoodJob(Sleeps(g))
    BY <2>2, <2>3 DEF GoodJob, Holding
  <2>5. \A j \in Jobs : job'[j] = IF j = n THEN Sleeps(g) ELSE js[j]
    BY <2>1
  <2>6. job' \in [Jobs -> JobRecords] /\ \A j \in Jobs : GoodJob(job'[j])
    BY <2>1, <2>3, <2>4
  <2>7. jobs' \in [Goals -> Jobs \cup {"none"}]
    BY <2>1
  <2>8. js[n].goal = "none"
    BY <2>1 DEF GoodJob
  <2>9. ASSUME NEW h \in Goals, jobs'[h] # "none" PROVE job'[jobs'[h]].goal = h
    <3>1. CASE h = g
      BY <2>1, <2>2, <2>5, <3>1
    <3>2. CASE h # g
      <4>1. jobs'[h] = rg[h] /\ rg[h] \in Jobs /\ js[rg[h]].goal = h /\ h # "none"
        BY <2>1, <2>9, <3>2 DEF GoalAssumption
      <4> QED BY <2>5, <2>8, <4>1
    <3> QED BY <3>1, <3>2
  <2>10. \E j \in Jobs : job'[j].goal = g /\ job'[j].at # "done"
    BY <2>1, <2>2, <2>5
  <2>11. \A j \in Jobs : job'[j] = js[j] \/ (js[j].at = "off" /\ job'[j] = Sleeps(g))
    BY <2>1, <2>5
  <2> QED BY <2>6, <2>7, <2>9, <2>10, <2>11 DEF RegisteredIsOwn
<1> QED BY <1>1, <1>2

\* A goal is triggered, by an operation on it or when one of its jobs leaves.
LEMMA GoalIsTriggered ==
  ASSUME GoalAssumption, GoalInv, NEW g \in Goals, NEW r, GoodGoal(r), r.current = 0 \/ r = goal[g],
         goal' = [goal EXCEPT ![g] = r],
         NEW js \in [Jobs -> JobRecords], \A j \in Jobs : GoodJob(js[j]),
         \A j \in Jobs : (job[j].goal = g /\ job[j].at = "done" /\ ~job[j].error) \/ js[j] = job[j],
         \A j \in Jobs : js[j].at \in {job[j].at, "off"} /\ (js[j].soon => job[j].soon) /\ (js[j].error => job[j].error),
         NEW rg \in [Goals -> Jobs \cup {"none"}], \A h \in Goals : rg[h] # "none" => js[rg[h]].goal = h,
         TriggerGoal(g, js, rg),
         triggers \ {g} \subseteq triggers', triggers' \subseteq Goals,
         UNCHANGED <<line, round, pausing, toolRead, userWork>>, goalOps' \in 0 .. MaxGoalOps
  PROVE  GoalInv'
<1> USE DEF GoalInv
<1>1. /\ job' \in [Jobs -> JobRecords] /\ \A j \in Jobs : GoodJob(job'[j])
      /\ jobs' \in [Goals -> Jobs \cup {"none"}] /\ RegisteredIsOwn'
      /\ \A j \in Jobs : job'[j] = js[j] \/ (js[j].at = "off" /\ job'[j] = Sleeps(g))
      /\ \E j \in Jobs : job'[j].goal = g /\ job'[j].at # "done"
  BY TriggerMakesJob
<1>2. \A h \in Goals : goal'[h] = IF h = g THEN r ELSE goal[h]
  BY DEF GoalTypes
<1>3. GoalTypes'
  <2>1. r \in GoalRecords
    BY DEF GoodGoal
  <2>2. goal' \in [Goals -> GoalRecords] /\ \A h \in Goals : GoodGoal(goal'[h])
    BY <2>1 DEF GoalTypes
  <2> QED BY <1>1, <2>2 DEF GoalTypes
<1>4. Sleeps(g).at = "sleep" /\ Sleeps(g).task = 0 /\ ~Sleeps(g).soon /\ ~Sleeps(g).error
  BY DEF Sleeps, NoJob
\* A job that has a round, or is past its idle delay, stays as it is.
<1>5. \A j \in Jobs : job'[j].at \in Holding \cup {"gate"} => job'[j] = job[j]
  BY <1>1, <1>4 DEF Holding
<1>6. \A j \in Jobs : job[j].at \notin {"off", "done"} \/ job[j].error => job'[j] = job[j]
  BY <1>1, <1>4 DEF GoalTypes, GoodJob
<1>7. GateIsInLine' /\ OneHolder' /\ OneRuns' /\ SubmitsAlone'
  BY <1>5, ZenonT(40) DEF GateIsInLine, OneHolder, OneRuns, SubmitsAlone, Holding
<1>8. UserIsQuiet'
  BY <1>1, <1>4, SMTT(20) DEF UserIsQuiet
<1>9. ASSUME NEW h \in Goals, WantsRound(goal'[h]) PROVE h \in triggers' \/ \E j \in Jobs : Drives(h, j)'
  <2>1. CASE h = g
    BY <1>1, <2>1 DEF Drives
  <2>2. CASE h # g
    <3>1. CASE h \in triggers
      BY <2>2, <3>1
    <3>2. CASE h \notin triggers
      <4>1. PICK j \in Jobs : Drives(h, j)
        BY <1>2, <1>9, <2>2, <3>2 DEF Driven
      <4>2. js[j] = job[j] /\ job[j].at # "off"
        BY <2>2, <4>1 DEF Drives, GoalTypes, GoodJob, GoalAssumption
      <4>3. job'[j] = job[j]
        BY <1>1, <4>2
      <4> QED BY <4>1, <4>3 DEF Drives
    <3> QED BY <3>1, <3>2
  <2> QED BY <2>1, <2>2
<1>10. CurrentIsAwaited'
  <2>1. ASSUME NEW h \in Goals, goal'[h].current # 0
        PROVE  \E j \in Jobs : job'[j].goal = h /\ job'[j].task = goal'[h].current
    <3>1. goal'[h].current = goal[h].current
      BY <1>2, <2>1
    <3>2. PICK j \in Jobs : job[j].goal = h /\ job[j].task = goal[h].current
      BY <2>1, <3>1 DEF CurrentIsAwaited
    <3>3. job[j].at \in Holding \/ job[j].error
      BY <2>1, <3>1, <3>2 DEF GoalTypes, GoodJob
    <3>4. job'[j] = job[j]
      BY <1>6, <3>3 DEF Holding
    <3> QED BY <3>1, <3>2, <3>4
  <2> QED BY <2>1 DEF CurrentIsAwaited
<1>11. LateHasNone'
  <2>1. ASSUME NEW j \in Jobs, job'[j].at = "timeout" PROVE goal'[job'[j].goal].current = 0
    <3>1. job'[j] = job[j] /\ job[j].goal \in Goals
      BY <1>5, <2>1, SMTT(20) DEF Holding, GoalTypes, GoodJob, JobRecords
    <3> QED BY <1>2, <2>1, <3>1 DEF LateHasNone
  <2> QED BY <2>1 DEF LateHasNone
<1> QED BY <1>1, <1>3, <1>7, <1>8, <1>9, <1>10, <1>11 DEF Driven
-----------------------------------------------------------------------------
InTheLine(q, j) == \E i \in 1 .. Len(q) : q[i] = j

\* A job moves on, perhaps with a change of its goal.
LEMMA JobMoves ==
  ASSUME GoalAssumption, GoalInv, NEW j \in Jobs, job[j].at # "off",
         NEW w, GoodJob(w), w.goal = job[j].goal, w.at # "off", job' = [job EXCEPT ![j] = w],
         NEW r, GoodGoal(r), goal' = [goal EXCEPT ![w.goal] = r],
         w.at \in Holding => job[j].at \in Holding \/ GateHolders = {},
         line' \in Seq(Jobs), w.at = "gate" => InTheLine(line', j),
         \A k \in Jobs \ {j} : InTheLine(line, k) => InTheLine(line', k),
         r.current # 0 => \/ r.current = w.task /\ GateHolders = {}
                          \/ r.current = goal[w.goal].current /\ (job[j].task = r.current => w.task = r.current),
         w.at = "timeout" => r.current = 0,
         WantsRound(r) => (userWork => w.at # "done"),
         userWork => w.at \in {"sleep", "drain", "done"} /\ ~w.soon /\ ~w.error,
         round' \in [Rounds -> {"none", "reserved"} \cup RoundRuns \cup RoundEnded], OneRuns', SubmitsAlone',
         UNCHANGED <<jobs, pausing, triggers, toolRead, userWork, goalOps>>
  PROVE  GoalInv'
<1> USE DEF GoalInv
<1>1. w.goal \in Goals
  BY SMTT(20) DEF GoodJob, JobRecords, GoalTypes
<1>2. \A h \in Goals : goal'[h] = IF h = w.goal THEN r ELSE goal[h]
  BY DEF GoalTypes
<1>3. \A k \in Jobs : job'[k] = IF k = j THEN w ELSE job[k]
  BY DEF GoalTypes
<1>4. GoalTypes'
  <2>1. r \in GoalRecords /\ w \in JobRecords
    BY DEF GoodGoal, GoodJob
  <2>2. goal' \in [Goals -> GoalRecords] /\ \A h \in Goals : GoodGoal(goal'[h])
    BY <2>1 DEF GoalTypes
  <2>3. job' \in [Jobs -> JobRecords] /\ \A k \in Jobs : GoodJob(job'[k])
    BY <2>1 DEF GoalTypes
  <2> QED BY <2>2, <2>3 DEF GoalTypes
<1>5. RegisteredIsOwn'
  BY <1>3 DEF RegisteredIsOwn, GoalTypes
<1>6. GateIsInLine'
  <2>1. ASSUME NEW k \in Jobs, job'[k].at = "gate" PROVE InTheLine(line', k)
    <3>1. CASE k = j
      BY <1>3, <2>1, <3>1
    <3>2. CASE k # j
      <4>1. InTheLine(line, k)
        BY <1>3, <2>1, <3>2 DEF GateIsInLine, InTheLine
      <4> QED BY <3>2, <4>1
    <3> QED BY <3>1, <3>2
  <2> QED BY <2>1 DEF GateIsInLine, InTheLine
<1>7. OneHolder'
  BY <1>3 DEF OneHolder, GateHolders, Holding
<1>8. UserIsQuiet'
  BY <1>3 DEF UserIsQuiet
<1>9. Driven'
  <2>1. ASSUME NEW h \in Goals, WantsRound(goal'[h]), h \notin triggers PROVE \E k \in Jobs : Drives(h, k)'
    <3>1. CASE h = w.goal
      BY <1>2, <1>3, <2>1, <3>1 DEF Drives
    <3>2. CASE h # w.goal
      <4>1. PICK k \in Jobs : Drives(h, k)
        BY <1>2, <2>1, <3>2 DEF Driven
      <4> QED BY <1>3, <3>2, <4>1 DEF Drives
    <3> QED BY <3>1, <3>2
  <2> QED BY <2>1 DEF Driven
<1>10. CurrentIsAwaited'
  <2>1. ASSUME NEW h \in Goals, goal'[h].current # 0
        PROVE  \E k \in Jobs : job'[k].goal = h /\ job'[k].task = goal'[h].current
    <3>1. CASE h = w.goal /\ r.current = w.task
      BY <1>2, <1>3, <3>1
    <3>2. CASE goal'[h].current = goal[h].current /\ (h = w.goal => (job[j].task = r.current => w.task = r.current))
      <4>1. PICK k \in Jobs : job[k].goal = h /\ job[k].task = goal[h].current
        BY <2>1, <3>2 DEF CurrentIsAwaited
      <4> QED BY <1>2, <1>3, <3>2, <4>1
    <3> QED BY <1>2, <2>1, <3>1, <3>2
  <2> QED BY <2>1 DEF CurrentIsAwaited
<1>11. LateHasNone'
  <2>1. ASSUME NEW k \in Jobs, job'[k].at = "timeout" PROVE goal'[job'[k].goal].current = 0
    <3>1. CASE k = j
      BY <1>1, <1>2, <1>3, <2>1, <3>1
    <3>2. CASE k # j
      <4>1. job'[k] = job[k] /\ job[k].goal \in Goals /\ k \in GateHolders
        BY <1>3, <2>1, <3>2, SMTT(20) DEF GateHolders, GoalTypes, GoodJob, JobRecords
      <4> QED BY <1>2, <2>1, <4>1 DEF LateHasNone
    <3> QED BY <3>1, <3>2
  <2> QED BY <2>1 DEF LateHasNone
<1> QED BY <1>4, <1>5, <1>6, <1>7, <1>8, <1>9, <1>10, <1>11

\* A job leaves.
LEMMA LeavesGood ==
  ASSUME GoalAssumption, NEW v, GoodJob(v), v.at # "off",
         NEW soon \in BOOLEAN, NEW error \in BOOLEAN, error => v.task # 0 /\ ~soon
  PROVE  /\ GoodJob(Left(v, soon, error))
         /\ Left(v, soon, error).goal = v.goal /\ Left(v, soon, error).at = "done"
         /\ Left(v, soon, error).soon = soon /\ Left(v, soon, error).error = error
         /\ Left(v, soon, error).task = IF error THEN v.task ELSE 0
<1>1. v \in JobRecords /\ 0 \in 0 .. MaxGoalTasks /\ "done" \in JobPlaces
  BY DEF GoodJob, JobPlaces, GoalAssumption
<1>2. Left(v, soon, error) \in JobRecords
  BY <1>1 DEF JobRecords, Left
<1>3. /\ Left(v, soon, error).goal = v.goal /\ Left(v, soon, error).at = "done"
      /\ Left(v, soon, error).soon = soon /\ Left(v, soon, error).error = error
      /\ Left(v, soon, error).task = IF error THEN v.task ELSE 0
  BY <1>1 DEF JobRecords, Left
<1>4. v.goal # "none"
  BY DEF GoodJob
<1> QED BY <1>2, <1>3, <1>4 DEF GoodJob, Holding

\* A job that leaves says so to its goal first.
LEMMA JobLeaves ==
  ASSUME GoalAssumption, GoalInv, NEW j \in Jobs, job[j].at # "off",
         NEW soon \in BOOLEAN, NEW error \in BOOLEAN, error => job[j].task # 0 /\ ~soon, Leave(j, soon, error),
         NEW r, GoodGoal(r), goal' = [goal EXCEPT ![job[j].goal] = r],
         r.current # 0 => r.current = goal[job[j].goal].current /\ (job[j].task = r.current => error),
         WantsRound(r) => ~userWork, soon \/ error => ~userWork,
         line' \in Seq(Jobs), \A k \in Jobs \ {j} : InTheLine(line, k) => InTheLine(line', k),
         round' \in [Rounds -> {"none", "reserved"} \cup RoundRuns \cup RoundEnded],
         \A t \in Rounds : round'[t] \in RoundRuns => round[t] \in RoundRuns,
         UNCHANGED <<jobs, pausing, triggers, toolRead, userWork, goalOps>>
  PROVE  GoalInv'
<1> DEFINE w == Left(job[j], soon, error)
<1>1. GoodJob(job[j])
  BY DEF GoalInv, GoalTypes
<1>2. /\ GoodJob(w) /\ w.goal = job[j].goal /\ w.at = "done" /\ w.soon = soon /\ w.error = error
      /\ w.task = IF error THEN job[j].task ELSE 0
  BY <1>1, LeavesGood
<1>3. job' = [job EXCEPT ![j] = w]
  BY DEF Leave
<1> HIDE DEF w
<1>4. \A k \in Jobs : job'[k].at = "submit" => job[k].at = "submit"
  BY <1>2, <1>3 DEF GoalInv, GoalTypes
<1>5. OneRuns' /\ SubmitsAlone'
  BY <1>4 DEF GoalInv, OneRuns, SubmitsAlone
<1> QED BY <1>2, <1>3, <1>5, JobMoves, ZenonT(60) DEF Holding

\* With the gate held.
LEMMA UnderGateKeeps ==
  ASSUME GoalAssumption, PromptCancels, GoalInv, NEW j \in Jobs, job[j].at \in {"sleep", "drain", "gate"},
         GateHolders = {}, ~userWork, UnderGate(j),
         line' \in Seq(Jobs), \A k \in Jobs \ {j} : InTheLine(line, k) => InTheLine(line', k),
         UNCHANGED <<jobs, pausing, triggers, toolRead, userWork, goalOps>>
  PROVE  GoalInv'
<1> DEFINE g == job[j].goal
           r == goal[g]
           fresh == {t \in Rounds : round[t] = "none"}
<1>1. /\ GoodJob(job[j]) /\ g \in Goals /\ GoodGoal(r) /\ job[j].task = 0
      /\ goal \in [Goals -> GoalRecords] /\ round \in [Rounds -> {"none", "reserved"} \cup RoundRuns \cup RoundEnded]
      /\ job \in [Jobs -> JobRecords]
  BY SMTT(20) DEF GoalInv, GoalTypes, GoodJob, JobRecords, Holding
<1>2. CASE ~WantsRound(r) /\ Leave(j, FALSE, FALSE) /\ UNCHANGED <<goal, round>>
  <2>1. goal' = [goal EXCEPT ![g] = r]
    BY <1>1, <1>2
  <2> QED BY <1>1, <1>2, <2>1, JobLeaves
<1>3. CASE goal' = [goal EXCEPT ![g] = BlockRecord(@)] /\ Leave(j, FALSE, FALSE) /\ UNCHANGED round
  <2>1. GoodGoal(BlockRecord(r)) /\ BlockRecord(r).current = 0 /\ goal' = [goal EXCEPT ![g] = BlockRecord(r)]
    BY <1>1, <1>3, StoppedIsGood
  <2> QED BY <1>1, <1>3, <2>1, JobLeaves
<1>4. CASE /\ WantsRound(r) /\ ~RoundsSpent(r) /\ fresh # {}
           /\ \A t \in Rounds : round[t] \in RoundRuns => AwaitsRound(t)
           /\ LET t == CHOOSE x \in fresh : \A y \in fresh : x <= y
              IN /\ goal' = [goal EXCEPT ![g] = ReserveRound(@, t)]
                 /\ round' = [round EXCEPT ![t] = "reserved"]
                 /\ job' = [job EXCEPT ![j].at = "submit", ![j].task = t]
  <2> DEFINE t == CHOOSE x \in fresh : \A y \in fresh : x <= y
             w == [job[j] EXCEPT !.at = "submit", !.task = t]
  <2>1. t \in fresh
    <3>1. fresh \in SUBSET Nat
      BY DEF Rounds
    <3> QED BY <1>4, <3>1, LeastOf
  <2>2. /\ goal' = [goal EXCEPT ![g] = ReserveRound(r, t)]
        /\ round' = [round EXCEPT ![t] = "reserved"]
        /\ job' = [job EXCEPT ![j] = w]
    <3>1. /\ goal' = [goal EXCEPT ![g] = ReserveRound(@, t)]
          /\ round' = [round EXCEPT ![t] = "reserved"]
          /\ job' = [job EXCEPT ![j].at = "submit", ![j].task = t]
      BY <1>4, Zenon
    <3> HIDE DEF t
    <3> QED BY <1>1, <3>1
  <2> HIDE DEF t, fresh
  <2>3. t \in Rounds /\ t \in 0 .. MaxGoalTasks /\ t # 0 /\ "submit" \in JobPlaces
    BY <2>1 DEF fresh, Rounds, GoalAssumption, JobPlaces
  <2>4. w \in JobRecords /\ w.at = "submit" /\ w.task = t /\ w.goal = g /\ ~w.soon /\ ~w.error
    BY <1>1, <2>3 DEF JobRecords, GoodJob
  <2> HIDE DEF w
  <2>5. GoodJob(w)
    BY <1>1, <2>3, <2>4 DEF GoodJob, Holding
  <2>6. /\ GoodGoal(ReserveRound(r, t)) /\ ReserveRound(r, t).current = t
        /\ ~WantsRound(ReserveRound(r, t))
    BY <1>1, <1>4, <2>3, ReservedIsGood
  <2>7. \A u \in Rounds : round[u] \notin RoundRuns
    BY <1>4 DEF AwaitsRound, GateHolders
  <2>8. \A u \in Rounds : round'[u] \notin RoundRuns
    BY <1>1, <2>2, <2>7 DEF RoundRuns
  <2>9. OneRuns' /\ SubmitsAlone'
    BY <2>8 DEF OneRuns, SubmitsAlone
  <2>10. round' \in [Rounds -> {"none", "reserved"} \cup RoundRuns \cup RoundEnded]
    BY <1>1, <2>2
  <2> QED BY <1>1, <2>2, <2>4, <2>5, <2>6, <2>9, <2>10, JobMoves
<1> QED BY <1>2, <1>3, <1>4 DEF UnderGate
-----------------------------------------------------------------------------
(* The steps of a job.                                                       *)

\* What a job that is not off has.
LEMMA JobFacts ==
  ASSUME GoalAssumption, GoalInv, NEW j \in Jobs, job[j].at # "off"
  PROVE  /\ GoodJob(job[j]) /\ job[j] \in JobRecords /\ job[j].goal \in Goals
         /\ GoodGoal(goal[job[j].goal])
         /\ goal = [goal EXCEPT ![job[j].goal] = goal[job[j].goal]]
         /\ job[j].at \in Holding => job[j].task \in Rounds
         /\ line \in Seq(Jobs)
         /\ round \in [Rounds -> {"none", "reserved"} \cup RoundRuns \cup RoundEnded]
BY SMTT(20) DEF GoalInv, GoalTypes, GoodJob, JobRecords, Rounds, Holding, GoalAssumption

LEMMA AskRoundKeeps ==
  ASSUME round \in [Rounds -> {"none", "reserved"} \cup RoundRuns \cup RoundEnded], NEW t
  PROVE  /\ AskRound(t) \in [Rounds -> {"none", "reserved"} \cup RoundRuns \cup RoundEnded]
         /\ \A u \in Rounds : AskRound(t)[u] \in RoundRuns => round[u] \in RoundRuns
BY DEF AskRound, RoundRuns

LEMMA WakeKeeps ==
  ASSUME GoalAssumption, PromptCancels, GoalInv, NEW j \in Jobs, Wake(j) PROVE GoalInv'
<1> DEFINE g == job[j].goal
<1>1. /\ job[j].at # "off" /\ job[j].at \in {"sleep", "drain", "gate"}
      /\ UNCHANGED <<jobs, pausing, triggers, toolRead, userWork, goalOps>>
  BY DEF Wake
<1>2. /\ GoodJob(job[j]) /\ job[j] \in JobRecords /\ g \in Goals /\ GoodGoal(goal[g])
      /\ goal = [goal EXCEPT ![g] = goal[g]] /\ line \in Seq(Jobs)
      /\ round \in [Rounds -> {"none", "reserved"} \cup RoundRuns \cup RoundEnded]
  BY <1>1, JobFacts
<1>3. job[j].task = 0 /\ ~job[j].soon /\ ~job[j].error
  BY <1>1, <1>2 DEF GoodJob, Holding
<1>4. CASE ~WantsRound(goal[g]) /\ Leave(j, FALSE, FALSE) /\ UNCHANGED <<goal, round, line>>
  BY <1>1, <1>2, <1>3, <1>4, JobLeaves
<1>5. ASSUME NEW a \in {"drain", "gate"}, job' = [job EXCEPT ![j].at = a], UNCHANGED <<goal, round>>,
             line' \in Seq(Jobs), a = "gate" => InTheLine(line', j),
             \A k \in Jobs \ {j} : InTheLine(line, k) => InTheLine(line', k),
             userWork => a = "drain"
      PROVE  GoalInv'
  <2> DEFINE w == [job[j] EXCEPT !.at = a]
  <2>1. job' = [job EXCEPT ![j] = w]
    BY <1>5
  <2>2. w \in JobRecords /\ w.at = a /\ w.goal = g /\ w.task = 0 /\ ~w.soon /\ ~w.error
    BY <1>2, <1>3 DEF JobRecords, JobPlaces
  <2>3. GoodJob(w)
    BY <1>1, <1>2, <2>2 DEF GoodJob, Holding
  <2> HIDE DEF w
  <2>4. OneRuns' /\ SubmitsAlone'
    BY <1>5, <2>1, <2>2 DEF GoalInv, GoalTypes, OneRuns, SubmitsAlone
  <2>5. goal' = [goal EXCEPT ![w.goal] = goal[g]] /\ w.at \notin Holding /\ w.at # "off" /\ goal[g] = goal[w.goal]
    BY <1>2, <1>5, <2>2 DEF Holding
  <2>6. /\ goal[g].current # 0 => goal[g].current = goal[w.goal].current
              /\ (job[j].task = goal[g].current => w.task = goal[g].current)
        /\ w.at # "timeout" /\ w.at # "done"
        /\ userWork => w.at \in {"sleep", "drain", "done"} /\ ~w.soon /\ ~w.error
    BY <1>3, <1>5, <2>2, <2>5
  <2>7. line' \in Seq(Jobs) /\ (w.at = "gate" => InTheLine(line', j))
    BY <1>5, <2>2
  <2> QED BY <1>1, <1>2, <1>5, <2>1, <2>2, <2>3, <2>4, <2>5, <2>6, <2>7, JobMoves, ZenonT(60)
<1>6. CASE userWork /\ job[j].at = "sleep" /\ job' = [job EXCEPT ![j].at = "drain"] /\ UNCHANGED <<goal, round, line>>
  BY <1>2, <1>5, <1>6
<1>7. CASE ~userWork /\ line' = Append(line, j) /\ job' = [job EXCEPT ![j].at = "gate"] /\ UNCHANGED <<goal, round>>
  <2>1. line' \in Seq(Jobs) /\ InTheLine(line', j) /\ \A k \in Jobs : InTheLine(line, k) => InTheLine(line', k)
    BY <1>2, <1>7 DEF InTheLine
  <2> QED BY <1>5, <1>7, <2>1
<1>8. CASE ~userWork /\ GateHolders = {} /\ UnderGate(j) /\ UNCHANGED line
  BY <1>1, <1>2, <1>8, UnderGateKeeps
<1> QED BY <1>4, <1>6, <1>7, <1>8 DEF Wake

LEMMA GateOpensKeeps ==
  ASSUME GoalAssumption, PromptCancels, GoalInv, NEW j \in Jobs, GateOpens(j) PROVE GoalInv'
<1> USE DEF GateOpens
<1>1. line \in Seq(Jobs) /\ InTheLine(line, j) /\ ~userWork
  BY DEF GoalInv, GoalTypes, GateIsInLine, InTheLine, UserIsQuiet
<1>2. line # <<>>
  BY <1>1 DEF InTheLine
<1>3. line' \in Seq(Jobs)
  BY <1>1, <1>2
<1>4. ASSUME NEW k \in Jobs \ {j}, InTheLine(line, k) PROVE InTheLine(line', k)
  <2>1. PICK i \in 1 .. Len(line) : line[i] = k
    BY <1>4 DEF InTheLine
  <2>2. line[1] = j
    BY <1>1, <1>2
  <2>3. i - 1 \in 1 .. Len(line') /\ line'[i - 1] = k
    BY <1>1, <1>2, <2>1, <2>2
  <2> QED BY <2>3 DEF InTheLine
<1> QED BY <1>1, <1>3, <1>4, UnderGateKeeps

LEMMA SubmitRoundKeeps ==
  ASSUME GoalAssumption, GoalInv, NEW j \in Jobs, SubmitRound(j) \/ SubmitRoundRaises(j) PROVE GoalInv'
<1> DEFINE g == job[j].goal
<1>1. job[j].at = "submit"
  BY DEF SubmitRound, SubmitRoundRaises
<1>2. /\ GoodJob(job[j]) /\ job[j] \in JobRecords /\ g \in Goals /\ GoodGoal(goal[g])
      /\ goal = [goal EXCEPT ![g] = goal[g]] /\ line \in Seq(Jobs) /\ job[j].task \in Rounds
      /\ round \in [Rounds -> {"none", "reserved"} \cup RoundRuns \cup RoundEnded]
  BY <1>1, JobFacts DEF Holding
<1>3. ~userWork /\ job[j].task # 0 /\ ~job[j].soon /\ ~job[j].error
  BY <1>1, <1>2 DEF GoalInv, UserIsQuiet, GoodJob, Holding
<1>4. CASE SubmitRound(j)
  <2> USE DEF SubmitRound
  <2> DEFINE w == [job[j] EXCEPT !.at = "wait"]
  <2>1. job' = [job EXCEPT ![j] = w] /\ goal' = [goal EXCEPT ![g] = goal[g]] /\ line' = line
    BY <1>2, <1>4
  <2>2. w \in JobRecords /\ w.at = "wait" /\ w.goal = g /\ w.task = job[j].task /\ ~w.soon /\ ~w.error
    BY <1>2, <1>3 DEF JobRecords, JobPlaces
  <2> HIDE DEF w
  <2>3. GoodJob(w)
    BY <1>2, <1>3, <2>2 DEF GoodJob, Holding
  <2>4. \A u \in Rounds : round[u] \notin RoundRuns
    BY <1>1 DEF GoalInv, SubmitsAlone
  <2>5. \A k \in Jobs : job'[k].at # "submit"
    BY <1>1, <2>1, <2>2 DEF GoalInv, GoalTypes, OneHolder, Holding
  <2>6. round' = [round EXCEPT ![job[j].task] = "live"]
    BY <1>4
  <2>7. OneRuns' /\ SubmitsAlone' /\ round' \in [Rounds -> {"none", "reserved"} \cup RoundRuns \cup RoundEnded]
    BY <1>2, <2>4, <2>5, <2>6 DEF OneRuns, SubmitsAlone, RoundRuns
  <2>8. UNCHANGED <<jobs, pausing, triggers, toolRead, userWork, goalOps>>
    BY <1>4
  <2> QED BY <1>1, <1>2, <1>3, <2>1, <2>2, <2>3, <2>7, <2>8, JobMoves DEF Holding
<1>5. CASE SubmitRoundRaises(j)
  <2>1. goal' = [goal EXCEPT ![g] = goal[g]] /\ Leave(j, FALSE, TRUE) /\ UNCHANGED <<round, jobs, line, pausing, triggers, toolRead, userWork, goalOps>>
    BY <1>2, <1>5 DEF SubmitRoundRaises
  <2> QED BY <1>1, <1>2, <1>3, <2>1, JobLeaves
<1> QED BY <1>4, <1>5

LEMMA RoundReturnsKeeps ==
  ASSUME GoalAssumption, GoalInv, NEW j \in Jobs, RoundReturns(j) PROVE GoalInv'
<1> DEFINE g == job[j].goal
           r == goal[g]
           how == round[job[j].task]
           soon == how = "completed" /\ IsArmed(FinishRound(r)) /\ ~userWork
           s == CASE how = "completed" -> FinishRound(r)
                  [] how = "cancelled" -> DisarmRecord(r)
                  [] OTHER -> BlockRecord(r)
<1>1. job[j].at = "wait" /\ UNCHANGED <<jobs, line, pausing, triggers, toolRead, userWork, goalOps>>
  BY DEF RoundReturns
<1>2. /\ GoodJob(job[j]) /\ job[j] \in JobRecords /\ g \in Goals /\ GoodGoal(r)
      /\ goal = [goal EXCEPT ![g] = r] /\ line \in Seq(Jobs) /\ job[j].task \in Rounds
      /\ round \in [Rounds -> {"none", "reserved"} \cup RoundRuns \cup RoundEnded]
  BY <1>1, JobFacts DEF Holding
<1>3. ~userWork
  BY <1>1 DEF GoalInv, UserIsQuiet
<1>4. round' = [round EXCEPT ![job[j].task] = "none"]
  BY DEF RoundReturns
<1>5. /\ round' \in [Rounds -> {"none", "reserved"} \cup RoundRuns \cup RoundEnded]
      /\ \A t \in Rounds : round'[t] \in RoundRuns => round[t] \in RoundRuns
  BY <1>2, <1>4 DEF RoundRuns
<1>6. CASE r.current # job[j].task /\ Leave(j, FALSE, FALSE) /\ UNCHANGED goal
  <2>1. goal' = [goal EXCEPT ![g] = r]
    BY <1>2, <1>6
  <2> QED BY <1>1, <1>2, <1>3, <1>5, <1>6, <2>1, JobLeaves
<1>7. CASE goal' = [goal EXCEPT ![g] = s] /\ Leave(j, soon, FALSE)
  <2>1. GoodGoal(s) /\ s.current = 0
    BY <1>2, StoppedIsGood, DisarmedIsGood, OpenedIsGood
  <2>2. soon \in BOOLEAN
    OBVIOUS
  <2> HIDE DEF s, soon
  <2> QED BY <1>1, <1>2, <1>3, <1>5, <1>7, <2>1, <2>2, JobLeaves
<1> QED BY <1>6, <1>7, Zenon DEF RoundReturns

LEMMA RoundTimesOutKeeps ==
  ASSUME GoalAssumption, GoalInv, NEW j \in Jobs, RoundTimesOut(j) PROVE GoalInv'
<1> DEFINE g == job[j].goal
           r == goal[g]
<1>1. job[j].at = "wait" /\ UNCHANGED <<jobs, line, round, pausing, triggers, toolRead, userWork, goalOps>>
  BY DEF RoundTimesOut
<1>2. /\ GoodJob(job[j]) /\ job[j] \in JobRecords /\ g \in Goals /\ GoodGoal(r)
      /\ goal = [goal EXCEPT ![g] = r] /\ line \in Seq(Jobs) /\ job[j].task \in Rounds
      /\ round \in [Rounds -> {"none", "reserved"} \cup RoundRuns \cup RoundEnded]
  BY <1>1, JobFacts DEF Holding
<1>3. ~userWork /\ job[j].task # 0 /\ ~job[j].soon /\ ~job[j].error
  BY <1>1, <1>2 DEF GoalInv, UserIsQuiet, GoodJob, Holding
<1>4. CASE r.current # job[j].task /\ Leave(j, FALSE, FALSE) /\ UNCHANGED goal
  <2>1. goal' = [goal EXCEPT ![g] = r]
    BY <1>2, <1>4
  <2> QED BY <1>1, <1>2, <1>3, <1>4, <2>1, JobLeaves
<1>5. CASE goal' = [goal EXCEPT ![g] = BlockRecord(@)] /\ job' = [job EXCEPT ![j].at = "timeout"]
  <2> DEFINE w == [job[j] EXCEPT !.at = "timeout"]
  <2>1. job' = [job EXCEPT ![j] = w] /\ goal' = [goal EXCEPT ![g] = BlockRecord(r)]
    BY <1>2, <1>5
  <2>2. w \in JobRecords /\ w.at = "timeout" /\ w.goal = g /\ w.task = job[j].task /\ ~w.soon /\ ~w.error
    BY <1>2, <1>3 DEF JobRecords, JobPlaces
  <2> HIDE DEF w
  <2>3. GoodJob(w)
    BY <1>2, <1>3, <2>2 DEF GoodJob, Holding
  <2>4. GoodGoal(BlockRecord(r)) /\ BlockRecord(r).current = 0
    BY <1>2, StoppedIsGood
  <2>5. OneRuns' /\ SubmitsAlone'
    BY <1>1, <2>1, <2>2 DEF GoalInv, GoalTypes, OneRuns, SubmitsAlone
  <2> QED BY <1>1, <1>2, <1>3, <2>1, <2>2, <2>3, <2>4, <2>5, JobMoves DEF Holding
<1> QED BY <1>4, <1>5 DEF RoundTimesOut

LEMMA CancelLateRoundKeeps ==
  ASSUME GoalAssumption, GoalInv, NEW j \in Jobs, CancelLateRound(j) PROVE GoalInv'
<1> DEFINE g == job[j].goal
<1>1. /\ job[j].at = "timeout" /\ Leave(j, FALSE, FALSE) /\ round' = AskRound(job[j].task)
      /\ UNCHANGED <<goal, jobs, line, pausing, triggers, toolRead, userWork, goalOps>>
  BY DEF CancelLateRound
<1>2. /\ GoodJob(job[j]) /\ g \in Goals /\ GoodGoal(goal[g])
      /\ goal' = [goal EXCEPT ![g] = goal[g]] /\ line \in Seq(Jobs)
      /\ round \in [Rounds -> {"none", "reserved"} \cup RoundRuns \cup RoundEnded]
  BY <1>1, JobFacts DEF Holding
<1>3. goal[g].current = 0 /\ ~userWork
  BY <1>1 DEF GoalInv, LateHasNone, UserIsQuiet
<1> QED BY <1>1, <1>2, <1>3, AskRoundKeeps, JobLeaves

LEMMA SoonTriggerKeeps ==
  ASSUME GoalAssumption, GoalInv, NEW j \in Jobs, SoonTrigger(j) PROVE GoalInv'
<1> DEFINE g == job[j].goal
           w == [job[j] EXCEPT !.soon = FALSE]
           js == [job EXCEPT ![j] = w]
<1>1. /\ job[j].at = "done" /\ job[j].soon /\ TriggerGoal(g, [job EXCEPT ![j].soon = FALSE], jobs)
      /\ UNCHANGED <<goal, line, round, pausing, triggers, toolRead, userWork, goalOps>>
  BY DEF SoonTrigger
<1>2. /\ GoodJob(job[j]) /\ job[j] \in JobRecords /\ g \in Goals /\ GoodGoal(goal[g])
      /\ goal' = [goal EXCEPT ![g] = goal[g]]
  BY <1>1, JobFacts
<1>3. w \in JobRecords /\ w.at = "done" /\ w.goal = g /\ w.task = 0 /\ ~w.soon /\ ~w.error /\ ~job[j].error
  BY <1>1, <1>2 DEF JobRecords, GoodJob, Holding
<1>4. GoodJob(w)
  BY <1>1, <1>2, <1>3 DEF GoodJob, Holding
<1>5. TriggerGoal(g, js, jobs)
  <2>1. [job EXCEPT ![j].soon = FALSE] = js
    BY DEF GoalInv, GoalTypes
  <2> HIDE DEF js
  <2> QED BY <1>1, <2>1, Zenon
<1> HIDE DEF w
<1>6. /\ js \in [Jobs -> JobRecords] /\ \A k \in Jobs : GoodJob(js[k])
      /\ \A k \in Jobs : js[k] = IF k = j THEN w ELSE job[k]
  BY <1>3, <1>4 DEF GoalInv, GoalTypes
<1> HIDE DEF js
<1>7. /\ \A k \in Jobs : (job[k].goal = g /\ job[k].at = "done" /\ ~job[k].error) \/ js[k] = job[k]
      /\ \A k \in Jobs : js[k].at \in {job[k].at, "off"} /\ (js[k].soon => job[k].soon) /\ (js[k].error => job[k].error)
  BY <1>1, <1>3, <1>6
<1>8. /\ jobs \in [Goals -> Jobs \cup {"none"}] /\ \A h \in Goals : jobs[h] # "none" => js[jobs[h]].goal = h
      /\ triggers \subseteq Goals /\ goalOps \in 0 .. MaxGoalOps
  <2>1. \A k \in Jobs : js[k].goal = job[k].goal
    BY <1>3, <1>6
  <2> QED BY <2>1 DEF GoalInv, GoalTypes, RegisteredIsOwn
<1> QED BY <1>1, <1>2, <1>5, <1>6, <1>7, <1>8, GoalIsTriggered

\* A job is forgotten, and its goal has no registered job.
LEMMA JobForgotten ==
  ASSUME GoalAssumption, GoalInv, NEW j \in Jobs, job[j].at = "done", ~job[j].soon,
         NEW r, GoodGoal(r), goal' = [goal EXCEPT ![job[j].goal] = r],
         r.current = 0 \/ (r = goal[job[j].goal] /\ ~job[j].error), WantsRound(r) => userWork /\ r = goal[job[j].goal],
         job' = [job EXCEPT ![j] = NoJob], jobs' = [jobs EXCEPT ![job[j].goal] = "none"],
         round' \in [Rounds -> {"none", "reserved"} \cup RoundRuns \cup RoundEnded],
         \A t \in Rounds : round'[t] \in RoundRuns => round[t] \in RoundRuns,
         UNCHANGED <<line, pausing, triggers, toolRead, userWork, goalOps>>
  PROVE  GoalInv'
<1> USE DEF GoalInv
<1> DEFINE g == job[j].goal
<1>1. GoodJob(job[j]) /\ g \in Goals /\ g # "none"
  BY SMTT(20) DEF GoalTypes, GoodJob, JobRecords, GoalAssumption
<1>2. /\ NoJob.goal = "none" /\ NoJob.at = "off" /\ NoJob.task = 0 /\ ~NoJob.soon /\ ~NoJob.error
      /\ NoJob \in JobRecords
  BY DEF NoJob, JobRecords, JobPlaces, GoalAssumption
<1>3. GoodJob(NoJob)
  BY <1>2 DEF GoodJob, Holding
<1>4. \A k \in Jobs : job'[k] = IF k = j THEN NoJob ELSE job[k]
  BY DEF GoalTypes
<1>5. \A h \in Goals : goal'[h] = IF h = g THEN r ELSE goal[h]
  BY DEF GoalTypes
<1>6. GoalTypes'
  <2>1. r \in GoalRecords
    BY DEF GoodGoal
  <2>2. goal' \in [Goals -> GoalRecords] /\ \A h \in Goals : GoodGoal(goal'[h])
    BY <2>1 DEF GoalTypes
  <2>3. job' \in [Jobs -> JobRecords] /\ \A k \in Jobs : GoodJob(job'[k])
    BY <1>2, <1>3 DEF GoalTypes
  <2>4. jobs' \in [Goals -> Jobs \cup {"none"}]
    BY DEF GoalTypes
  <2> QED BY <2>2, <2>3, <2>4 DEF GoalTypes
<1>7. RegisteredIsOwn'
  <2>1. ASSUME NEW h \in Goals, jobs'[h] # "none" PROVE job'[jobs'[h]].goal = h
    <3>1. h # g /\ jobs'[h] = jobs[h] /\ jobs[h] \in Jobs /\ job[jobs[h]].goal = h
      BY <1>1, <2>1 DEF GoalTypes, RegisteredIsOwn
    <3> QED BY <1>4, <3>1
  <2> QED BY <2>1 DEF RegisteredIsOwn
<1>8. GateIsInLine' /\ OneHolder'
  BY <1>2, <1>4 DEF GateIsInLine, OneHolder, Holding
<1>9. OneRuns' /\ SubmitsAlone' /\ UserIsQuiet'
  BY <1>2, <1>4 DEF OneRuns, SubmitsAlone, UserIsQuiet
<1>10. Driven'
  <2>1. ASSUME NEW h \in Goals, WantsRound(goal'[h]), h \notin triggers PROVE \E k \in Jobs : Drives(h, k)'
    <3>1. WantsRound(goal[h]) /\ (h = g => userWork)
      BY <1>5, <2>1
    <3>2. PICK k \in Jobs : Drives(h, k)
      BY <2>1, <3>1 DEF Driven
    <3>3. k # j
      BY <3>1, <3>2 DEF Drives
    <3> QED BY <1>4, <3>2, <3>3 DEF Drives
  <2> QED BY <2>1 DEF Driven
<1>11. CurrentIsAwaited'
  <2>1. ASSUME NEW h \in Goals, goal'[h].current # 0
        PROVE  \E k \in Jobs : job'[k].goal = h /\ job'[k].task = goal'[h].current
    <3>1. goal'[h].current = goal[h].current /\ (h = g => ~job[j].error)
      BY <1>5, <2>1
    <3>2. PICK k \in Jobs : job[k].goal = h /\ job[k].task = goal[h].current
      BY <2>1, <3>1 DEF CurrentIsAwaited
    <3>3. k # j
      BY <1>1, <2>1, <3>1, <3>2 DEF GoodJob, Holding
    <3> QED BY <1>4, <3>1, <3>2, <3>3
  <2> QED BY <2>1 DEF CurrentIsAwaited
<1>12. LateHasNone'
  <2>1. ASSUME NEW k \in Jobs, job'[k].at = "timeout" PROVE goal'[job'[k].goal].current = 0
    <3>1. job'[k] = job[k] /\ job[k].goal \in Goals
      BY <1>2, <1>4, <2>1, SMTT(20) DEF GoalTypes, GoodJob, JobRecords
    <3> QED BY <1>5, <2>1, <3>1 DEF LateHasNone
  <2> QED BY <2>1 DEF LateHasNone
<1> QED BY <1>6, <1>7, <1>8, <1>9, <1>10, <1>11, <1>12

LEMMA JobDoneKeeps ==
  ASSUME GoalAssumption, GoalInv, NEW j \in Jobs, JobDone(j) PROVE GoalInv'
<1> DEFINE g == job[j].goal
           js == [job EXCEPT ![j] = NoJob]
           rg == [jobs EXCEPT ![g] = "none"]
<1>1. /\ job[j].at = "done" /\ ~job[j].soon
      /\ UNCHANGED <<line, pausing, triggers, toolRead, userWork, goalOps>>
  BY DEF JobDone
<1>2. /\ GoodJob(job[j]) /\ job[j] \in JobRecords /\ g \in Goals /\ GoodGoal(goal[g])
      /\ goal = [goal EXCEPT ![g] = goal[g]] /\ goal \in [Goals -> GoalRecords]
      /\ round \in [Rounds -> {"none", "reserved"} \cup RoundRuns \cup RoundEnded]
  BY <1>1, JobFacts DEF GoalInv, GoalTypes
<1>3. CASE /\ job[j].error
           /\ goal' = IF goal[g].status \in GoalTerminal \cup {"gone"} THEN goal
                      ELSE [goal EXCEPT ![g] = BlockRecord(@)]
           /\ round' = [round EXCEPT ![job[j].task] = "none"]
           /\ job' = js /\ jobs' = rg
  <2> DEFINE r == IF goal[g].status \in GoalTerminal \cup {"gone"} THEN goal[g] ELSE BlockRecord(goal[g])
  <2>1. goal' = [goal EXCEPT ![g] = r]
    BY <1>2, <1>3
  <2>2. GoodGoal(r) /\ r.current = 0 /\ ~WantsRound(r)
    BY <1>2, StoppedIsGood DEF GoodGoal, IsArmed, WantsRound, GoalTerminal
  <2>3. /\ round' \in [Rounds -> {"none", "reserved"} \cup RoundRuns \cup RoundEnded]
        /\ \A t \in Rounds : round'[t] \in RoundRuns => round[t] \in RoundRuns
    BY <1>2, <1>3 DEF RoundRuns
  <2> HIDE DEF r
  <2> QED BY <1>1, <1>2, <1>3, <2>1, <2>2, <2>3, JobForgotten
<1>4. CASE ~job[j].error /\ WantsRound(goal[g]) /\ ~userWork /\ TriggerGoal(g, js, rg) /\ UNCHANGED <<goal, round>>
  <2>1. /\ NoJob.goal = "none" /\ NoJob.at = "off" /\ NoJob.task = 0 /\ ~NoJob.soon /\ ~NoJob.error
        /\ NoJob \in JobRecords
    BY DEF NoJob, JobRecords, JobPlaces, GoalAssumption
  <2>2. GoodJob(NoJob)
    BY <2>1 DEF GoodJob, Holding
  <2>3. /\ js \in [Jobs -> JobRecords] /\ \A k \in Jobs : GoodJob(js[k])
        /\ \A k \in Jobs : js[k] = IF k = j THEN NoJob ELSE job[k]
    BY <2>1, <2>2 DEF GoalInv, GoalTypes
  <2>4. rg \in [Goals -> Jobs \cup {"none"}] /\ \A h \in Goals : rg[h] # "none" => h # g /\ rg[h] = jobs[h]
    BY <1>2 DEF GoalInv, GoalTypes
  <2> HIDE DEF js, rg
  <2>5. \A h \in Goals : rg[h] # "none" => js[rg[h]].goal = h
    BY <1>2, <2>3, <2>4 DEF GoalInv, GoalTypes, RegisteredIsOwn
  <2>6. /\ \A k \in Jobs : (job[k].goal = g /\ job[k].at = "done" /\ ~job[k].error) \/ js[k] = job[k]
        /\ \A k \in Jobs : js[k].at \in {job[k].at, "off"} /\ (js[k].soon => job[k].soon) /\ (js[k].error => job[k].error)
    BY <1>1, <1>4, <2>1, <2>3
  <2>7. goal' = [goal EXCEPT ![g] = goal[g]] /\ triggers \subseteq Goals /\ goalOps \in 0 .. MaxGoalOps
    BY <1>2, <1>4 DEF GoalInv, GoalTypes
  <2>8. /\ UNCHANGED <<line, round, pausing, toolRead, userWork>> /\ goalOps' \in 0 .. MaxGoalOps
        /\ triggers \ {g} \subseteq triggers' /\ triggers' \subseteq Goals
    BY <1>1, <1>4, <2>7
  <2>9. TriggerGoal(g, js, rg)
    BY <1>4
  <2>10. GoodGoal(goal[g]) /\ g \in Goals /\ js \in [Jobs -> JobRecords] /\ rg \in [Goals -> Jobs \cup {"none"}]
    BY <1>2, <2>3, <2>4
  <2>11. \A k \in Jobs : GoodJob(js[k])
    BY <2>3
  <2> HIDE DEF g
  <2> QED BY <2>5, <2>6, <2>7, <2>8, <2>9, <2>10, <2>11, GoalIsTriggered
<1>5. CASE ~job[j].error /\ ~(WantsRound(goal[g]) /\ ~userWork) /\ job' = js /\ jobs' = rg /\ UNCHANGED <<goal, round>>
  <2>1. goal' = [goal EXCEPT ![g] = goal[g]]
    BY <1>2, <1>5
  <2>2. WantsRound(goal[g]) => userWork
    BY <1>5
  <2> QED BY <1>1, <1>2, <1>5, <2>1, <2>2, JobForgotten
<1> QED BY <1>3, <1>4, <1>5 DEF JobDone
-----------------------------------------------------------------------------
(* Users, agents, the task runtime and the process.                          *)

LEMMA CreateGoalKeeps ==
  ASSUME GoalAssumption, GoalInv, NEW g \in Goals, CreateGoal(g) \/ ResumeGoal(g) \/ TriggersSoon(g)
  PROVE  GoalInv'
<1>1. PICK r : /\ GoodGoal(r) /\ (r.current = 0 \/ r = goal[g]) /\ goal' = [goal EXCEPT ![g] = r]
  <2>1. GoodGoal(goal[g]) /\ goal = [goal EXCEPT ![g] = goal[g]]
    BY DEF GoalInv, GoalTypes
  <2>2. CASE CreateGoal(g)
    BY <2>1, <2>2, OpenedIsGood DEF CreateGoal, SaveGoal
  <2>3. CASE ResumeGoal(g)
    BY <2>1, <2>3, OpenedIsGood DEF ResumeGoal, SaveGoal
  <2>4. CASE TriggersSoon(g)
    BY <2>1, <2>4 DEF TriggersSoon
  <2> QED BY <2>2, <2>3, <2>4
<1>2. /\ TriggerGoal(g, job, jobs) /\ triggers \ {g} \subseteq triggers' /\ triggers' \subseteq Goals
      /\ UNCHANGED <<line, round, pausing, toolRead, userWork>> /\ goalOps' \in 0 .. MaxGoalOps
  BY DEF CreateGoal, ResumeGoal, TriggersSoon, GoalOp, GoalInv, GoalTypes, GoalAssumption
<1>3. /\ job \in [Jobs -> JobRecords] /\ \A j \in Jobs : GoodJob(job[j])
      /\ jobs \in [Goals -> Jobs \cup {"none"}] /\ \A h \in Goals : jobs[h] # "none" => job[jobs[h]].goal = h
  BY DEF GoalInv, GoalTypes, RegisteredIsOwn
<1> QED BY <1>1, <1>2, <1>3, GoalIsTriggered

Operations(g) ==
  \/ CreateGoalTool(g) \/ AskPause(g) \/ PauseGoal(g) \/ ResumeGoalTool(g) \/ CancelGoal(g) \/ CompleteGoal(g)
  \/ ReconcilePlan(g) \/ StopGoal(g) \/ ArchiveGoal(g) \/ UpdateMaxRounds(g) \/ ToolReads(g)

LEMMA OperationsKeep ==
  ASSUME GoalAssumption, GoalInv, NEW g \in Goals, Operations(g) PROVE GoalInv'
<1>1. /\ GoodGoal(goal[g]) /\ goal[g] \in GoalRecords /\ goal = [goal EXCEPT ![g] = goal[g]] /\ goal \in [Goals -> GoalRecords]
      /\ triggers \subseteq Goals /\ pausing \subseteq Goals /\ userWork \in BOOLEAN /\ goalOps \in 0 .. MaxGoalOps
      /\ round \in [Rounds -> {"none", "reserved"} \cup RoundRuns \cup RoundEnded]
      /\ toolRead # NoRead => toolRead.id \in Goals /\ GoodGoal(toolRead.record)
  BY DEF GoalInv, GoalTypes, GoodGoal
\* What changes besides the goal.
<1>2. /\ triggers \subseteq triggers' /\ triggers' \subseteq Goals /\ pausing' \subseteq Goals
      /\ UNCHANGED <<job, jobs, line, userWork>> /\ goalOps' \in 0 .. MaxGoalOps
  BY <1>1 DEF Operations, CreateGoalTool, AskPause, PauseGoal, ResumeGoalTool, CancelGoal, CompleteGoal, ReconcilePlan,
     StopGoal, ArchiveGoal, UpdateMaxRounds, ToolReads, GoalOp, GoalAssumption
<1>3. round' = round \/ \E t : round' = AskRound(t)
  BY DEF Operations, CreateGoalTool, AskPause, PauseGoal, ResumeGoalTool, CancelGoal, CompleteGoal, ReconcilePlan,
     StopGoal, ArchiveGoal, UpdateMaxRounds, ToolReads
<1>4. /\ round' \in [Rounds -> {"none", "reserved"} \cup RoundRuns \cup RoundEnded]
      /\ \A t \in Rounds : round'[t] \in RoundRuns => round[t] \in RoundRuns
  BY <1>1, <1>3, AskRoundKeeps
<1>5. toolRead' # NoRead => toolRead'.id \in Goals /\ GoodGoal(toolRead'.record)
  BY <1>1 DEF Operations, CreateGoalTool, AskPause, PauseGoal, ResumeGoalTool, CancelGoal, CompleteGoal, ReconcilePlan,
     StopGoal, ArchiveGoal, UpdateMaxRounds, ToolReads
<1>6. ASSUME NEW r, GoodGoal(r), r.current \in {0, goal[g].current}, goal' = [goal EXCEPT ![g] = r],
             WantsRound(r) => WantsRound(goal[g]) \/ g \in triggers'
      PROVE  GoalInv'
  BY <1>1, <1>2, <1>4, <1>5, <1>6, RecordChanges
<1>7. ASSUME UNCHANGED goal PROVE GoalInv'
  BY <1>1, <1>6, <1>7
<1>8. CASE AskPause(g) \/ ToolReads(g)
  BY <1>7, <1>8 DEF AskPause, ToolReads
<1>9. CASE PauseGoal(g)
  BY <1>1, <1>6, <1>7, <1>9, StoppedIsGood DEF PauseGoal, SaveGoal, WantsRound
<1>10. CASE CancelGoal(g) \/ StopGoal(g)
  BY <1>1, <1>6, <1>10, StoppedIsGood DEF CancelGoal, StopGoal, SaveGoal, WantsRound
<1>11. CASE CompleteGoal(g)
  BY <1>1, <1>6, <1>11, StoppedIsGood DEF CompleteGoal, SaveGoal, WantsRound
<1>12. CASE ReconcilePlan(g)
  BY <1>1, <1>6, <1>12, StoppedIsGood DEF ReconcilePlan, SaveGoal, WantsRound
<1>13. CASE CreateGoalTool(g)
  BY <1>1, <1>6, <1>13, OpenedIsGood DEF CreateGoalTool, SaveGoal
<1>14. CASE ResumeGoalTool(g)
  BY <1>1, <1>6, <1>14, OpenedIsGood DEF ResumeGoalTool, SaveGoal
<1>15. CASE ArchiveGoal(g)
  <2> DEFINE c == CancelRecord(goal[g])
             r == [c EXCEPT !.status = "gone"]
  <2>1. GoodGoal(c) /\ c.current = 0 /\ c \in GoalRecords /\ "gone" \in Statuses
    BY <1>1, StoppedIsGood DEF GoodGoal, Statuses
  <2>2. goal' = [goal EXCEPT ![g] = r]
    BY <1>1, <1>15 DEF ArchiveGoal, DeleteGoal
  <2> HIDE DEF c
  <2>3. r \in GoalRecords /\ r.rounds <= r.max /\ r.current = 0 /\ r.status = "gone"
    BY <2>1 DEF GoodGoal, GoalRecords
  <2> QED BY <1>6, <2>2, <2>3 DEF GoodGoal, WantsRound, IsArmed
<1>16. CASE UpdateMaxRounds(g)
  <2>1. PICK n \in 1 .. RoundCap : n >= goal[g].rounds /\ goal' = [goal EXCEPT ![g].max = n]
    BY <1>16 DEF UpdateMaxRounds
  <2> DEFINE r == [goal[g] EXCEPT !.max = n]
  <2>2. goal' = [goal EXCEPT ![g] = r]
    BY <1>1, <2>1
  <2>3. /\ r \in GoalRecords /\ r.rounds <= r.max /\ r.current = goal[g].current
        /\ r.status = goal[g].status /\ r.armed = goal[g].armed
    BY <1>1, <2>1 DEF GoalRecords, GoalAssumption
  <2> HIDE DEF r
  <2>4. GoodGoal(r) /\ (WantsRound(r) => WantsRound(goal[g]))
    BY <1>1, <2>3 DEF GoodGoal, IsArmed, WantsRound
  <2> QED BY <1>6, <2>2, <2>3, <2>4
<1> QED BY <1>8, <1>9, <1>10, <1>11, <1>12, <1>13, <1>14, <1>15, <1>16 DEF Operations

LEMMA ToolWritesKeeps == ASSUME GoalAssumption, GoalInv, ToolWrites PROVE GoalInv'
<1> DEFINE g == toolRead.id
           r == CancelRecord(toolRead.record)
<1>1. /\ triggers \subseteq Goals /\ pausing \subseteq Goals /\ userWork \in BOOLEAN /\ goalOps \in 0 .. MaxGoalOps
      /\ round \in [Rounds -> {"none", "reserved"} \cup RoundRuns \cup RoundEnded]
      /\ toolRead # NoRead => g \in Goals /\ GoodGoal(toolRead.record)
  BY DEF GoalInv, GoalTypes
<1>2. g \in Goals /\ GoodGoal(r) /\ r.current = 0 /\ ~WantsRound(r)
  BY <1>1, StoppedIsGood DEF ToolWrites, WantsRound
<1>3. /\ goal' = [goal EXCEPT ![g] = r] /\ toolRead' = NoRead
      /\ UNCHANGED <<job, jobs, line, round, pausing, triggers, userWork, goalOps>>
  BY DEF ToolWrites, SaveGoal
<1> HIDE DEF r, g
<1> QED BY <1>1, <1>2, <1>3, RecordChanges

\* Nothing changes but the rounds, of which none begins, or user work ends.
LEMMA OutsideKeeps ==
  ASSUME GoalAssumption, GoalInv, UserWorkEnds \/ \E t \in Rounds : RoundEnds(t) PROVE GoalInv'
<1>1. round \in [Rounds -> {"none", "reserved"} \cup RoundRuns \cup RoundEnded] /\ userWork \in BOOLEAN
  BY DEF GoalInv, GoalTypes
<1>2. /\ round' \in [Rounds -> {"none", "reserved"} \cup RoundRuns \cup RoundEnded]
      /\ \A u \in Rounds : round'[u] \in RoundRuns => round[u] \in RoundRuns
  <2>1. CASE UserWorkEnds
    BY <1>1, <2>1 DEF UserWorkEnds
  <2>2. CASE \E t \in Rounds : RoundEnds(t)
    <3>1. PICK t \in Rounds, how \in {"none"} \cup RoundEnded : round' = [round EXCEPT ![t] = how]
      BY <2>2 DEF RoundEnds, RoundEnded
    <3> QED BY <1>1, <3>1 DEF RoundRuns, RoundEnded
  <2> QED BY <2>1, <2>2
<1>3. /\ UNCHANGED <<goal, job, jobs, line, pausing, triggers, toolRead, goalOps>>
      /\ userWork' \in BOOLEAN /\ (userWork' => userWork)
  <2>1. CASE UserWorkEnds
    BY <2>1 DEF UserWorkEnds
  <2>2. CASE \E t \in Rounds : RoundEnds(t)
    BY <1>1, <2>2 DEF RoundEnds
  <2> QED BY <2>1, <2>2
<1>4. GoalTypes'
  BY <1>2, <1>3 DEF GoalInv, GoalTypes
<1>5. RegisteredIsOwn' /\ GateIsInLine' /\ OneHolder' /\ LateHasNone' /\ CurrentIsAwaited'
  BY <1>3 DEF GoalInv, RegisteredIsOwn, GateIsInLine, OneHolder, LateHasNone, CurrentIsAwaited
<1>6. OneRuns' /\ SubmitsAlone'
  BY <1>2, <1>3 DEF GoalInv, OneRuns, SubmitsAlone
<1>7. UserIsQuiet'
  BY <1>3 DEF GoalInv, UserIsQuiet
<1>8. Driven'
  <2>1. \A g \in Goals, j \in Jobs : Drives(g, j) => Drives(g, j)'
    BY <1>3 DEF Drives
  <2> QED BY <1>3, <2>1 DEF GoalInv, Driven
<1> QED BY <1>4, <1>5, <1>6, <1>7, <1>8 DEF GoalInv

LEMMA UserWorkStartsKeeps ==
  ASSUME GoalAssumption, QuietRounds, GoalInv, UserWorkStarts PROVE GoalInv'
<1>1. /\ \A j \in Jobs : job[j].at \in {"off", "sleep", "drain"}
      /\ userWork' = TRUE /\ goalOps' \in 0 .. MaxGoalOps
      /\ UNCHANGED <<goal, job, jobs, line, round, pausing, triggers, toolRead>>
  BY DEF UserWorkStarts, GoalOp, GoalInv, GoalTypes, GoalAssumption
<1>2. GoalTypes' /\ RegisteredIsOwn' /\ GateIsInLine' /\ OneHolder' /\ OneRuns' /\ SubmitsAlone'
  BY <1>1 DEF GoalInv, GoalTypes, RegisteredIsOwn, GateIsInLine, OneHolder, OneRuns, SubmitsAlone
<1>3. \A j \in Jobs : GoodJob(job[j])
  BY DEF GoalInv, GoalTypes
<1>4. UserIsQuiet'
  BY <1>1, <1>3 DEF UserIsQuiet, GoodJob
<1>5. \A j \in Jobs, g \in Goals : Drives(g, j) => Drives(g, j)'
  BY <1>1 DEF Drives
<1>6. Driven' /\ CurrentIsAwaited' /\ LateHasNone'
  BY <1>1, <1>5 DEF GoalInv, Driven, CurrentIsAwaited, LateHasNone
<1> QED BY <1>2, <1>4, <1>6 DEF GoalInv

\* There are jobs for all goals of the session at once.
JobsSuffice == \E f \in [Goals -> Jobs] : \A g, h \in Goals : f[g] = f[h] => g = h

LEMMA RestartGoalsKeeps ==
  ASSUME GoalAssumption, JobsSuffice, GoalInv, RestartGoals PROVE GoalInv'
<1> DEFINE again == {g \in Goals : WantsRound(goal[g])}
           f == CHOOSE x \in [again -> Jobs] : \A g, h \in again : x[g] = x[h] => g = h
<1>1. /\ goal' = [g \in Goals |-> IF IsArmed(goal[g]) /\ goal[g].current # 0
                                   THEN DisarmRecord(goal[g]) ELSE goal[g]]
      /\ round' = [t \in Rounds |-> "none"]
      /\ jobs' = [g \in Goals |-> IF g \in again THEN f[g] ELSE "none"]
      /\ job' = [j \in Jobs |-> IF \E g \in again : f[g] = j THEN Sleeps(CHOOSE g \in again : f[g] = j) ELSE NoJob]
      /\ line' = <<>> /\ pausing' = {} /\ triggers' = {} /\ toolRead' = NoRead /\ userWork' = userWork
      /\ goalOps' \in 0 .. MaxGoalOps
  <2>1. goalOps' \in 0 .. MaxGoalOps
    <3>1. GoalOp
      BY Zenon DEF RestartGoals
    <3> QED BY <3>1 DEF GoalOp, GoalInv, GoalTypes, GoalAssumption
  <2>2. /\ jobs' = [g \in Goals |-> IF g \in again THEN f[g] ELSE "none"]
        /\ job' = [j \in Jobs |-> IF \E g \in again : f[g] = j THEN Sleeps(CHOOSE g \in again : f[g] = j) ELSE NoJob]
    BY Zenon DEF RestartGoals, Sleeps
  <2> HIDE DEF again, f
  <2> QED BY <2>1, <2>2 DEF RestartGoals
<1>2. f \in [again -> Jobs] /\ \A g, h \in again : f[g] = f[h] => g = h
  <2>1. PICK e \in [Goals -> Jobs] : \A g, h \in Goals : e[g] = e[h] => g = h
    BY DEF JobsSuffice
  <2>2. [g \in again |-> e[g]] \in [again -> Jobs]
    OBVIOUS
  <2>3. \A g, h \in again : [x \in again |-> e[x]][g] = [x \in again |-> e[x]][h] => g = h
    BY <2>1
  <2>4. \E x \in [again -> Jobs] : \A g, h \in again : x[g] = x[h] => g = h
    BY <2>2, <2>3
  <2> QED BY <2>4
<1> HIDE DEF f
<1>3. /\ NoJob.goal = "none" /\ NoJob.at = "off" /\ NoJob.task = 0 /\ ~NoJob.soon /\ ~NoJob.error
      /\ NoJob \in JobRecords
  BY DEF NoJob, JobRecords, JobPlaces, GoalAssumption
<1>4. ASSUME NEW g \in Goals
      PROVE  /\ Sleeps(g).goal = g /\ Sleeps(g).at = "sleep" /\ Sleeps(g).task = 0
             /\ ~Sleeps(g).soon /\ ~Sleeps(g).error /\ g # "none" /\ Sleeps(g) \in JobRecords
  <2>1. "sleep" \in JobPlaces
    BY DEF JobPlaces
  <2> QED BY <1>3, <2>1 DEF Sleeps, JobRecords, NoJob, GoalAssumption
<1>5. ASSUME NEW g \in again PROVE f[g] \in Jobs /\ job'[f[g]] = Sleeps(g)
  <2> DEFINE c == CHOOSE h \in again : f[h] = f[g]
  <2>1. f[g] \in Jobs /\ c \in again /\ f[c] = f[g]
    BY <1>2
  <2>2. c = g
    BY <1>2, <2>1
  <2>3. job'[f[g]] = Sleeps(c)
    BY <1>1, <2>1
  <2> QED BY <2>1, <2>2, <2>3
<1>6. \A j \in Jobs : job'[j] = NoJob \/ \E g \in again : job'[j] = Sleeps(g)
  BY <1>1, <1>5
<1>7. \A j \in Jobs : /\ job'[j] \in JobRecords /\ GoodJob(job'[j]) /\ job'[j].at \in {"off", "sleep"}
                      /\ ~job'[j].soon /\ ~job'[j].error
  <2>1. GoodJob(NoJob)
    BY <1>3 DEF GoodJob, Holding
  <2>2. \A g \in Goals : GoodJob(Sleeps(g))
    BY <1>4 DEF GoodJob, Holding
  <2> QED BY <1>3, <1>4, <1>6, <2>1, <2>2
<1>8. ASSUME NEW g \in Goals
      PROVE  GoodGoal(goal'[g]) /\ goal'[g].current = 0 /\ (WantsRound(goal'[g]) => g \in again)
  <2>1. GoodGoal(goal[g])
    BY DEF GoalInv, GoalTypes
  <2>2. CASE IsArmed(goal[g]) /\ goal[g].current # 0
    BY <1>1, <2>1, <2>2, DisarmedIsGood
  <2>3. CASE ~(IsArmed(goal[g]) /\ goal[g].current # 0)
    BY <1>1, <2>1, <2>3 DEF GoodGoal
  <2> QED BY <2>2, <2>3
<1>9. GoalTypes'
  <2>1. goal' \in [Goals -> GoalRecords]
    BY <1>1, <1>8 DEF GoodGoal
  <2>2. job' \in [Jobs -> JobRecords]
    BY <1>1, <1>7
  <2>3. jobs' \in [Goals -> Jobs \cup {"none"}]
    BY <1>1, <1>2
  <2>4. line' \in Seq(Jobs) /\ userWork' \in BOOLEAN
    BY <1>1 DEF GoalInv, GoalTypes
  <2> QED BY <1>1, <1>7, <1>8, <2>1, <2>2, <2>3, <2>4 DEF GoalTypes
<1>10. RegisteredIsOwn'
  <2>1. ASSUME NEW g \in Goals, jobs'[g] # "none" PROVE job'[jobs'[g]].goal = g
    BY <1>1, <1>4, <1>5, <2>1
  <2> QED BY <2>1 DEF RegisteredIsOwn
<1>11. GateIsInLine' /\ OneHolder' /\ SubmitsAlone' /\ UserIsQuiet' /\ LateHasNone'
  BY <1>7 DEF GateIsInLine, OneHolder, SubmitsAlone, UserIsQuiet, LateHasNone, Holding
<1>12. OneRuns'
  BY <1>1 DEF OneRuns, RoundRuns
<1>13. Driven'
  <2>1. ASSUME NEW g \in again PROVE \E j \in Jobs : Drives(g, j)'
    BY <1>4, <1>5, <2>1 DEF Drives
  <2> QED BY <1>8, <2>1 DEF Driven
<1>14. CurrentIsAwaited'
  BY <1>8 DEF CurrentIsAwaited
<1> QED BY <1>9, <1>10, <1>11, <1>12, <1>13, <1>14 DEF GoalInv

LEMMA GoalInitInv == ASSUME GoalAssumption, GoalInit PROVE GoalInv
<1>1. /\ NoJob.goal = "none" /\ NoJob.at = "off" /\ NoJob.task = 0 /\ ~NoJob.soon /\ ~NoJob.error
      /\ NoJob \in JobRecords
  BY DEF NoJob, JobRecords, JobPlaces, GoalAssumption
<1>2. GoodJob(NoJob)
  BY <1>1 DEF GoodJob, Holding
<1>3. ASSUME NEW g \in Goals PROVE GoodGoal(goal[g]) /\ goal[g].current = 0 /\ goal[g].status = "none"
  BY DEF GoalInit, GoodGoal, GoalRecords, Statuses, GoalAssumption
<1>4. GoalTypes
  <2>1. goal \in [Goals -> GoalRecords]
    BY <1>3 DEF GoalInit, GoodGoal
  <2>2. job \in [Jobs -> JobRecords] /\ \A j \in Jobs : GoodJob(job[j])
    BY <1>1, <1>2 DEF GoalInit
  <2>3. line \in Seq(Jobs) /\ round \in [Rounds -> {"none", "reserved"} \cup RoundRuns \cup RoundEnded]
    BY DEF GoalInit
  <2>4. jobs \in [Goals -> Jobs \cup {"none"}] /\ goalOps \in 0 .. MaxGoalOps
    BY DEF GoalInit, GoalAssumption
  <2>5. pausing \subseteq Goals /\ triggers \subseteq Goals /\ userWork \in BOOLEAN /\ toolRead = NoRead
    BY DEF GoalInit
  <2> QED BY <1>3, <2>1, <2>2, <2>3, <2>4, <2>5 DEF GoalTypes
<1>5. \A j \in Jobs : job[j] = NoJob
  BY DEF GoalInit
<1>6. RegisteredIsOwn /\ GateIsInLine /\ OneHolder /\ SubmitsAlone /\ UserIsQuiet /\ LateHasNone
  BY <1>1, <1>5 DEF GoalInit, RegisteredIsOwn, GateIsInLine, OneHolder, SubmitsAlone, UserIsQuiet, LateHasNone, Holding
<1>7. OneRuns /\ Driven /\ CurrentIsAwaited
  BY <1>3 DEF GoalInit, OneRuns, RoundRuns, Driven, CurrentIsAwaited, WantsRound, IsArmed
<1> QED BY <1>4, <1>6, <1>7 DEF GoalInv

LEMMA GoalNextInv ==
  ASSUME GoalAssumption, JobsSuffice, PromptCancels, QuietRounds, GoalInv, [GoalNext]_goalVars
  PROVE  GoalInv'
<1>1. CASE ToolWrites
  BY <1>1, ToolWritesKeeps
<1>2. ASSUME NEW j \in Jobs, DriveGoal(j) \/ SubmitRoundRaises(j) \/ RoundTimesOut(j) PROVE GoalInv'
  BY <1>2, WakeKeeps, GateOpensKeeps, SubmitRoundKeeps, RoundReturnsKeeps, RoundTimesOutKeeps, CancelLateRoundKeeps,
     SoonTriggerKeeps, JobDoneKeeps DEF DriveGoal
<1>3. ASSUME NEW g \in Goals, CreateGoal(g) \/ ResumeGoal(g) \/ TriggersSoon(g) \/ Operations(g) PROVE GoalInv'
  BY <1>3, CreateGoalKeeps, OperationsKeep
<1>4. CASE UserWorkEnds \/ \E t \in Rounds : RoundEnds(t)
  BY <1>4, OutsideKeeps
<1>5. CASE UserWorkStarts \/ RestartGoals
  BY <1>5, UserWorkStartsKeeps, RestartGoalsKeeps
<1>6. CASE UNCHANGED goalVars
  BY <1>6 DEF goalVars, GoalInv, GoalTypes, RegisteredIsOwn, GateIsInLine, OneHolder, OneRuns, SubmitsAlone, UserIsQuiet,
     Driven, Drives, CurrentIsAwaited, LateHasNone
<1> QED BY <1>1, <1>2, <1>3, <1>4, <1>5, <1>6 DEF GoalNext, Operations
-----------------------------------------------------------------------------
(* A step of one part leaves the other parts alone.                          *)
LEMMA PartsMove ==
  ASSUME [WorkNext]_sessionVars
  PROVE  /\ [Next]_vars /\ [GoalNext]_goalVars /\ [PlanNext]_planVars
         /\ [ChildNext]_childVars /\ [BeatNext]_beatVars
<1>1. CASE WorkNext
  BY <1>1 DEF WorkNext, Rest
<1>2. CASE UNCHANGED sessionVars
  BY <1>2 DEF sessionVars
<1> QED BY <1>1, <1>2

THEOREM GoalInvAlways ==
  ASSUME GoalAssumption, JobsSuffice, PromptCancels, QuietRounds
  PROVE  WorkSpec => []GoalInv
<1>1. WorkInit => GoalInv
  BY GoalInitInv DEF WorkInit
<1>2. GoalInv /\ [WorkNext]_sessionVars => GoalInv'
  BY PartsMove, GoalNextInv
<1> QED BY <1>1, <1>2, PTL DEF WorkSpec

\* At most one autonomous round of a session runs, no goal exceeds its limit, an armed goal is
\* on its way to a round and its round is awaited (GoalRoundDriver).
THEOREM RoundsAreDrivenAlways ==
  ASSUME GoalAssumption, JobsSuffice, PromptCancels, QuietRounds
  PROVE  WorkSpec => []RoundsAreDriven
<1>1. GoalInv => RoundsAreDriven
  <2> SUFFICES ASSUME GoalInv PROVE RoundsAreDriven
    OBVIOUS
  <2>1. OneRoundPerSession
    <3> DEFINE R == {t \in Rounds : round[t] \in RoundRuns}
    <3>1. CASE R = {}
      BY <3>1, FS_EmptySet DEF OneRoundPerSession
    <3>2. CASE R # {}
      <4>1. PICK a \in R : TRUE
        BY <3>2
      <4>2. R = {a}
        BY DEF GoalInv, OneRuns
      <4>3. Cardinality({a}) = 1
        BY FS_Singleton
      <4> QED BY <4>2, <4>3 DEF OneRoundPerSession
    <3> QED BY <3>1, <3>2
  <2>2. RoundsWithinLimit
    BY DEF GoalInv, GoalTypes, GoodGoal, RoundsWithinLimit
  <2>3. ArmedIsDriven
    BY DEF GoalInv, Driven, Drives, ArmedIsDriven
  <2> QED BY <2>1, <2>2, <2>3 DEF GoalInv, RoundsAreDriven
<1> QED BY <1>1, GoalInvAlways, PTL
-----------------------------------------------------------------------------
(* An ended goal stays ended.                                                *)

Continues(r, s) ==
  /\ r.status \in GoalTerminal => s.status \in {r.status, "gone"}
  /\ r.status = "gone" => s.status = "gone"
  /\ s.rounds >= r.rounds

\* A tool that has read a goal writes what is still stored.
ReadIsFresh ==
  toolRead # NoRead => toolRead.record = goal[toolRead.id] /\ toolRead.record.status \in {"active", "paused", "blocked"}

LEMMA EndedContinues ==
  ASSUME GoalAssumption, NEW r, GoodGoal(r)
  PROVE  /\ Continues(r, r)
         /\ Continues(r, DisarmRecord(r))
         /\ IsArmed(r) => Continues(r, FinishRound(r)) /\ \A t : Continues(r, ReserveRound(r, t))
         /\ r.status \notin GoalTerminal \cup {"gone"} =>
              /\ Continues(r, PauseRecord(r)) /\ Continues(r, BlockRecord(r)) /\ Continues(r, CancelRecord(r))
              /\ Continues(r, CompleteRecord(r)) /\ Continues(r, ResumeRecord(r))
         /\ r.status = "none" => Continues(r, NewGoal(r))
<1>1. r \in GoalRecords /\ r.rounds \in Nat
  BY DEF GoodGoal, GoalRecords, GoalAssumption
<1>2. CASE r.status \in GoalTerminal
  BY <1>1, <1>2 DEF Continues, DisarmRecord, IsArmed, GoalTerminal
<1>3. CASE r.status \notin GoalTerminal
  BY <1>1, <1>3 DEF Continues, GoalRecords, GoalTerminal, IsArmed, DisarmRecord, FinishRound, ReserveRound,
     PauseRecord, BlockRecord, CancelRecord, CompleteRecord, ResumeRecord, NewGoal
<1> QED BY <1>2, <1>3

\* One goal changes, or none.
LEMMA OneContinues ==
  ASSUME GoalAssumption, GoalInv, NEW g \in Goals, NEW s, Continues(goal[g], s), goal' = [goal EXCEPT ![g] = s]
  PROVE  \A h \in Goals : Continues(goal[h], goal'[h])
BY EndedContinues DEF GoalInv, GoalTypes

LEMMA NoneContinues ==
  ASSUME GoalAssumption, GoalInv, UNCHANGED goal PROVE \A h \in Goals : Continues(goal[h], goal'[h])
BY EndedContinues DEF GoalInv, GoalTypes

LEMMA JobContinues ==
  ASSUME GoalAssumption, GoalInv, NEW j \in Jobs, DriveGoal(j) \/ SubmitRoundRaises(j) \/ RoundTimesOut(j)
  PROVE  \A h \in Goals : Continues(goal[h], goal'[h])
<1> DEFINE g == job[j].goal
           r == goal[g]
<1>1. CASE UNCHANGED goal
  BY <1>1, NoneContinues
<1>2. ASSUME g \in Goals, NEW s, Continues(r, s), goal' = [goal EXCEPT ![g] = s]
      PROVE  \A h \in Goals : Continues(goal[h], goal'[h])
  BY <1>2, OneContinues
<1>3. job[j].at # "off" => /\ g \in Goals /\ GoodGoal(r) /\ goal \in [Goals -> GoalRecords]
                           /\ (job[j].at \in Holding => job[j].task # 0)
  BY JobFacts DEF GoodJob, GoalInv, GoalTypes
<1>4. IsArmed(r) => r.status \notin GoalTerminal \cup {"gone"}
  BY DEF IsArmed, GoalTerminal
<1>5. ASSUME UnderGate(j), job[j].at # "off" PROVE \A h \in Goals : Continues(goal[h], goal'[h])
  <2>1. CASE WantsRound(r) /\ goal' = [goal EXCEPT ![g] = BlockRecord(@)]
    BY <1>2, <1>3, <1>4, <1>5, <2>1, EndedContinues DEF WantsRound
  <2>2. CASE WantsRound(r) /\ \E t : goal' = [goal EXCEPT ![g] = ReserveRound(@, t)]
    BY <1>2, <1>3, <1>5, <2>2, EndedContinues DEF WantsRound
  <2>3. \/ UNCHANGED goal
        \/ WantsRound(r) /\ goal' = [goal EXCEPT ![g] = BlockRecord(@)]
        \/ WantsRound(r) /\ \E t : goal' = [goal EXCEPT ![g] = ReserveRound(@, t)]
    BY <1>5, Zenon DEF UnderGate
  <2> QED BY <1>1, <2>1, <2>2, <2>3
<1>6. CASE Wake(j) \/ GateOpens(j)
  BY <1>1, <1>5, <1>6 DEF Wake, GateOpens
<1>7. CASE SubmitRound(j) \/ SubmitRoundRaises(j) \/ CancelLateRound(j) \/ SoonTrigger(j)
  BY <1>1, <1>7 DEF SubmitRound, SubmitRoundRaises, CancelLateRound, SoonTrigger
<1>8. ASSUME job[j].at = "wait", r.current = job[j].task PROVE IsArmed(r)
  BY <1>3, <1>8 DEF Holding, GoodGoal
<1>9. CASE RoundReturns(j)
  <2> DEFINE how == round[job[j].task]
             s == CASE how = "completed" -> FinishRound(r)
                    [] how = "cancelled" -> DisarmRecord(r)
                    [] OTHER -> BlockRecord(r)
  <2>1. CASE r.current = job[j].task /\ goal' = [goal EXCEPT ![g] = s]
    <3>1. job[j].at = "wait" /\ IsArmed(r)
      BY <1>8, <1>9, <2>1 DEF RoundReturns
    <3>2. Continues(r, s)
      BY <1>3, <1>4, <3>1, EndedContinues
    <3> HIDE DEF s
    <3> QED BY <1>2, <1>3, <2>1, <3>1, <3>2
  <2>2. UNCHANGED goal \/ (r.current = job[j].task /\ goal' = [goal EXCEPT ![g] = s])
    BY <1>9, Zenon DEF RoundReturns
  <2> QED BY <1>1, <2>1, <2>2
<1>10. CASE RoundTimesOut(j)
  <2>1. CASE r.current = job[j].task /\ goal' = [goal EXCEPT ![g] = BlockRecord(@)]
    <3>1. job[j].at = "wait" /\ IsArmed(r)
      BY <1>8, <1>10, <2>1 DEF RoundTimesOut
    <3>2. Continues(r, BlockRecord(r)) /\ goal' = [goal EXCEPT ![g] = BlockRecord(r)]
      BY <1>3, <1>4, <2>1, <3>1, EndedContinues
    <3> QED BY <1>2, <1>3, <3>1, <3>2
  <2> QED BY <1>1, <1>10, <2>1 DEF RoundTimesOut
<1>11. CASE JobDone(j)
  <2>1. CASE r.status \notin GoalTerminal \cup {"gone"} /\ goal' = [goal EXCEPT ![g] = BlockRecord(@)]
    <3>1. job[j].at # "off"
      BY <1>11 DEF JobDone
    <3>2. Continues(r, BlockRecord(r)) /\ goal' = [goal EXCEPT ![g] = BlockRecord(r)]
      BY <1>3, <2>1, <3>1, EndedContinues
    <3> QED BY <1>2, <1>3, <3>1, <3>2
  <2>2. UNCHANGED goal \/ (r.status \notin GoalTerminal \cup {"gone"} /\ goal' = [goal EXCEPT ![g] = BlockRecord(@)])
    BY <1>11, Zenon DEF JobDone
  <2> QED BY <1>1, <2>1, <2>2
<1> QED BY <1>6, <1>7, <1>9, <1>10, <1>11 DEF DriveGoal

LEMMA OperationContinues ==
  ASSUME GoalAssumption, GoalInv, NEW g \in Goals,
         CreateGoal(g) \/ ResumeGoal(g) \/ TriggersSoon(g) \/ Operations(g)
  PROVE  \A h \in Goals : Continues(goal[h], goal'[h])
<1> DEFINE r == goal[g]
<1>1. CASE UNCHANGED goal
  BY <1>1, NoneContinues
<1>2. ASSUME NEW s, Continues(r, s), goal' = [goal EXCEPT ![g] = s]
      PROVE  \A h \in Goals : Continues(goal[h], goal'[h])
  BY <1>2, OneContinues
<1>3. GoodGoal(r) /\ r \in GoalRecords /\ goal \in [Goals -> GoalRecords]
  BY DEF GoalInv, GoalTypes
<1>4. CASE TriggersSoon(g) \/ AskPause(g) \/ ToolReads(g)
  BY <1>1, <1>4 DEF TriggersSoon, AskPause, ToolReads
<1>5. CASE CreateGoal(g) \/ CreateGoalTool(g)
  BY <1>2, <1>3, <1>5, EndedContinues DEF CreateGoal, CreateGoalTool, SaveGoal
<1>6. CASE ResumeGoal(g) \/ ResumeGoalTool(g)
  BY <1>2, <1>3, <1>6, EndedContinues DEF ResumeGoal, ResumeGoalTool, SaveGoal, Open, GoalTerminal
<1>7. CASE CancelGoal(g) \/ StopGoal(g)
  BY <1>2, <1>3, <1>7, EndedContinues DEF CancelGoal, StopGoal, SaveGoal, Open, GoalTerminal
<1>8. CASE ReconcilePlan(g)
  BY <1>2, <1>3, <1>8, EndedContinues DEF ReconcilePlan, SaveGoal, Open, GoalTerminal
<1>9. CASE CompleteGoal(g)
  BY <1>2, <1>3, <1>9, EndedContinues DEF CompleteGoal, SaveGoal, GoalTerminal
<1>10. CASE PauseGoal(g)
  BY <1>1, <1>2, <1>3, <1>10, EndedContinues DEF PauseGoal, SaveGoal, GoalTerminal
<1>11. CASE ArchiveGoal(g)
  <2> DEFINE s == [CancelRecord(r) EXCEPT !.status = "gone"]
  <2>1. goal' = [goal EXCEPT ![g] = s]
    BY <1>3, <1>11 DEF ArchiveGoal, DeleteGoal
  <2>2. s.status = "gone" /\ s.rounds = r.rounds /\ r.rounds \in Nat
    BY <1>3 DEF CancelRecord, GoalRecords, GoalAssumption
  <2> HIDE DEF s
  <2>3. Continues(r, s)
    BY <2>2 DEF Continues
  <2> QED BY <1>2, <2>1, <2>3
<1>12. CASE UpdateMaxRounds(g)
  <2>1. PICK n : goal' = [goal EXCEPT ![g].max = n]
    BY <1>12 DEF UpdateMaxRounds
  <2> DEFINE s == [r EXCEPT !.max = n]
  <2>2. goal' = [goal EXCEPT ![g] = s]
    BY <1>3, <2>1
  <2>3. s.status = r.status /\ s.rounds = r.rounds /\ r.rounds \in Nat
    BY <1>3 DEF GoalRecords, GoalAssumption
  <2> HIDE DEF s
  <2>4. Continues(r, s)
    BY <2>3 DEF Continues
  <2> QED BY <1>2, <2>2, <2>4
<1> QED BY <1>4, <1>5, <1>6, <1>7, <1>8, <1>9, <1>10, <1>11, <1>12 DEF Operations

LEMMA RestartContinues ==
  ASSUME GoalAssumption, GoalInv, RestartGoals PROVE \A h \in Goals : Continues(goal[h], goal'[h])
<1>1. goal' = [g \in Goals |-> IF IsArmed(goal[g]) /\ goal[g].current # 0
                               THEN DisarmRecord(goal[g]) ELSE goal[g]]
  BY Zenon DEF RestartGoals
<1> QED BY <1>1, EndedContinues DEF GoalInv, GoalTypes

\* Nothing else happens between a tool's read and its write.
LEMMA NextContinues ==
  ASSUME GoalAssumption, PromptTools, GoalInv, ReadIsFresh, [GoalNext]_goalVars
  PROVE  (\A h \in Goals : Continues(goal[h], goal'[h])) /\ ReadIsFresh'
<1>1. CASE ToolWrites
  <2> DEFINE g == toolRead.id
             s == CancelRecord(goal[g])
  <2>1. g \in Goals /\ goal' = [goal EXCEPT ![g] = s] /\ toolRead' = NoRead
    BY <1>1 DEF ToolWrites, SaveGoal, ReadIsFresh, GoalInv, GoalTypes
  <2>2. GoodGoal(goal[g]) /\ goal[g].status \notin GoalTerminal \cup {"gone"}
    BY <1>1, <2>1 DEF ToolWrites, ReadIsFresh, GoalInv, GoalTypes, GoalTerminal
  <2>3. Continues(goal[g], s)
    BY <2>2, EndedContinues
  <2> HIDE DEF s, g
  <2> QED BY <2>1, <2>3, OneContinues DEF ReadIsFresh
<1>2. CASE UNCHANGED goalVars
  BY <1>2, NoneContinues DEF goalVars, ReadIsFresh
<1>3. CASE toolRead = NoRead /\ GoalNext /\ ~ToolWrites
  <2>1. ASSUME NEW j \in Jobs, DriveGoal(j) \/ SubmitRoundRaises(j) \/ RoundTimesOut(j)
        PROVE  (\A h \in Goals : Continues(goal[h], goal'[h])) /\ ReadIsFresh'
    <3>1. toolRead' = toolRead
      BY <2>1, Zenon DEF DriveGoal, SubmitRoundRaises, RoundTimesOut, Wake, GateOpens, SubmitRound, RoundReturns,
         CancelLateRound, SoonTrigger, JobDone
    <3> QED BY <1>3, <2>1, <3>1, JobContinues DEF ReadIsFresh
  <2>2. ASSUME NEW g \in Goals, CreateGoal(g) \/ ResumeGoal(g) \/ TriggersSoon(g) \/ Operations(g)
        PROVE  (\A h \in Goals : Continues(goal[h], goal'[h])) /\ ReadIsFresh'
    <3>1. CASE ToolReads(g)
      <4>1. goal' = goal /\ toolRead' = [id |-> g, record |-> goal[g]] /\ goal[g].status \in {"active", "paused", "blocked"}
        BY <3>1 DEF ToolReads, Open
      <4> QED BY <2>2, <4>1, OperationContinues DEF ReadIsFresh
    <3>2. CASE ~ToolReads(g)
      <4>1. toolRead' = toolRead
        BY <2>2, <3>2, Zenon DEF CreateGoal, ResumeGoal, TriggersSoon, Operations, CreateGoalTool, AskPause, PauseGoal,
           ResumeGoalTool, CancelGoal, CompleteGoal, ReconcilePlan, StopGoal, ArchiveGoal, UpdateMaxRounds
      <4> QED BY <1>3, <2>2, <4>1, OperationContinues DEF ReadIsFresh
    <3> QED BY <3>1, <3>2
  <2>3. CASE UserWorkStarts \/ UserWorkEnds \/ \E t \in Rounds : RoundEnds(t)
    <3>1. UNCHANGED <<goal, toolRead>>
      BY <2>3 DEF UserWorkStarts, UserWorkEnds, RoundEnds
    <3> QED BY <1>3, <3>1, NoneContinues DEF ReadIsFresh
  <2>4. CASE RestartGoals
    <3>1. toolRead' = NoRead
      BY <2>4, Zenon DEF RestartGoals
    <3> QED BY <2>4, <3>1, RestartContinues DEF ReadIsFresh
  <2> QED BY <1>3, <2>1, <2>2, <2>3, <2>4 DEF GoalNext, Operations
<1> QED BY <1>1, <1>2, <1>3 DEF GoalNext

\* An ended goal stays ended whatever its running round does afterwards, and its rounds are never
\* forgotten (GoalRuntime), where a tool's read and write are not interleaved.
THEOREM GoalsEndOnceAlways ==
  ASSUME GoalAssumption, JobsSuffice, PromptCancels, QuietRounds, PromptTools
  PROVE  WorkSpec => GoalsEndOnce
<1> DEFINE Step == \A g \in Goals :
             /\ goal[g].status \in GoalTerminal => goal'[g].status \in {goal[g].status, "gone"}
             /\ goal[g].status = "gone" => goal'[g].status = "gone"
             /\ goal'[g].rounds >= goal[g].rounds
<1>1. WorkInit => ReadIsFresh
  BY DEF WorkInit, GoalInit, ReadIsFresh
<1>2. GoalInv /\ ReadIsFresh /\ [WorkNext]_sessionVars => ReadIsFresh' /\ [Step]_goalVars
  BY PartsMove, NextContinues DEF Continues
<1> QED BY <1>1, <1>2, GoalInvAlways, PTL DEF WorkSpec, GoalsEndOnce
-----------------------------------------------------------------------------
(* The heartbeat.                                                            *)

\* A live execution keeps its entry busy, and an eviction finds none.
BeatInv ==
  /\ BeatTypeOK
  /\ \A b, c \in LiveBeats : b = c
  /\ LiveBeats # {} => beatEntry = "busy" /\ beatLoop # "evicts"
  /\ beatLoop = "evicts" => beatEntry = "busy"
LEMMA BeatInitInv == ASSUME BeatAssumption, BeatInit PROVE BeatInv
<1>1. BeatTypeOK
  <2>1. beatPaused \in BOOLEAN /\ gatewayWork \in BOOLEAN
    BY Zenon DEF BeatInit
  <2>2. beatRun \in [Beats -> {"off", "live", "stuck", "over"}]
    BY DEF BeatInit
  <2>3. busySkips \in 0 .. StuckLimit /\ beatOps \in 0 .. MaxBeatOps
    BY DEF BeatInit, BeatAssumption
  <2> QED BY <2>1, <2>2, <2>3 DEF BeatInit, BeatTypeOK
<1>2. LiveBeats = {} /\ beatLoop = "sleep"
  BY DEF BeatInit, LiveBeats
<1> QED BY <1>1, <1>2 DEF BeatInv

\* An execution begins where none is live.
LEMMA ExecutesKeeps ==
  ASSUME BeatAssumption, BeatInv, beatEntry # "busy", BeatExecutes, beatLoop' \in {beatLoop, "awaits"},
         busySkips' \in 0 .. StuckLimit, UNCHANGED <<beatPaused, gatewayWork>>, beatOps' \in 0 .. MaxBeatOps
  PROVE  BeatInv'
<1>1. NextBeat \in Beats /\ beatEntry' = "busy" /\ beatRun' = [beatRun EXCEPT ![NextBeat] = "live"]
  <2>1. FreeBeats \in SUBSET Nat /\ FreeBeats # {}
    BY DEF BeatExecutes, FreeBeats, Beats
  <2>2. NextBeat \in FreeBeats
    BY <2>1, LeastOf DEF NextBeat
  <2> QED BY <2>2 DEF BeatExecutes, FreeBeats
<1>2. LiveBeats = {}
  BY DEF BeatInv
<1>3. LiveBeats' \subseteq {NextBeat}
  BY <1>1, <1>2 DEF BeatInv, BeatTypeOK, LiveBeats
<1>4. BeatTypeOK'
  BY <1>1 DEF BeatInv, BeatTypeOK
<1> QED BY <1>1, <1>3, <1>4 DEF BeatInv

LEMMA BeatNextInv ==
  ASSUME BeatAssumption, HonestBusy, BeatInv, [BeatNext]_beatVars PROVE BeatInv'
<1>1. CASE UNCHANGED beatVars
  BY <1>1 DEF beatVars, BeatInv, BeatTypeOK, LiveBeats
<1>2. CASE BeatRound
  <2>1. CASE SkipQuietly /\ UNCHANGED beatLoop
    BY <1>2, <2>1 DEF BeatRound, SkipQuietly, BeatInv, BeatTypeOK, LiveBeats
  <2>2. CASE SkipBusy("loop")
    BY <1>2, <2>2 DEF BeatRound, SkipBusy, BeatInv, BeatTypeOK, LiveBeats, BeatAssumption
  <2>3. CASE SkipForWork
    BY <1>2, <2>3 DEF BeatRound, SkipForWork, BeatInv, BeatTypeOK, LiveBeats, BeatAssumption
  <2>4. CASE SendBeat /\ beatLoop' = "awaits"
    <3>1. beatEntry # "busy" /\ BeatExecutes /\ busySkips' = 0 /\ UNCHANGED <<beatPaused, gatewayWork, beatOps>>
      BY <1>2, <2>4 DEF BeatRound, SendBeat
    <3>2. busySkips' \in 0 .. StuckLimit /\ beatOps' \in 0 .. MaxBeatOps
      BY <3>1 DEF BeatInv, BeatTypeOK, BeatAssumption
    <3> QED BY <2>4, <3>1, <3>2, ExecutesKeeps
  <2> QED BY <1>2, <2>1, <2>2, <2>3, <2>4 DEF BeatRound
<1>3. CASE BeatReturns
  BY <1>3 DEF BeatReturns, BeatInv, BeatTypeOK, LiveBeats
<1>4. CASE RecoverStuck
  <2>1. /\ beatLoop = "evicts" /\ beatLoop' = "sleep" /\ beatEntry' = "none" /\ busySkips' \in 0 .. StuckLimit
        /\ beatRun' = [b \in Beats |-> IF beatRun[b] = "stuck" THEN "over" ELSE beatRun[b]]
        /\ UNCHANGED <<beatPaused, gatewayWork, beatOps>>
    BY <1>4 DEF RecoverStuck, BeatInv, BeatTypeOK, BeatAssumption
  <2>2. LiveBeats' = {}
    BY <2>1 DEF BeatInv, LiveBeats
  <2>3. BeatTypeOK'
    BY <2>1 DEF BeatInv, BeatTypeOK
  <2> QED BY <2>1, <2>2, <2>3 DEF BeatInv
<1>5. CASE ForceBeat \/ UserWrites
  <2>1. beatOps' \in 0 .. MaxBeatOps /\ UNCHANGED <<beatPaused, gatewayWork>>
    BY <1>5 DEF ForceBeat, UserWrites, BeatOp, BeatInv, BeatTypeOK, BeatAssumption
  <2>2. CASE SkipForWork
    BY <2>1, <2>2 DEF SkipForWork, BeatInv, BeatTypeOK, LiveBeats, BeatAssumption
  <2>3. CASE beatEntry # "busy" /\ BeatExecutes /\ UNCHANGED beatLoop /\ busySkips' \in {0, busySkips}
    <3>1. busySkips' \in 0 .. StuckLimit
      BY <2>3 DEF BeatInv, BeatTypeOK, BeatAssumption
    <3> QED BY <2>1, <2>3, <3>1, ExecutesKeeps
  <2> QED BY <1>5, <2>2, <2>3 DEF ForceBeat, UserWrites, SendBeat
<1>6. CASE WorkChanges \/ \E p \in BOOLEAN : PauseBeat(p)
  <2>1. beatOps' \in 0 .. MaxBeatOps /\ UNCHANGED <<busySkips, beatLoop, beatEntry, beatRun>>
    BY <1>6 DEF WorkChanges, PauseBeat, BeatOp, BeatInv, BeatTypeOK, BeatAssumption
  <2>2. beatPaused' \in BOOLEAN /\ gatewayWork' \in BOOLEAN
    BY <1>6, Zenon DEF WorkChanges, PauseBeat, BeatInv, BeatTypeOK
  <2> QED BY <2>1, <2>2 DEF BeatInv, BeatTypeOK, LiveBeats
<1>7. ASSUME NEW b \in Beats, NEW clean \in BOOLEAN, BeatEnds(b, clean) PROVE BeatInv'
  <2>1. /\ b \in LiveBeats /\ beatRun' = [beatRun EXCEPT ![b] = IF clean THEN "over" ELSE "stuck"]
        /\ beatEntry' \in {beatEntry, "idle"} /\ UNCHANGED <<beatPaused, busySkips, beatLoop, gatewayWork, beatOps>>
    BY <1>7 DEF BeatEnds, LiveBeats
  <2>2. LiveBeats' = {}
    BY <2>1 DEF BeatInv, BeatTypeOK, LiveBeats
  <2>3. BeatTypeOK' /\ beatLoop' # "evicts"
    BY <2>1 DEF BeatInv, BeatTypeOK
  <2> QED BY <2>2, <2>3 DEF BeatInv
<1> QED BY <1>1, <1>2, <1>3, <1>4, <1>5, <1>6, <1>7 DEF BeatNext
-----------------------------------------------------------------------------
(* Child agents.                                                             *)

\* An observer is the registered one of its child, which is reported as running its run.
ObserversKnow ==
  \A t \in ChildRuns : observer[t] # NoObserver =>
    /\ runner[t] \in Children /\ watched[runner[t]] = t /\ report[runner[t]] = Latest("running", t)
    /\ observer[t].at \in {"new", "waits"} /\ (observer[t].at = "waits" => observer[t].task = t)
RunningIsObserved ==
  \A c \in Children : report[c].status = "running" =>
    watched[c] \in ChildRuns /\ runner[watched[c]] = c /\ observer[watched[c]] # NoObserver
WatchedIsOwn == \A c \in Children : watched[c] # 0 => runner[watched[c]] = c
LiveIsObserved == \A t \in ChildRuns : childRun[t] = "live" => runner[t] \in Children /\ observer[t] # NoObserver
\* Between two operations on a child, its report does not change.
CallsAreQuiet == \A c \in calls : report[c] # Absent /\ report[c].status # "running" /\ c \notin stopping
StoppedIsAsked ==
  \A c \in stopping :
    /\ report[c] # Absent
    /\ \A t \in ChildRuns : runner[t] = c => childRun[t] # "live" /\ observer[t].at # "new"

Rows == [status : ChildStatus, task : 0 .. MaxChildTasks]
ChildTypes ==
  /\ member \in [Children -> Rows \cup {NoRow}] /\ report \in [Children -> Rows \cup {Absent}]
  /\ calls \subseteq Children /\ stopping \subseteq Children
  /\ childRun \in [ChildRuns -> {"none", "live", "asked"} \cup RunEnded]
  /\ runner \in [ChildRuns -> Children \cup {"none"}]
  /\ observer \in [ChildRuns -> [at : {"none", "new", "waits"}, task : 0 .. MaxChildTasks]]
  /\ watched \in [Children -> 0 .. MaxChildTasks] /\ childOps \in 0 .. MaxChildOps

ChildInv ==
  /\ ChildTypes /\ ObserversKnow /\ RunningIsObserved /\ LiveIsObserved /\ CallsAreQuiet /\ StoppedIsAsked
  /\ RowsFollowReports /\ WatchedIsOwn
LEMMA ChildInitInv == ASSUME ChildAssumption, ChildInit PROVE ChildInv
<1>1. ChildTypes
  <2>1. 0 \in 0 .. MaxChildTasks /\ childOps \in 0 .. MaxChildOps
    BY DEF ChildInit, ChildAssumption
  <2>2. observer \in [ChildRuns -> [at : {"none", "new", "waits"}, task : 0 .. MaxChildTasks]]
    BY <2>1 DEF ChildInit, NoObserver
  <2> QED BY <2>1, <2>2 DEF ChildInit, ChildTypes
<1>2. \A c \in Children : report[c].status = "absent" /\ member[c] = NoRow
  BY DEF ChildInit, Absent
<1> QED BY <1>1, <1>2 DEF ChildInit, ChildInv, ObserversKnow, RunningIsObserved, LiveIsObserved, CallsAreQuiet,
  StoppedIsAsked, RowsFollowReports, WatchedIsOwn

\* What names stand for.
LEMMA ChildFacts ==
  ASSUME ChildAssumption, ChildInv
  PROVE  /\ Absent \notin Rows /\ NoRow \notin Rows /\ Absent.status = "absent" /\ NoRow.status = "none"
         /\ "absent" \notin ChildStatus /\ "none" \notin ChildStatus /\ "none" \notin Children
         /\ \A r \in Rows : r.status \in ChildStatus
         /\ \A c \in Children : member[c] \in Rows \cup {NoRow} /\ report[c] \in Rows \cup {Absent}
         /\ \A c \in Children : Known(c) => ReportOf(c) \in Rows
BY DEF Absent, NoRow, Rows, ChildStatus, RunEnded, ChildAssumption, ChildInv, ChildTypes, Known, ReportOf

\* An operation reads a report, or leaves another that is not running either.
LEMMA ReportChanges ==
  ASSUME ChildAssumption, ChildInv, NEW c \in Children, NEW r \in Rows,
         report' = [report EXCEPT ![c] = r],
         r.status = "running" => report[c] = r,
         \A t \in ChildRuns : runner[t] = c /\ observer[t] # NoObserver => report[c] = r,
         member' = member \/ member' = [member EXCEPT ![c] = r],
         member'[c] # NoRow => member'[c] = r,
         calls \subseteq calls', calls' \subseteq calls \cup {c}, c \in calls' => r.status # "running" /\ c \notin stopping',
         stopping \subseteq stopping', stopping' \subseteq stopping \cup {c},
         c \in stopping' \ stopping => c \notin calls' /\ \A t \in ChildRuns : runner[t] = c => childRun'[t] # "live" /\ observer[t].at # "new",
         childRun' \in [ChildRuns -> {"none", "live", "asked"} \cup RunEnded],
         \A t \in ChildRuns : childRun'[t] = "live" => childRun[t] = "live",
         UNCHANGED <<runner, observer, watched>>, childOps' \in 0 .. MaxChildOps
  PROVE  ChildInv'
<1> USE ChildFacts DEF ChildInv
<1>1. \A d \in Children : report'[d] = IF d = c THEN r ELSE report[d]
  BY DEF ChildTypes
<1>2. \A d \in Children \ {c} : member'[d] = member[d]
  BY DEF ChildTypes
<1>3. ChildTypes'
  BY DEF ChildTypes
<1>4. ObserversKnow'
  BY <1>1 DEF ObserversKnow
<1>5. RunningIsObserved'
  BY <1>1 DEF RunningIsObserved
<1>6. LiveIsObserved'
  BY DEF LiveIsObserved
<1>7. CallsAreQuiet'
  <2>1. ASSUME NEW d \in calls' PROVE report'[d] # Absent /\ report'[d].status # "running" /\ d \notin stopping'
    <3>1. CASE d = c
      BY <1>1, <2>1, <3>1
    <3>2. CASE d # c
      BY <1>1, <2>1, <3>2 DEF CallsAreQuiet, ChildTypes
    <3> QED BY <3>1, <3>2
  <2> QED BY <2>1 DEF CallsAreQuiet
<1>8. StoppedIsAsked'
  <2>1. ASSUME NEW d \in stopping', NEW t \in ChildRuns, runner[t] = d
        PROVE  childRun'[t] # "live" /\ observer[t].at # "new"
    <3>1. CASE d \in stopping
      BY <2>1, <3>1 DEF StoppedIsAsked
    <3>2. CASE d \notin stopping
      BY <2>1, <3>2
    <3> QED BY <3>1, <3>2
  <2>2. \A d \in stopping' : report'[d] # Absent
    BY <1>1 DEF StoppedIsAsked, ChildTypes
  <2> QED BY <2>1, <2>2 DEF StoppedIsAsked
<1>9. RowsFollowReports'
  BY <1>1, <1>2 DEF RowsFollowReports
<1>10. WatchedIsOwn'
  BY DEF WatchedIsOwn
<1> QED BY <1>3, <1>4, <1>5, <1>6, <1>7, <1>8, <1>9, <1>10

\* The operations on a child up to what they await.
LEMMA ChildOpsKeep ==
  ASSUME ChildAssumption, PromptCalls, ChildInv, NEW c \in Children,
         CreateChild(c) \/ ContinueChild(c) \/ CancelChild(c) \/ ArchiveChild(c)
  PROVE  ChildInv'
<1> USE ChildFacts
<1> DEFINE r == ReportOf(c)
<1>1. /\ childRun \in [ChildRuns -> {"none", "live", "asked"} \cup RunEnded] /\ childOps \in 0 .. MaxChildOps
      /\ member \in [Children -> Rows \cup {NoRow}] /\ report \in [Children -> Rows \cup {Absent}]
  BY DEF ChildInv, ChildTypes
<1>2. ChildOp => childOps' \in 0 .. MaxChildOps
  BY <1>1 DEF ChildOp, ChildAssumption
\* An observed child is reported as running.
<1>3. \A t \in ChildRuns : runner[t] = c /\ observer[t] # NoObserver => report[c] = Latest("running", t)
  BY DEF ChildInv, ObserversKnow
<1>4. "running" \in ChildStatus /\ "requested" \in ChildStatus /\ "archived" \in ChildStatus
  BY DEF ChildStatus
<1>5. report[c] # Absent => r = report[c]
  BY DEF ReportOf
<1>6. member[c] # NoRow => IF report[c] = Absent THEN member[c].status # "running" ELSE member[c] = report[c]
  BY DEF ChildInv, RowsFollowReports
<1>7. Latest("requested", 0) \in Rows /\ Latest("requested", 0).status = "requested"
  BY <1>4 DEF Latest, Rows, ChildAssumption
<1>8. \A t : Latest("running", t).status = "running" /\ Latest("running", t).task = t
  BY DEF Latest
<1>9. \A t \in ChildRuns : runner[t] = c /\ observer[t] # NoObserver => report[c] # Absent /\ r.status = "running" /\ report[c] = r
  <2>1. ASSUME NEW t \in ChildRuns, runner[t] = c, observer[t] # NoObserver
        PROVE  report[c] # Absent /\ r.status = "running" /\ report[c] = r
    <3>1. report[c].status = "running"
      BY <1>3, <1>8, <2>1
    <3>2. report[c] # Absent
      BY <3>1 DEF Absent
    <3> QED BY <1>5, <3>1, <3>2
  <2> QED BY <2>1
<1>10. CASE CreateChild(c)
  <2> DEFINE q == Latest("requested", 0)
  <2>1. /\ report[c] = Absent /\ member[c] = NoRow /\ report' = [report EXCEPT ![c] = q]
        /\ \/ member' = [member EXCEPT ![c] = q] /\ calls' = calls \cup {c}
           \/ UNCHANGED <<member, calls>>
        /\ UNCHANGED <<childRun, runner, observer, watched, stopping, childOps>>
    BY <1>10 DEF CreateChild
  <2>2. \A t \in ChildRuns : ~(runner[t] = c /\ observer[t] # NoObserver)
    BY <1>9, <2>1
  <2>3. c \notin stopping /\ c \notin calls
    BY <2>1 DEF ChildInv, StoppedIsAsked, CallsAreQuiet
  <2>4. member'[c] # NoRow => member'[c] = q
    BY <1>1, <2>1
  <2> HIDE DEF q
  <2>5. q \in Rows /\ q.status # "running"
    BY <1>7 DEF q
  <2> QED BY <1>1, <2>1, <2>2, <2>3, <2>4, <2>5, ReportChanges
<1>11. CASE ContinueChild(c)
  <2>1. /\ ChildOp /\ Known(c) /\ r.status # "running" /\ report' = [report EXCEPT ![c] = r] /\ calls' = calls \cup {c}
        /\ UNCHANGED <<member, childRun, runner, observer, watched, stopping>>
        /\ c \notin stopping
    BY <1>11 DEF ContinueChild, Quiet
  <2>2. \A t \in ChildRuns : ~(runner[t] = c /\ observer[t] # NoObserver)
    BY <1>9, <2>1
  <2>3. member'[c] # NoRow => member'[c] = r
    BY <1>6, <2>1 DEF ReportOf
  <2>4. r \in Rows
    BY <2>1
  <2> HIDE DEF r
  <2> QED BY <1>1, <1>2, <2>1, <2>2, <2>3, <2>4, ReportChanges
<1>12. CASE ArchiveChild(c)
  <2> DEFINE q == [r EXCEPT !.status = "archived"]
  <2>1. /\ ChildOp /\ Known(c) /\ r.status # "running" /\ report' = [report EXCEPT ![c] = q]
        /\ member' = IF member[c] = NoRow THEN member ELSE [member EXCEPT ![c] = q]
        /\ UNCHANGED <<calls, childRun, runner, observer, watched, stopping>>
        /\ c \notin stopping /\ c \notin calls
    BY <1>12 DEF ArchiveChild, Quiet, Publish
  <2>2. \A t \in ChildRuns : ~(runner[t] = c /\ observer[t] # NoObserver)
    BY <1>9, <2>1
  <2>3. r \in Rows
    BY <2>1
  <2>4. q \in Rows /\ q.status = "archived"
    BY <1>4, <2>3 DEF Rows
  <2>5. member'[c] # NoRow => member'[c] = q
    BY <1>1, <2>1
  <2> HIDE DEF q
  <2> QED BY <1>1, <1>2, <2>1, <2>2, <2>4, <2>5, ReportChanges
<1>13. CASE CancelChild(c)
  <2>1. /\ ChildOp /\ Known(c) /\ report' = [report EXCEPT ![c] = r]
        /\ childRun' = IF r.task = 0 THEN childRun ELSE AskRun(r.task)
        /\ stopping' = stopping \cup {c}
        /\ UNCHANGED <<member, calls, runner, observer, watched>>
        /\ c \notin stopping /\ c \notin calls
        /\ \A t \in ChildRuns : runner[t] = c => observer[t].at # "new"
    BY <1>13 DEF CancelChild, Quiet
  <2>2. /\ childRun' \in [ChildRuns -> {"none", "live", "asked"} \cup RunEnded]
        /\ \A t \in ChildRuns : childRun'[t] = "live" => childRun[t] = "live" /\ (t = r.task => r.task = 0)
    BY <1>1, <2>1 DEF AskRun
  <2>3. ASSUME NEW t \in ChildRuns, runner[t] = c, childRun'[t] = "live" PROVE FALSE
    <3>1. report[c] = Latest("running", t)
      BY <1>3, <2>2, <2>3 DEF ChildInv, LiveIsObserved
    <3>2. r.task = t
      BY <1>8, <1>9, <2>2, <2>3, <3>1 DEF ChildInv, LiveIsObserved
    <3> QED BY <2>2, <2>3, <3>2 DEF ChildRuns
  <2>4. r \in Rows /\ (r.status = "running" => report[c] = r)
    BY <1>6, <2>1 DEF ReportOf
  <2>5. \A t \in ChildRuns : runner[t] = c /\ observer[t] # NoObserver => report[c] = r
    BY <1>9
  <2>6. member'[c] # NoRow => member'[c] = r
    BY <1>6, <2>1 DEF ReportOf
  <2> HIDE DEF r
  <2> QED BY <1>1, <1>2, <2>1, <2>2, <2>3, <2>4, <2>5, <2>6, ReportChanges, ZenonT(60)
<1> QED BY <1>10, <1>11, <1>12, <1>13

\* A task that is submitted gets a run that no child had.
LEMMA SubmitChildKeeps ==
  ASSUME ChildAssumption, ChildInv, NEW c \in Children, SubmitChild(c) \/ SubmitChildRaises(c)
  PROVE  ChildInv'
<1> USE ChildFacts DEF ChildInv
<1>1. CASE SubmitChildRaises(c)
  BY <1>1 DEF SubmitChildRaises, ChildTypes, ObserversKnow, RunningIsObserved, LiveIsObserved, CallsAreQuiet,
    StoppedIsAsked, RowsFollowReports, WatchedIsOwn, ReportOf
<1>2. ASSUME NEW t \in ChildRuns, c \in calls, calls' = calls \ {c}, runner[t] = "none",
             childRun' = [childRun EXCEPT ![t] = "live"], runner' = [runner EXCEPT ![t] = c],
             observer' = [observer EXCEPT ![t].at = "new"], watched' = [watched EXCEPT ![c] = t],
             Publish(c, Latest("running", t)), UNCHANGED <<stopping, childOps>>
      PROVE  ChildInv'
  <2>1. report[c] # Absent /\ report[c].status # "running" /\ c \notin stopping
    BY <1>2 DEF CallsAreQuiet
  <2>2. observer[t] = NoObserver
    BY <1>2 DEF ObserversKnow
  <2>3. \A u : Latest("running", u).status = "running" /\ Latest("running", u).task = u
    BY DEF Latest
  <2>4. \A u \in ChildRuns : runner[u] = c => observer[u] = NoObserver
    BY <2>1, <2>3 DEF ObserversKnow
  <2>5. Latest("running", t) \in Rows
    BY <1>2 DEF Latest, Rows, ChildStatus, ChildRuns
  <2>6. \A d \in Children : /\ report'[d] = IF d = c THEN Latest("running", t) ELSE report[d]
                            /\ watched'[d] = IF d = c THEN t ELSE watched[d]
    BY <1>2 DEF Publish, ChildTypes
  <2>7. \A d \in Children : member'[d] = IF d = c /\ member[d] # NoRow THEN Latest("running", t) ELSE member[d]
    BY <1>2 DEF Publish, ChildTypes
  <2>8. \A u \in ChildRuns : u # t => /\ runner'[u] = runner[u] /\ observer'[u] = observer[u] /\ childRun'[u] = childRun[u]
    BY <1>2 DEF ChildTypes
  <2>9. runner'[t] = c /\ observer'[t].at = "new" /\ childRun'[t] = "live" /\ observer'[t] # NoObserver
    BY <1>2 DEF ChildTypes, NoObserver
  <2>10. ChildTypes'
    <3>1. member' \in [Children -> Rows \cup {NoRow}] /\ report' \in [Children -> Rows \cup {Absent}]
      BY <1>2, <2>5 DEF Publish, ChildTypes
    <3>2. watched' \in [Children -> 0 .. MaxChildTasks]
      BY <1>2 DEF ChildTypes, ChildRuns
    <3> QED BY <1>2, <3>1, <3>2 DEF ChildTypes
  <2>11. ObserversKnow'
    <3>1. ASSUME NEW u \in ChildRuns, observer'[u] # NoObserver
          PROVE  /\ runner'[u] \in Children /\ watched'[runner'[u]] = u /\ report'[runner'[u]] = Latest("running", u)
                 /\ observer'[u].at \in {"new", "waits"} /\ (observer'[u].at = "waits" => observer'[u].task = u)
      <4>1. CASE u = t
        BY <2>6, <2>9, <4>1
      <4>2. CASE u # t
        BY <2>4, <2>6, <2>8, <3>1, <4>2 DEF ObserversKnow
      <4> QED BY <4>1, <4>2
    <3> QED BY <3>1 DEF ObserversKnow
  <2>12. RunningIsObserved'
    BY <1>2, <2>6, <2>8, <2>9 DEF RunningIsObserved
  <2>13. LiveIsObserved'
    BY <2>8, <2>9 DEF LiveIsObserved
  <2>14. CallsAreQuiet'
    BY <1>2, <2>6 DEF CallsAreQuiet, ChildTypes
  <2>15. StoppedIsAsked'
    BY <1>2, <2>1, <2>6, <2>8, <2>9 DEF StoppedIsAsked, ChildTypes
  <2>16. RowsFollowReports'
    BY <2>5, <2>6, <2>7 DEF RowsFollowReports
  <2>17. WatchedIsOwn'
    <3>1. ASSUME NEW d \in Children, watched'[d] # 0 PROVE runner'[watched'[d]] = d
      <4>1. CASE d = c
        BY <2>6, <2>9, <4>1
      <4>2. CASE d # c
        BY <1>2, <2>6, <2>8, <3>1, <4>2 DEF WatchedIsOwn, ChildTypes, ChildRuns
      <4> QED BY <4>1, <4>2
    <3> QED BY <3>1 DEF WatchedIsOwn
  <2> QED BY <2>10, <2>11, <2>12, <2>13, <2>14, <2>15, <2>16, <2>17
<1> QED BY <1>1, <1>2 DEF SubmitChild

\* An observer that leaves takes its child out of running.
LEMMA ObserverLeaves ==
  ASSUME ChildAssumption, ChildInv, NEW t \in ChildRuns, NEW st \in RunEnded,
         observer[t] # NoObserver, childRun[t] # "live",
         Publish(runner[t], [report[runner[t]] EXCEPT !.status = st]),
         observer' = [observer EXCEPT ![t] = NoObserver],
         stopping' \subseteq stopping, UNCHANGED <<calls, childRun, runner, watched, childOps>>
  PROVE  ChildInv'
<1> USE ChildFacts DEF ChildInv
<1> DEFINE c == runner[t]
<1> DEFINE r == [report[c] EXCEPT !.status = st]
<1>1. c \in Children /\ watched[c] = t /\ report[c] = Latest("running", t)
  BY DEF ObserversKnow
<1>2. st \in ChildStatus /\ st # "running"
  BY DEF ChildStatus, RunEnded
<1>3. r \in Rows /\ r.status = st
  <2>1. Latest("running", t) \in Rows
    BY DEF Latest, Rows, ChildRuns, ChildStatus
  <2> QED BY <1>1, <1>2, <2>1 DEF Rows
<1>4. Publish(c, r)
  OBVIOUS
<1> HIDE DEF r
<1>5. report[c].status = "running"
  BY <1>1 DEF Latest
<1>6. \A d \in Children : report'[d] = IF d = c THEN r ELSE report[d]
  BY <1>1, <1>4 DEF Publish, ChildTypes
<1>7. \A d \in Children : member'[d] = IF d = c /\ member[d] # NoRow THEN r ELSE member[d]
  BY <1>1, <1>4 DEF Publish, ChildTypes
<1>8. \A u \in ChildRuns : observer'[u] = IF u = t THEN NoObserver ELSE observer[u]
  BY DEF ChildTypes
<1>9. \A u \in ChildRuns : u # t /\ observer[u] # NoObserver => runner[u] # c
  BY <1>1 DEF ObserversKnow
<1>10. ChildTypes'
  <2>1. member' \in [Children -> Rows \cup {NoRow}] /\ report' \in [Children -> Rows \cup {Absent}]
    <3>1. report' = [report EXCEPT ![c] = r] /\ member' \in {member, [member EXCEPT ![c] = r]}
      BY <1>4 DEF Publish
    <3> HIDE DEF c
    <3> QED BY <1>1, <1>3, <3>1 DEF ChildTypes
  <2>2. observer' \in [ChildRuns -> [at : {"none", "new", "waits"}, task : 0 .. MaxChildTasks]]
    BY DEF ChildTypes, NoObserver, ChildAssumption
  <2> QED BY <2>1, <2>2 DEF ChildTypes
<1> HIDE DEF c
<1>11. ObserversKnow'
  BY <1>6, <1>8, <1>9 DEF ObserversKnow
<1>12. RunningIsObserved'
  <2>1. ASSUME NEW d \in Children, report'[d].status = "running"
        PROVE  watched[d] \in ChildRuns /\ runner[watched[d]] = d /\ observer'[watched[d]] # NoObserver
    <3>1. d # c /\ report[d].status = "running"
      BY <1>2, <1>3, <1>6, <2>1
    <3>2. watched[d] \in ChildRuns /\ runner[watched[d]] = d /\ observer[watched[d]] # NoObserver
      BY <3>1 DEF RunningIsObserved
    <3> QED BY <1>8, <3>1, <3>2 DEF c
  <2> QED BY <2>1 DEF RunningIsObserved
<1>13. LiveIsObserved'
  BY <1>8 DEF LiveIsObserved
<1>14. CallsAreQuiet'
  BY <1>5, <1>6 DEF CallsAreQuiet, ChildTypes
<1>15. StoppedIsAsked'
  BY <1>3, <1>6, <1>8 DEF StoppedIsAsked, ChildTypes, NoObserver
<1>16. RowsFollowReports'
  BY <1>3, <1>6, <1>7 DEF RowsFollowReports
<1>17. WatchedIsOwn'
  BY DEF WatchedIsOwn
<1> QED BY <1>10, <1>11, <1>12, <1>13, <1>14, <1>15, <1>16, <1>17

LEMMA ObserveKeeps ==
  ASSUME ChildAssumption, ChildInv, NEW t \in ChildRuns, Observe(t) PROVE ChildInv'
<1> USE ChildFacts DEF ChildInv
<1>1. observer[t] # NoObserver
  BY DEF Observe, ObserverBegins, ObserverReports, NoObserver
<1>2. CASE ObserverBegins(t)
  <2>1. report[runner[t]].task = t
    <3>1. report[runner[t]] = Latest("running", t)
      BY <1>1 DEF ObserversKnow
    <3> QED BY <3>1 DEF Latest
  <2> DEFINE o == [at |-> "waits", task |-> t]
  <2>2. o # NoObserver /\ o.at = "waits" /\ o.task = t /\ o \in [at : {"none", "new", "waits"}, task : 0 .. MaxChildTasks]
    BY DEF NoObserver, ChildRuns
  <2>3. observer' = [observer EXCEPT ![t] = o] /\ UNCHANGED <<member, report, calls, childRun, runner, watched, stopping, childOps>>
    BY <1>2, <2>1 DEF ObserverBegins
  <2> HIDE DEF o
  <2>4. \A u \in ChildRuns : observer'[u] = IF u = t THEN o ELSE observer[u]
    BY <2>3 DEF ChildTypes
  <2>5. ChildTypes'
    BY <2>2, <2>3 DEF ChildTypes
  <2>6. ObserversKnow' /\ RunningIsObserved' /\ LiveIsObserved'
    BY <1>1, <2>2, <2>3, <2>4 DEF ObserversKnow, RunningIsObserved, LiveIsObserved
  <2>7. CallsAreQuiet' /\ StoppedIsAsked' /\ RowsFollowReports' /\ WatchedIsOwn'
    BY <2>2, <2>3, <2>4 DEF CallsAreQuiet, StoppedIsAsked, RowsFollowReports, WatchedIsOwn
  <2> QED BY <2>5, <2>6, <2>7
<1>3. CASE ObserverReports(t)
  <2>1. observer[t].task = t /\ childRun[t] \in RunEnded
    BY <1>1, <1>3 DEF ObserverReports, ObserversKnow
  <2>2. childRun[t] # "live"
    BY <2>1 DEF RunEnded
  <2> QED BY <1>1, <1>3, <2>1, <2>2, ObserverLeaves DEF ObserverReports
<1> QED BY <1>2, <1>3 DEF Observe

LEMMA StopObserverKeeps ==
  ASSUME ChildAssumption, ChildInv, NEW c \in Children, StopObserver(c) PROVE ChildInv'
<1> USE ChildFacts DEF ChildInv
<1>1. CASE watched[c] # 0 /\ observer[watched[c]] # NoObserver
  <2>1. watched[c] \in ChildRuns /\ runner[watched[c]] = c
    BY <1>1 DEF WatchedIsOwn, ChildTypes, ChildRuns
  <2>2. childRun[watched[c]] # "live" /\ observer[watched[c]].at # "new"
    BY <2>1 DEF StopObserver, StoppedIsAsked
  <2>3. "cancelled" \in RunEnded
    BY DEF RunEnded
  <2>4. /\ Publish(runner[watched[c]], [report[runner[watched[c]]] EXCEPT !.status = "cancelled"])
        /\ observer' = [observer EXCEPT ![watched[c]] = NoObserver]
        /\ stopping' \subseteq stopping /\ UNCHANGED <<calls, childRun, runner, watched, childOps>>
    BY <1>1, <2>1, <2>2 DEF StopObserver
  <2> QED BY <1>1, <2>1, <2>2, <2>3, <2>4, ObserverLeaves
<1>2. CASE ~(watched[c] # 0 /\ observer[watched[c]] # NoObserver)
  <2>1. stopping' \subseteq stopping /\ UNCHANGED <<member, report, calls, childRun, runner, observer, watched, childOps>>
    BY <1>2 DEF StopObserver
  <2> QED BY <2>1 DEF ChildTypes, ObserversKnow, RunningIsObserved, LiveIsObserved, CallsAreQuiet,
    StoppedIsAsked, RowsFollowReports, WatchedIsOwn
<1> QED BY <1>1, <1>2

LEMMA RunEndsKeeps ==
  ASSUME ChildAssumption, ChildInv, NEW t \in ChildRuns, RunEnds(t) PROVE ChildInv'
<1> USE ChildFacts DEF ChildInv
<1>1. PICK how \in RunEnded : childRun' = [childRun EXCEPT ![t] = how]
  BY DEF RunEnds, RunEnded
<1>2. UNCHANGED <<member, report, calls, runner, observer, watched, stopping, childOps>>
  BY DEF RunEnds
<1>3. how # "live"
  BY DEF RunEnded
<1>4. ChildTypes'
  BY <1>1, <1>2 DEF ChildTypes
<1>5. ObserversKnow' /\ RunningIsObserved' /\ CallsAreQuiet' /\ RowsFollowReports' /\ WatchedIsOwn'
  BY <1>2 DEF ObserversKnow, RunningIsObserved, CallsAreQuiet, RowsFollowReports, WatchedIsOwn
<1>6. LiveIsObserved' /\ StoppedIsAsked'
  BY <1>1, <1>2, <1>3 DEF LiveIsObserved, StoppedIsAsked, ChildTypes
<1> QED BY <1>4, <1>5, <1>6

\* A restart: a row that was running names a task that runs, which is interrupted.
LEMMA RestartChildrenKeeps ==
  ASSUME ChildAssumption, PromptCalls, ChildInv, RestartChildren PROVE ChildInv'
<1> USE ChildFacts DEF ChildInv
<1>1. /\ childRun' = [t \in ChildRuns |-> IF childRun[t] \in {"live", "asked"} THEN "interrupted" ELSE childRun[t]]
      /\ report' = [c \in Children |-> Absent] /\ calls' = {} /\ stopping' = {}
      /\ observer' = [t \in ChildRuns |-> NoObserver] /\ watched' = [c \in Children |-> 0] /\ UNCHANGED runner
  BY DEF RestartChildren
<1>2. childOps' \in 0 .. MaxChildOps
  BY DEF RestartChildren, ChildOp, ChildTypes, ChildAssumption
<1>3. /\ member' \in [Children -> Rows \cup {NoRow}]
      /\ \A c \in Children : member'[c] # NoRow => member'[c].status # "running"
  <2> DEFINE hit(c) == /\ member[c].status \in {"running", "requested"} /\ member[c].task # 0
                       /\ childRun'[member[c].task] = "interrupted"
  <2>1. member' = [c \in Children |-> IF hit(c) THEN [member[c] EXCEPT !.status = "interrupted"] ELSE member[c]]
    BY DEF RestartChildren
  <2>2. ASSUME NEW c \in Children, hit(c)
        PROVE  [member[c] EXCEPT !.status = "interrupted"] \in Rows /\ [member[c] EXCEPT !.status = "interrupted"].status = "interrupted"
    <3>1. member[c] \in Rows
      BY <2>2
    <3>2. "interrupted" \in ChildStatus
      BY DEF ChildStatus, RunEnded
    <3> QED BY <3>1, <3>2 DEF Rows
  <2>3. ASSUME NEW c \in Children, member[c] # NoRow, member[c].status = "running" PROVE hit(c)
    <3>1. report[c] # Absent /\ member[c] = report[c]
      BY <2>3 DEF RowsFollowReports
    <3>2. watched[c] \in ChildRuns /\ runner[watched[c]] = c /\ observer[watched[c]] # NoObserver
      BY <2>3, <3>1 DEF RunningIsObserved
    <3>3. member[c].task = watched[c] /\ observer[watched[c]].at # "none"
      <4>1. report[c] = Latest("running", watched[c]) /\ observer[watched[c]].at \in {"new", "waits"}
        BY <3>2 DEF ObserversKnow
      <4>2. member[c].task = watched[c]
        BY <3>1, <4>1 DEF Latest
      <4> QED BY <4>1, <4>2
    <3>4. childRun'[watched[c]] = "interrupted"
      BY <1>1, <3>2, <3>3 DEF RestartChildren
    <3> QED BY <2>3, <3>2, <3>3, <3>4 DEF ChildRuns
  <2> HIDE DEF hit
  <2> QED BY <2>1, <2>2, <2>3
<1>4. ChildTypes'
  <2>1. childRun' \in [ChildRuns -> {"none", "live", "asked"} \cup RunEnded]
    BY <1>1 DEF ChildTypes, RunEnded
  <2>2. NoObserver \in [at : {"none", "new", "waits"}, task : 0 .. MaxChildTasks] /\ 0 \in 0 .. MaxChildTasks
    BY DEF NoObserver, ChildAssumption
  <2> QED BY <1>1, <1>2, <1>3, <2>1, <2>2 DEF ChildTypes
<1>5. \A c \in Children : report'[c] = Absent
  BY <1>1
<1> QED BY <1>1, <1>3, <1>4, <1>5 DEF ObserversKnow, RunningIsObserved, LiveIsObserved, CallsAreQuiet,
  StoppedIsAsked, RowsFollowReports, WatchedIsOwn

LEMMA ChildNextInv ==
  ASSUME ChildAssumption, PromptCalls, ChildInv, [ChildNext]_childVars PROVE ChildInv'
<1>1. CASE UNCHANGED childVars
  BY <1>1 DEF childVars, ChildInv, ChildTypes, ObserversKnow, RunningIsObserved, LiveIsObserved, CallsAreQuiet,
    StoppedIsAsked, RowsFollowReports, WatchedIsOwn
<1>2. CASE ChildNext
  BY <1>2, ChildOpsKeep, SubmitChildKeeps, ObserveKeeps, StopObserverKeeps, RunEndsKeeps, RestartChildrenKeeps DEF ChildNext
<1> QED BY <1>1, <1>2

\* The reports of a child are true.
LEMMA ChildrenAreFollowed ==
  ASSUME ChildAssumption, ChildInv PROVE ChildTypeOK /\ ReportsAreTrue /\ RowsFollowReports
<1> USE ChildFacts DEF ChildInv
<1>1. ChildTypeOK
  BY DEF ChildTypes, ChildTypeOK, Rows
<1>2. ASSUME NEW c \in Children, report[c].status = "running"
      PROVE  \E t \in ChildRuns : runner[t] = c /\ observer[t] # NoObserver
  BY <1>2 DEF RunningIsObserved
<1>3. ASSUME NEW c \in Children, NEW t \in ChildRuns, runner[t] = c, childRun[t] = "live"
      PROVE  ReportOf(c).status = "running"
  <2>1. report[c] = Latest("running", t)
    BY <1>3 DEF LiveIsObserved, ObserversKnow
  <2>2. report[c].status = "running"
    BY <2>1 DEF Latest
  <2> QED BY <2>2 DEF ReportOf, Absent
<1>4. ReportsAreTrue
  BY <1>2, <1>3 DEF ReportsAreTrue
<1> QED BY <1>1, <1>4
-----------------------------------------------------------------------------
(* Plans.                                                                    *)

PlanStatus == {"none", "awaiting_approval", "approved", "active", "paused"} \cup PlanTerminal
StepStates == {"pending", "ready"} \cup StepRuns \cup StepTerminal
PlanStates == [status : PlanStatus, step : [Steps -> StepStates], tries : [Steps -> 0 .. RetryLimit + 1],
               link : [Steps -> 0 .. MaxPlanTasks]]
PlanPlaces == {"off", "begin", "submit", "wait", "gate", "done"}
PlanRecords == [at : PlanPlaces, step : Steps \cup {NoStep}, task : 0 .. MaxPlanTasks]
TaskRuns == {"live", "asked"}
TaskStates == {"none"} \cup TaskRuns \cup TaskEnded
InFlight == {"submit", "wait", "gate"}

PlanTypes ==
  /\ plan \in PlanStates
  /\ stepTask \in [PlanTasks -> TaskStates] /\ taskStep \in [PlanTasks -> Steps \cup {NoStep}]
  /\ planExec \in [Executors -> PlanRecords] /\ planRunner \in Executors \cup {"none"}
  /\ startSoon \in BOOLEAN /\ planOps \in 0 .. MaxPlanOps

\* A task that runs or is about to.
Submits(t) == \E e \in Executors : planExec[e].at = "submit" /\ planExec[e].task = t
Occupied == {t \in PlanTasks : stepTask[t] \in TaskRuns \/ Submits(t)}

\* A step that is ready, or further, has its dependencies behind it, and tries left
\* until it begins; one in flight is linked to a task of its own.
StepsAreReady(p) ==
  \A s \in Steps :
    /\ p.step[s] \in {"ready", "completed"} \cup StepRuns => \A d \in DependsOn[s] : p.step[d] = "completed"
    /\ p.step[s] \in {"pending", "ready"} => p.tries[s] <= RetryLimit
    /\ p.step[s] \in StepRuns => p.link[s] \in PlanTasks /\ taskStep[p.link[s]] = s
TasksInOrder(p) ==
  \A t \in PlanTasks : taskStep[t] # NoStep => \A d \in DependsOn[taskStep[t]] : p.step[d] = "completed"
\* The step of a task in T is in flight and linked to it, or over.
TasksAreTied(p, T) ==
  \A t \in T :
    /\ taskStep[t] # NoStep
    /\ \/ p.step[taskStep[t]] \in StepTerminal
       \/ p.step[taskStep[t]] \in StepRuns /\ p.link[taskStep[t]] = t
GoodPlan(p, T) == p \in PlanStates /\ StepsAreReady(p) /\ TasksInOrder(p) /\ TasksAreTied(p, T)

OneOccupies == \A t, u \in Occupied : taskStep[t] = taskStep[u] => t = u
\* There is one executor, and it knows its step and the task of it.
OneExecutor == \A e \in Executors : planExec[e].at # "off" => planRunner = e
ExecutorKnows ==
  \A e \in Executors : planExec[e].at \in InFlight =>
    /\ planExec[e].task \in PlanTasks /\ planExec[e].step \in Steps /\ taskStep[planExec[e].task] = planExec[e].step
    /\ planExec[e].at = "submit" => stepTask[planExec[e].task] = "none"
    /\ planExec[e].at = "gate" => stepTask[planExec[e].task] \in TaskEnded
    /\ plan.step[planExec[e].step] \in StepRuns => plan.link[planExec[e].step] = planExec[e].task

PlanInv ==
  /\ PlanTypes /\ GoodPlan(plan, Occupied)
  /\ OneOccupies /\ OneExecutor /\ ExecutorKnows

\* How a plan may change: to q, where the tasks in T run.
Follows(p, q, T) ==
  /\ q.link = p.link /\ q.tries = p.tries
  /\ \A s \in Steps :
       \/ q.step[s] = p.step[s]
       \/ p.step[s] \in StepRuns /\ q.step[s] = "completed"
       \/ p.step[s] = "pending" /\ q.step[s] = "ready" /\ \A d \in DependsOn[s] : p.step[d] = "completed"
       \/ p.step[s] # "completed" /\ q.step[s] \in {"blocked", "cancelled"}
       \/ /\ p.step[s] \in StepRuns /\ q.step[s] = "ready" /\ p.tries[s] <= RetryLimit
          /\ \A t \in T : taskStep[t] # s
KeepsRuns(p, q) == q.link = p.link /\ \A s \in Steps : q.step[s] \in StepRuns => p.step[s] \in StepRuns

LEMMA FollowsGood ==
  ASSUME PlanAssumption, NEW p, NEW q \in PlanStates, NEW T \in SUBSET PlanTasks,
         taskStep \in [PlanTasks -> Steps \cup {NoStep}], GoodPlan(p, T), Follows(p, q, T)
  PROVE  GoodPlan(q, T) /\ KeepsRuns(p, q)
<1>1. \A s \in Steps : p.step[s] = "completed" => q.step[s] = "completed"
  BY DEF Follows, StepRuns
<1>2. \A s \in Steps : DependsOn[s] \subseteq Steps
  BY DEF PlanAssumption
<1>3. KeepsRuns(p, q)
  BY DEF Follows, KeepsRuns, StepRuns
<1>4. StepsAreReady(q)
  <2>1. ASSUME NEW s \in Steps, q.step[s] \in {"ready", "completed"} \cup StepRuns, NEW d \in DependsOn[s]
        PROVE  q.step[d] = "completed"
    <3>1. p.step[d] = "completed"
      BY <2>1 DEF Follows, StepRuns, GoodPlan, StepsAreReady
    <3> QED BY <1>1, <1>2, <3>1
  <2>2. ASSUME NEW s \in Steps, q.step[s] \in {"pending", "ready"} PROVE q.tries[s] <= RetryLimit
    BY <2>2 DEF Follows, GoodPlan, StepsAreReady
  <2>3. ASSUME NEW s \in Steps, q.step[s] \in StepRuns PROVE q.link[s] \in PlanTasks /\ taskStep[q.link[s]] = s
    BY <1>3, <2>3 DEF KeepsRuns, GoodPlan, StepsAreReady
  <2> QED BY <2>1, <2>2, <2>3 DEF StepsAreReady
<1>5. TasksInOrder(q)
  BY <1>1, <1>2 DEF GoodPlan, TasksInOrder
<1>6. TasksAreTied(q, T)
  <2>1. ASSUME NEW t \in T
        PROVE  /\ taskStep[t] # NoStep
               /\ \/ q.step[taskStep[t]] \in StepTerminal
                  \/ q.step[taskStep[t]] \in StepRuns /\ q.link[taskStep[t]] = t
    <3>1. taskStep[t] \in Steps
      BY <2>1 DEF GoodPlan, TasksAreTied
    <3>2. p.step[taskStep[t]] \in StepTerminal \/ (p.step[taskStep[t]] \in StepRuns /\ p.link[taskStep[t]] = t)
      BY <2>1 DEF GoodPlan, TasksAreTied
    <3> QED BY <2>1, <3>1, <3>2 DEF Follows, StepRuns, StepTerminal, GoodPlan, TasksAreTied
  <2> QED BY <2>1 DEF TasksAreTied
<1> QED BY <1>3, <1>4, <1>5, <1>6 DEF GoodPlan

\* What the changes of PlanManager do to the fields.
LEMMA FieldsOf ==
  ASSUME NEW p \in PlanStates, NEW f \in [Steps -> StepStates]
  PROVE  /\ [p EXCEPT !.step = f] \in PlanStates /\ [p EXCEPT !.step = f].step = f
         /\ [p EXCEPT !.step = f].tries = p.tries /\ [p EXCEPT !.step = f].link = p.link
         /\ [p EXCEPT !.step = f].status = p.status
BY DEF PlanStates

LEMMA StatusFollows ==
  ASSUME NEW p \in PlanStates, NEW st \in PlanStatus, NEW T
  PROVE  [p EXCEPT !.status = st] \in PlanStates /\ Follows(p, [p EXCEPT !.status = st], T)
<1>1. /\ [p EXCEPT !.status = st] \in PlanStates /\ [p EXCEPT !.status = st].step = p.step
      /\ [p EXCEPT !.status = st].tries = p.tries /\ [p EXCEPT !.status = st].link = p.link
  BY DEF PlanStates
<1> QED BY <1>1 DEF Follows

LEMMA TerminalFollows ==
  ASSUME NEW p \in PlanStates, NEW T
  PROVE  RefreshTerminal(p) \in PlanStates /\ Follows(p, RefreshTerminal(p), T)
<1>1. "completed" \in PlanStatus /\ "failed" \in PlanStatus
  BY DEF PlanStatus, PlanTerminal
<1>2. CASE \E s \in Steps : p.step[s] \notin StepTerminal
  BY <1>2 DEF RefreshTerminal, Follows
<1>3. CASE ~\E s \in Steps : p.step[s] \notin StepTerminal
  <2> DEFINE st == IF \A s \in Steps : p.step[s] = "completed" THEN "completed" ELSE "failed"
  <2>1. st \in PlanStatus
    BY <1>1
  <2>2. RefreshTerminal(p) = [p EXCEPT !.status = st]
    BY <1>3 DEF RefreshTerminal
  <2> HIDE DEF st
  <2> QED BY <2>1, <2>2, StatusFollows
<1> QED BY <1>2, <1>3

LEMMA ReadyFollows ==
  ASSUME NEW p \in PlanStates, NEW T
  PROVE  RefreshReady(p) \in PlanStates /\ Follows(p, RefreshReady(p), T)
<1> DEFINE f == [s \in Steps |-> IF p.step[s] = "pending" /\ \A d \in DependsOn[s] : p.step[d] = "completed"
                                 THEN "ready" ELSE p.step[s]]
<1>1. "ready" \in StepStates /\ p.step \in [Steps -> StepStates]
  BY DEF StepStates, PlanStates
<1>2. f \in [Steps -> StepStates]
  BY <1>1
<1>3. RefreshReady(p) = [p EXCEPT !.step = f]
  BY DEF RefreshReady
<1>4. \A s \in Steps : f[s] = p.step[s] \/ (p.step[s] = "pending" /\ f[s] = "ready" /\ \A d \in DependsOn[s] : p.step[d] = "completed")
  OBVIOUS
<1> HIDE DEF f
<1>5. RefreshReady(p) \in PlanStates /\ RefreshReady(p).step = f /\ RefreshReady(p).tries = p.tries /\ RefreshReady(p).link = p.link
  BY <1>2, <1>3, FieldsOf
<1> QED BY <1>4, <1>5 DEF Follows

LEMMA BlockFollows ==
  ASSUME NEW p \in PlanStates, NEW s \in Steps, NEW T
  PROVE  BlockDownstream(p, s) \in PlanStates /\ Follows(p, BlockDownstream(p, s), T)
<1> DEFINE f == [u \in Steps |-> IF u \in Downstream(p, s) THEN "blocked" ELSE p.step[u]]
<1>1. "blocked" \in StepStates /\ p.step \in [Steps -> StepStates] /\ p.status \in PlanStatus
  BY DEF StepStates, StepTerminal, PlanStates
<1>2. f \in [Steps -> StepStates]
  BY <1>1
<1>3. \A u \in Downstream(p, s) : p.step[u] = "pending"
  BY DEF Downstream
<1>4. \A u \in Steps : f[u] = p.step[u] \/ (p.step[u] # "completed" /\ f[u] = "blocked")
  BY <1>3
<1>5. BlockDownstream(p, s) = [p EXCEPT !.step = f]
  BY DEF BlockDownstream
<1> HIDE DEF f
<1>6. /\ BlockDownstream(p, s) \in PlanStates /\ BlockDownstream(p, s).step = f
      /\ BlockDownstream(p, s).tries = p.tries /\ BlockDownstream(p, s).link = p.link
  BY <1>1, <1>2, <1>5, FieldsOf
<1> QED BY <1>4, <1>6 DEF Follows

\* A step that ends: completed, blocked, or ready where no task of it runs.
LEMMA SetFollows ==
  ASSUME NEW p \in PlanStates, NEW s \in Steps, NEW T, p.step[s] \in StepRuns, NEW v,
         \/ v \in {"completed", "blocked"}
         \/ v = "ready" /\ p.tries[s] <= RetryLimit /\ \A t \in T : taskStep[t] # s
  PROVE  SetStep(p, s, v) \in PlanStates /\ Follows(p, SetStep(p, s, v), T)
<1> DEFINE f == [p.step EXCEPT ![s] = v]
<1>1. v \in StepStates /\ p.step \in [Steps -> StepStates] /\ p.status \in PlanStatus
  BY DEF StepStates, StepTerminal, PlanStates
<1>2. f \in [Steps -> StepStates] /\ \A u \in Steps : f[u] = IF u = s THEN v ELSE p.step[u]
  BY <1>1
<1>3. SetStep(p, s, v) = [p EXCEPT !.step = f]
  BY DEF SetStep, PlanStates
<1> HIDE DEF f
<1>4. /\ SetStep(p, s, v) \in PlanStates /\ SetStep(p, s, v).step = f
      /\ SetStep(p, s, v).tries = p.tries /\ SetStep(p, s, v).link = p.link
  BY <1>1, <1>2, <1>3, FieldsOf
<1> QED BY <1>2, <1>4 DEF Follows, StepRuns

\* manager.cancel
LEMMA CancelFollows ==
  ASSUME NEW p \in PlanStates, NEW T
  PROVE  CancelPlan(p) \in PlanStates /\ Follows(p, CancelPlan(p), T)
<1> DEFINE f == [s \in Steps |-> IF p.step[s] \in StepTerminal THEN p.step[s] ELSE "cancelled"]
<1>1. "cancelled" \in StepStates /\ p.step \in [Steps -> StepStates] /\ "cancelled" \in PlanStatus
  BY DEF StepStates, StepTerminal, PlanStates, PlanStatus, PlanTerminal
<1>2. f \in [Steps -> StepStates]
  BY <1>1
<1>3. \A s \in Steps : f[s] = p.step[s] \/ (p.step[s] # "completed" /\ f[s] = "cancelled")
  BY DEF StepTerminal
<1>4. CancelPlan(p) = [p EXCEPT !.status = "cancelled", !.step = f]
  BY DEF CancelPlan
<1> HIDE DEF f
<1>5. CancelPlan(p) \in PlanStates /\ CancelPlan(p).step = f /\ CancelPlan(p).tries = p.tries /\ CancelPlan(p).link = p.link
  BY <1>1, <1>2, <1>4 DEF PlanStates
<1> QED BY <1>3, <1>5 DEF Follows

\* finish_task, where no task of the step runs any more.
LEMMA FinishGood ==
  ASSUME PlanAssumption, NEW p, NEW s \in Steps, NEW T \in SUBSET PlanTasks, NEW success \in BOOLEAN,
         taskStep \in [PlanTasks -> Steps \cup {NoStep}], GoodPlan(p, T), ~FinishRaises(p, s),
         p.step[s] \in StepRuns => \A t \in T : taskStep[t] # s
  PROVE  GoodPlan(FinishTask(p, s, success), T) /\ KeepsRuns(p, FinishTask(p, s, success))
<1> DEFINE q == IF success THEN SetStep(p, s, "completed")
                ELSE IF p.tries[s] <= RetryLimit THEN SetStep(p, s, "ready")
                ELSE BlockDownstream(SetStep(p, s, "blocked"), s)
           r == RefreshReady(q)
           f == IF p.status = "active" THEN RefreshTerminal(r) ELSE r
<1>1. CASE p.status \in PlanTerminal
  BY <1>1 DEF FinishTask, KeepsRuns
<1>2. CASE p.status \notin PlanTerminal
  <2>1. FinishTask(p, s, success) = f
    BY <1>2 DEF FinishTask
  <2>2. p.step[s] \in StepRuns /\ p \in PlanStates
    BY <1>2 DEF FinishRaises, GoodPlan
  <2>3. GoodPlan(q, T) /\ KeepsRuns(p, q)
    <3>1. CASE success
      <4> DEFINE a == SetStep(p, s, "completed")
      <4>1. a \in PlanStates /\ Follows(p, a, T)
        BY <2>2, SetFollows
      <4>2. q = a
        BY <3>1
      <4> HIDE DEF a, q
      <4> QED BY <4>1, <4>2, FollowsGood
    <3>2. CASE ~success /\ p.tries[s] <= RetryLimit
      <4> DEFINE a == SetStep(p, s, "ready")
      <4>1. a \in PlanStates /\ Follows(p, a, T)
        BY <2>2, <3>2, SetFollows
      <4>2. q = a
        BY <3>2
      <4> HIDE DEF a, q
      <4> QED BY <4>1, <4>2, FollowsGood
    <3>3. CASE ~success /\ ~(p.tries[s] <= RetryLimit)
      <4> DEFINE a == SetStep(p, s, "blocked")
      <4>1. a \in PlanStates /\ Follows(p, a, T)
        BY <2>2, SetFollows
      <4>2. q = BlockDownstream(a, s)
        BY <3>3
      <4> HIDE DEF a, q
      <4>3. GoodPlan(a, T) /\ KeepsRuns(p, a)
        BY <4>1, FollowsGood
      <4>4. q \in PlanStates /\ Follows(a, q, T)
        BY <4>1, <4>2, BlockFollows
      <4>5. GoodPlan(q, T) /\ KeepsRuns(a, q)
        BY <4>3, <4>4, FollowsGood
      <4> QED BY <4>3, <4>5 DEF KeepsRuns
    <3> HIDE DEF q
    <3> QED BY <3>1, <3>2, <3>3
  <2> HIDE DEF q
  <2>4. r \in PlanStates /\ Follows(q, r, T)
    BY <2>3, ReadyFollows DEF GoodPlan
  <2> HIDE DEF r
  <2>5. GoodPlan(r, T) /\ KeepsRuns(q, r)
    BY <2>3, <2>4, FollowsGood
  <2>6. f \in PlanStates /\ Follows(r, f, T)
    <3>1. CASE p.status = "active"
      BY <2>4, <3>1, TerminalFollows
    <3>2. CASE p.status # "active"
      BY <2>4, <3>2 DEF Follows
    <3> QED BY <3>1, <3>2
  <2> HIDE DEF f
  <2>7. GoodPlan(f, T) /\ KeepsRuns(r, f)
    BY <2>5, <2>6, FollowsGood
  <2> QED BY <2>1, <2>3, <2>5, <2>7 DEF KeepsRuns
<1> QED BY <1>1, <1>2

\* activate
LEMMA ActivateGood ==
  ASSUME PlanAssumption, NEW p, NEW T \in SUBSET PlanTasks,
         taskStep \in [PlanTasks -> Steps \cup {NoStep}], GoodPlan(p, T)
  PROVE  GoodPlan(Activate(p), T) /\ KeepsRuns(p, Activate(p))
<1> DEFINE a == [p EXCEPT !.status = "active"]
           b == RefreshReady(a)
<1>1. a \in PlanStates /\ Follows(p, a, T)
  BY StatusFollows DEF GoodPlan, PlanStatus
<1>2. Activate(p) = RefreshTerminal(b)
  BY DEF Activate
<1> HIDE DEF a
<1>3. GoodPlan(a, T) /\ KeepsRuns(p, a)
  BY <1>1, FollowsGood
<1>4. b \in PlanStates /\ Follows(a, b, T)
  BY <1>1, ReadyFollows
<1> HIDE DEF b
<1>5. GoodPlan(b, T) /\ KeepsRuns(a, b)
  BY <1>3, <1>4, FollowsGood
<1>6. RefreshTerminal(b) \in PlanStates /\ Follows(b, RefreshTerminal(b), T)
  BY <1>4, TerminalFollows
<1>7. GoodPlan(RefreshTerminal(b), T) /\ KeepsRuns(b, RefreshTerminal(b))
  BY <1>5, <1>6, FollowsGood
<1> QED BY <1>2, <1>3, <1>5, <1>7 DEF KeepsRuns

\* A step that submits nothing.
LEMMA QuietMove ==
  ASSUME PlanAssumption, PlanInv, GoodPlan(plan', Occupied'), KeepsRuns(plan, plan'), UNCHANGED taskStep,
         stepTask' \in [PlanTasks -> TaskStates],
         \A t \in PlanTasks : /\ stepTask'[t] \in TaskRuns => stepTask[t] \in TaskRuns
                              /\ stepTask[t] = "none" => stepTask'[t] = "none"
                              /\ stepTask[t] \in TaskEnded => stepTask'[t] \in TaskEnded,
         planExec' \in [Executors -> PlanRecords],
         \A e \in Executors : planExec'[e].at \in InFlight => planExec'[e] = planExec[e],
         OneExecutor', planRunner' \in Executors \cup {"none"}, startSoon' \in BOOLEAN, planOps' \in 0 .. MaxPlanOps
  PROVE  PlanInv'
<1>1. PlanTypes'
  BY DEF PlanInv, PlanTypes, GoodPlan
<1>2. Occupied' \subseteq Occupied
  <2>1. \A t \in PlanTasks : Submits(t)' => Submits(t)
    BY DEF Submits, InFlight
  <2> QED BY <2>1 DEF Occupied
<1>3. OneOccupies'
  BY <1>2 DEF PlanInv, OneOccupies
<1>4. ExecutorKnows'
  <2>1. ASSUME NEW e \in Executors, planExec'[e].at \in InFlight
        PROVE  /\ planExec'[e].task \in PlanTasks /\ planExec'[e].step \in Steps
               /\ taskStep'[planExec'[e].task] = planExec'[e].step
               /\ planExec'[e].at = "submit" => stepTask'[planExec'[e].task] = "none"
               /\ planExec'[e].at = "gate" => stepTask'[planExec'[e].task] \in TaskEnded
               /\ plan'.step[planExec'[e].step] \in StepRuns => plan'.link[planExec'[e].step] = planExec'[e].task
    <3>1. planExec'[e] = planExec[e]
      BY <2>1
    <3> QED BY <2>1, <3>1 DEF PlanInv, ExecutorKnows, KeepsRuns
  <2> QED BY <2>1 DEF ExecutorKnows
<1>5. GoodPlan(plan, Occupied)'
  BY DEF GoodPlan, StepsAreReady, TasksInOrder, TasksAreTied
<1> QED BY <1>1, <1>3, <1>4, <1>5 DEF PlanInv

\* start(), with what the process knows as rg and ex: at most one executor begins.
LEMMA StartsOne ==
  ASSUME PlanAssumption, PromptCallbacks, NEW ex \in [Executors -> PlanRecords], NEW rg \in Executors \cup {"none"},
         \A e \in Executors : ex[e].at # "off" => rg = e, StartExecutor(rg, ex)
  PROVE  /\ planExec' \in [Executors -> PlanRecords] /\ planRunner' \in Executors \cup {"none"} /\ OneExecutor'
         /\ \A e \in Executors : planExec'[e] = ex[e] \/ planExec'[e].at = "begin"
<1>1. CASE rg # "none" /\ ex[rg].at # "done"
  BY <1>1 DEF StartExecutor, OneExecutor
<1>2. CASE ~(rg # "none" /\ ex[rg].at # "done")
  <2>1. rg = "none"
    BY <1>2 DEF StartExecutor
  <2>2. \A e \in Executors : ex[e].at = "off"
    BY <2>1 DEF PlanAssumption
  <2> DEFINE b == [NoPlanRun EXCEPT !.at = "begin"]
  <2>3. PICK e \in Executors : planRunner' = e /\ planExec' = [ex EXCEPT ![e] = b]
    BY <1>2 DEF StartExecutor
  <2>4. b \in PlanRecords /\ b.at = "begin"
    BY DEF PlanRecords, NoPlanRun, PlanPlaces, PlanAssumption
  <2> HIDE DEF b
  <2> QED BY <2>2, <2>3, <2>4 DEF OneExecutor
<1> QED BY <1>1, <1>2

\* What the actions need of the types.
LEMMA PlanFacts ==
  ASSUME PlanAssumption, PlanInv
  PROVE  /\ plan \in PlanStates /\ GoodPlan(plan, Occupied) /\ Occupied \subseteq PlanTasks
         /\ stepTask \in [PlanTasks -> TaskStates] /\ taskStep \in [PlanTasks -> Steps \cup {NoStep}]
         /\ planExec \in [Executors -> PlanRecords] /\ planRunner \in Executors \cup {"none"}
         /\ startSoon \in BOOLEAN /\ planOps \in 0 .. MaxPlanOps /\ OneExecutor
         /\ NoPlanRun \in PlanRecords /\ NoPlanRun.at = "off"
         /\ [NoPlanRun EXCEPT !.at = "done"] \in PlanRecords /\ [NoPlanRun EXCEPT !.at = "done"].at = "done"
BY DEF PlanInv, PlanTypes, GoodPlan, Occupied, PlanRecords, NoPlanRun, PlanPlaces, PlanAssumption

\* The step that an executor finishes has no other task.
LEMMA StepIsFree ==
  ASSUME PlanAssumption, PlanInv, NEW e \in Executors, planExec[e].at \in InFlight,
         stepTask[planExec[e].task] \notin TaskRuns, plan.step[planExec[e].step] \in StepRuns,
         NEW u \in Occupied, taskStep[u] = planExec[e].step
  PROVE  planExec[e].at = "submit" /\ planExec[e].task = u
<1>1. plan.link[planExec[e].step] = planExec[e].task
  BY DEF PlanInv, ExecutorKnows
<1>2. plan.link[planExec[e].step] = u
  BY DEF PlanInv, GoodPlan, TasksAreTied, StepRuns, StepTerminal
<1>3. Submits(u)
  BY <1>1, <1>2 DEF Occupied
<1>4. \A f \in Executors : planExec[f].at = "submit" => f = e
  BY DEF PlanInv, OneExecutor, InFlight
<1> QED BY <1>1, <1>2, <1>3, <1>4 DEF Submits

\* run() returns, the plan as it was or with its step finished.
LEMMA ReturnKeeps ==
  ASSUME PlanAssumption, PlanInv, NEW e \in Executors, planExec[e].at # "off", PlanReturns(e),
         KeepsRuns(plan, plan'), GoodPlan(plan', Occupied \ {t \in PlanTasks : planExec[e].at = "submit" /\ planExec[e].task = t /\ stepTask[t] \notin TaskRuns}),
         UNCHANGED <<stepTask, taskStep, startSoon, planOps>>
  PROVE  PlanInv'
<1> USE PlanFacts
<1> DEFINE d == [NoPlanRun EXCEPT !.at = "done"]
<1>1. d \in PlanRecords /\ d.at = "done"
  OBVIOUS
<1>2. planExec' = [planExec EXCEPT ![e] = d] /\ UNCHANGED planRunner
  BY DEF PlanReturns
<1> HIDE DEF d
<1>3. planExec' \in [Executors -> PlanRecords] /\ \A f \in Executors : planExec'[f].at \in InFlight => f # e /\ planExec'[f] = planExec[f]
  BY <1>1, <1>2 DEF InFlight
<1>4. OneExecutor'
  BY <1>1, <1>2 DEF OneExecutor
<1>5. Occupied' \subseteq Occupied \ {t \in PlanTasks : planExec[e].at = "submit" /\ planExec[e].task = t /\ stepTask[t] \notin TaskRuns}
  <2>1. \A t \in PlanTasks : ~Submits(t)'
    <3>1. \A f \in Executors : planExec'[f].at = "submit" => FALSE
      BY <1>3 DEF OneExecutor, InFlight
    <3> QED BY <3>1 DEF Submits
  <2> QED BY <2>1 DEF Occupied
<1>6. GoodPlan(plan', Occupied')
  BY <1>5 DEF GoodPlan, StepsAreReady, TasksInOrder, TasksAreTied
<1> QED BY <1>2, <1>3, <1>4, <1>6, QuietMove

LEMMA GoodFewer ==
  ASSUME NEW p, NEW T, NEW U \in SUBSET T, GoodPlan(p, T) PROVE GoodPlan(p, U)
BY DEF GoodPlan, TasksAreTied

LEMMA FirstIsIn ==
  ASSUME NEW S \in SUBSET Nat, S # {} PROVE FirstOf(S) \in S
BY LeastOf DEF FirstOf

\* assign_task of a ready step to a fresh task
LEMMA AssignGood ==
  ASSUME PlanAssumption, PlanInv, NEW p, GoodPlan(p, Occupied), NEW s \in Steps, p.step[s] = "ready",
         NEW t \in PlanTasks, taskStep[t] = NoStep, taskStep' = [taskStep EXCEPT ![t] = s],
         plan' = AssignTask(p, s, t), Occupied' \subseteq Occupied \cup {t}
  PROVE  GoodPlan(plan, Occupied)'
<1> USE PlanFacts
<1> DEFINE a == AssignTask(p, s, t)
<1>1. p \in PlanStates /\ p.tries[s] \in 0 .. RetryLimit
  BY DEF GoodPlan, StepsAreReady, PlanStates, PlanAssumption
<1>2. /\ p.step \in [Steps -> StepStates] /\ p.tries \in [Steps -> 0 .. RetryLimit + 1]
      /\ p.link \in [Steps -> 0 .. MaxPlanTasks]
  BY <1>1 DEF PlanStates
<1>3. "in_progress" \in StepStates /\ "in_progress" \in StepRuns
  BY DEF StepStates, StepRuns
<1>4. a = [p EXCEPT !.step = [p.step EXCEPT ![s] = "in_progress"], !.tries = [p.tries EXCEPT ![s] = p.tries[s] + 1],
                    !.link = [p.link EXCEPT ![s] = t]]
  BY <1>1 DEF AssignTask, PlanStates
<1>5. /\ a.step = [p.step EXCEPT ![s] = "in_progress"] /\ a.tries = [p.tries EXCEPT ![s] = p.tries[s] + 1]
      /\ a.link = [p.link EXCEPT ![s] = t] /\ a.status = p.status
  BY <1>1, <1>4 DEF PlanStates
<1>6. a \in PlanStates
  <2>1. p.tries[s] + 1 \in 0 .. RetryLimit + 1
    BY <1>1 DEF PlanAssumption
  <2>2. [p.step EXCEPT ![s] = "in_progress"] \in [Steps -> StepStates]
    BY <1>2, <1>3
  <2>3. [p.tries EXCEPT ![s] = p.tries[s] + 1] \in [Steps -> 0 .. RetryLimit + 1]
    BY <1>2, <2>1
  <2>4. [p.link EXCEPT ![s] = t] \in [Steps -> 0 .. MaxPlanTasks]
    BY <1>2 DEF PlanTasks
  <2> QED BY <1>1, <1>4, <2>2, <2>3, <2>4 DEF PlanStates
<1>7. \A u \in Steps : /\ a.step[u] = IF u = s THEN "in_progress" ELSE p.step[u]
                       /\ u # s => a.tries[u] = p.tries[u] /\ a.link[u] = p.link[u]
  BY <1>2, <1>5
<1>8. a.link[s] = t
  BY <1>2, <1>5
<1>9. plan' = a
  OBVIOUS
<1> HIDE DEF a
<1>10. \A u \in PlanTasks : taskStep'[u] = IF u = t THEN s ELSE taskStep[u]
  OBVIOUS
<1>11. \A u \in Steps : DependsOn[u] \subseteq Steps
  BY DEF PlanAssumption
<1>12. \A d \in Steps : p.step[d] = "completed" => a.step[d] = "completed"
  BY <1>7
<1>13. s # NoStep
  BY DEF NoStep, PlanAssumption
<1>14. StepsAreReady(plan)'
  <2>1. ASSUME NEW u \in Steps, a.step[u] \in {"ready", "completed"} \cup StepRuns, NEW d \in DependsOn[u]
        PROVE  a.step[d] = "completed"
    <3>1. p.step[d] = "completed"
      BY <1>7, <2>1 DEF GoodPlan, StepsAreReady
    <3> QED BY <1>11, <1>12, <3>1
  <2>2. ASSUME NEW u \in Steps, a.step[u] \in {"pending", "ready"} PROVE a.tries[u] <= RetryLimit
    BY <1>7, <2>2 DEF GoodPlan, StepsAreReady
  <2>3. ASSUME NEW u \in Steps, a.step[u] \in StepRuns PROVE a.link[u] \in PlanTasks /\ taskStep'[a.link[u]] = u
    <3>1. CASE u = s
      BY <1>8, <1>10, <3>1
    <3>2. CASE u # s
      <4>1. a.link[u] \in PlanTasks /\ taskStep[a.link[u]] = u
        BY <1>7, <2>3, <3>2 DEF GoodPlan, StepsAreReady
      <4>2. u # NoStep
        BY DEF NoStep, PlanAssumption
      <4> QED BY <1>10, <4>1, <4>2
    <3> QED BY <3>1, <3>2
  <2> QED BY <1>9, <2>1, <2>2, <2>3 DEF StepsAreReady
<1>15. TasksInOrder(plan)'
  <2>1. ASSUME NEW u \in PlanTasks, taskStep'[u] # NoStep, NEW d \in DependsOn[taskStep'[u]]
        PROVE  a.step[d] = "completed"
    <3>1. CASE u = t
      BY <1>7, <1>10, <1>14, <1>9, <2>1, <1>11, <1>12, <3>1 DEF GoodPlan, StepsAreReady
    <3>2. CASE u # t
      <4>1. taskStep[u] \in Steps /\ d \in DependsOn[taskStep[u]]
        BY <1>10, <2>1, <3>2
      <4>2. p.step[d] = "completed"
        BY <4>1, <1>10, <2>1, <3>2 DEF GoodPlan, TasksInOrder
      <4> QED BY <1>11, <1>12, <4>1, <4>2
    <3> QED BY <3>1, <3>2
  <2> QED BY <1>9, <2>1 DEF TasksInOrder
<1>16. TasksAreTied(plan, Occupied)'
  <2>1. ASSUME NEW u \in Occupied'
        PROVE  /\ taskStep'[u] # NoStep
               /\ \/ a.step[taskStep'[u]] \in StepTerminal
                  \/ a.step[taskStep'[u]] \in StepRuns /\ a.link[taskStep'[u]] = u
    <3>1. CASE u = t
      BY <1>3, <1>7, <1>8, <1>10, <1>13, <3>1
    <3>2. CASE u # t
      <4>1. u \in Occupied /\ u \in PlanTasks
        BY <2>1, <3>2
      <4>2. /\ taskStep[u] \in Steps
            /\ \/ p.step[taskStep[u]] \in StepTerminal
               \/ p.step[taskStep[u]] \in StepRuns /\ p.link[taskStep[u]] = u
        BY <4>1 DEF GoodPlan, TasksAreTied
      <4>3. taskStep[u] # s
        BY <4>2 DEF StepTerminal, StepRuns
      <4>4. taskStep'[u] = taskStep[u] /\ taskStep[u] # NoStep
        BY <1>10, <3>2, <4>1, <4>2 DEF NoStep, PlanAssumption
      <4> QED BY <1>7, <4>2, <4>3, <4>4
    <3> QED BY <3>1, <3>2
  <2> QED BY <1>9, <2>1 DEF TasksAreTied
<1> QED BY <1>6, <1>9, <1>14, <1>15, <1>16 DEF GoodPlan

\* The head of the loop, with a plan that is as good as the stored one.
LEMMA LoopKeeps ==
  ASSUME PlanAssumption, PlanInv, NEW e \in Executors, planExec[e].at \in {"begin", "wait", "gate"},
         NEW p, GoodPlan(p, Occupied), KeepsRuns(plan, p), LoopTop(e, p), UNCHANGED <<stepTask, startSoon, planOps>>
  PROVE  PlanInv'
<1> USE PlanFacts
<1> DEFINE flying == {s \in Steps : p.step[s] \in StepRuns}
           ready == {s \in Steps : p.step[s] = "ready"}
<1>1. CASE plan' = p /\ PlanReturns(e) /\ UNCHANGED taskStep
  <2>1. GoodPlan(plan', Occupied \ {t \in PlanTasks : planExec[e].at = "submit" /\ planExec[e].task = t /\ stepTask[t] \notin TaskRuns})
    BY <1>1, GoodFewer
  <2> QED BY <1>1, <2>1, ReturnKeeps
<1>2. \A f \in Executors \ {e} : planExec[f].at = "off"
  BY DEF OneExecutor
<1>3. ASSUME NEW x \in PlanRecords, x.at \in {"wait", "submit"}, planExec' = [planExec EXCEPT ![e] = x]
      PROVE  /\ planExec' \in [Executors -> PlanRecords] /\ planExec'[e] = x
             /\ \A f \in Executors \ {e} : planExec'[f].at = "off"
  BY <1>2, <1>3
<1>4. CASE /\ flying # {} /\ plan' = p /\ UNCHANGED <<taskStep, planRunner>>
           /\ planExec' = [planExec EXCEPT ![e] =
                [at |-> "wait", step |-> FirstOf(flying), task |-> p.link[FirstOf(flying)]]]
  <2> DEFINE s == FirstOf(flying)
             x == [at |-> "wait", step |-> s, task |-> p.link[s]]
  <2>1. s \in Steps /\ p.step[s] \in StepRuns
    <3>1. flying \in SUBSET Nat /\ flying # {}
      BY <1>4 DEF PlanAssumption
    <3>2. s \in flying
      BY <3>1, FirstIsIn
    <3> QED BY <3>2
  <2> HIDE DEF s
  <2>2. p.link[s] \in PlanTasks /\ taskStep[p.link[s]] = s
    BY <2>1 DEF GoodPlan, StepsAreReady
  <2>3. x \in PlanRecords /\ x.at = "wait" /\ x.step = s /\ x.task = p.link[s]
    BY <2>1, <2>2 DEF PlanRecords, PlanPlaces, PlanTasks
  <2>4. planExec' = [planExec EXCEPT ![e] = x]
    BY <1>4 DEF s
  <2> HIDE DEF x
  <2>5. planExec' \in [Executors -> PlanRecords] /\ planExec'[e] = x /\ \A f \in Executors \ {e} : planExec'[f].at = "off"
    BY <1>3, <2>3, <2>4
  <2>6. Occupied' \subseteq Occupied
    BY <2>3, <2>5 DEF Occupied, Submits
  <2>7. GoodPlan(plan, Occupied)'
    BY <1>4, <2>6 DEF GoodPlan, StepsAreReady, TasksInOrder, TasksAreTied
  <2>8. OneOccupies'
    BY <1>4, <2>6 DEF PlanInv, OneOccupies
  <2>9. ExecutorKnows'
    BY <1>4, <2>1, <2>2, <2>3, <2>5 DEF ExecutorKnows, InFlight
  <2>10. OneExecutor'
    BY <1>4, <2>5 DEF OneExecutor
  <2>11. PlanTypes'
    BY <1>4, <2>5 DEF PlanTypes, GoodPlan
  <2> QED BY <2>7, <2>8, <2>9, <2>10, <2>11 DEF PlanInv
<1>5. CASE /\ ready # {} /\ NewTasks # {}
           /\ plan' = AssignTask(p, FirstOf(ready), FirstOf(NewTasks))
           /\ taskStep' = [taskStep EXCEPT ![FirstOf(NewTasks)] = FirstOf(ready)]
           /\ planExec' = [planExec EXCEPT ![e] = [at |-> "submit", step |-> FirstOf(ready), task |-> FirstOf(NewTasks)]]
           /\ UNCHANGED planRunner
  <2> DEFINE s == FirstOf(ready)
             t == FirstOf(NewTasks)
             x == [at |-> "submit", step |-> s, task |-> t]
  <2>1. s \in Steps /\ p.step[s] = "ready"
    <3>1. ready \in SUBSET Nat /\ ready # {}
      BY <1>5 DEF PlanAssumption
    <3>2. s \in ready
      BY <3>1, FirstIsIn
    <3> QED BY <3>2
  <2>2. t \in PlanTasks /\ stepTask[t] = "none" /\ taskStep[t] = NoStep
    <3>1. NewTasks \in SUBSET Nat
      BY DEF NewTasks, PlanTasks
    <3>2. t \in NewTasks
      BY <1>5, <3>1, FirstIsIn
    <3> QED BY <3>2 DEF NewTasks
  <2>3. /\ plan' = AssignTask(p, s, t) /\ taskStep' = [taskStep EXCEPT ![t] = s]
        /\ planExec' = [planExec EXCEPT ![e] = x] /\ UNCHANGED planRunner
    BY <1>5
  <2> HIDE DEF s, t
  <2>4. x \in PlanRecords /\ x.at = "submit" /\ x.step = s /\ x.task = t
    BY <2>1, <2>2 DEF PlanRecords, PlanPlaces, PlanTasks
  <2> HIDE DEF x
  <2>5. planExec' \in [Executors -> PlanRecords] /\ planExec'[e] = x /\ \A f \in Executors \ {e} : planExec'[f].at = "off"
    BY <1>3, <2>3, <2>4
  <2>6. Occupied' \subseteq Occupied \cup {t}
    BY <2>4, <2>5 DEF Occupied, Submits
  <2>7. GoodPlan(plan, Occupied)'
    BY <2>1, <2>2, <2>3, <2>6, AssignGood
  <2>8. \A u \in PlanTasks : taskStep'[u] = IF u = t THEN s ELSE taskStep[u]
    BY <2>2, <2>3
  <2>9. OneOccupies'
    <3>1. \A u \in Occupied : taskStep[u] # s
      BY <2>1 DEF GoodPlan, TasksAreTied, StepTerminal, StepRuns
    <3>2. ASSUME NEW u \in Occupied', NEW v \in Occupied', taskStep'[u] = taskStep'[v] PROVE u = v
      <4>1. u \in Occupied \cup {t} /\ v \in Occupied \cup {t} /\ u \in PlanTasks /\ v \in PlanTasks
        BY <2>2, <2>6
      <4>2. CASE u = t \/ v = t
        BY <2>8, <3>1, <3>2, <4>1, <4>2
      <4>3. CASE u # t /\ v # t
        BY <2>8, <3>2, <4>1, <4>3 DEF PlanInv, OneOccupies
      <4> QED BY <4>2, <4>3
    <3> QED BY <3>2 DEF OneOccupies
  <2>10. plan'.link[s] = t
    BY <2>1, <2>3 DEF AssignTask, GoodPlan, PlanStates
  <2>11. ExecutorKnows'
    BY <2>1, <2>2, <2>4, <2>5, <2>8, <2>10 DEF ExecutorKnows, InFlight
  <2>12. OneExecutor'
    BY <2>3, <2>5 DEF OneExecutor
  <2>13. PlanTypes'
    BY <2>1, <2>2, <2>3, <2>5, <2>7 DEF PlanTypes, GoodPlan
  <2> QED BY <2>7, <2>9, <2>11, <2>12, <2>13 DEF PlanInv
<1> QED BY <1>1, <1>4, <1>5 DEF LoopTop

\* run() begins, submits a step, or ends with a failure.
LEMMA BeginPlanKeeps ==
  ASSUME PlanAssumption, PlanInv, NEW e \in Executors, BeginPlan(e) PROVE PlanInv'
<1> USE PlanFacts
<1> DEFINE p == IF plan.status = "approved" THEN Activate(plan) ELSE plan
<1>1. GoodPlan(p, Occupied) /\ KeepsRuns(plan, p)
  <2>1. CASE plan.status = "approved"
    BY <2>1, ActivateGood
  <2>2. CASE plan.status # "approved"
    BY <2>2 DEF KeepsRuns
  <2> QED BY <2>1, <2>2
<1>2. LoopTop(e, p) /\ planExec[e].at = "begin" /\ UNCHANGED <<stepTask, startSoon, planOps>>
  BY DEF BeginPlan, PlanAt
<1> HIDE DEF p
<1> QED BY <1>1, <1>2, LoopKeeps

LEMMA SubmitStepKeeps ==
  ASSUME PlanAssumption, PlanInv, NEW e \in Executors, SubmitStep(e) PROVE PlanInv'
<1> USE PlanFacts
<1> DEFINE t == planExec[e].task
           x == [planExec[e] EXCEPT !.at = "wait"]
<1>1. planExec[e].at = "submit" /\ UNCHANGED <<plan, taskStep, planRunner, startSoon, planOps>>
  BY DEF SubmitStep, PlanAt
<1>2. /\ t \in PlanTasks /\ planExec[e].step \in Steps /\ taskStep[t] = planExec[e].step /\ stepTask[t] = "none"
      /\ plan.step[planExec[e].step] \in StepRuns => plan.link[planExec[e].step] = t
  BY <1>1 DEF PlanInv, ExecutorKnows, InFlight
<1>3. x \in PlanRecords /\ x.at = "wait" /\ x.task = t /\ x.step = planExec[e].step
  <2>1. planExec[e] \in PlanRecords /\ "wait" \in PlanPlaces
    BY DEF PlanPlaces
  <2> QED BY <2>1 DEF PlanRecords
<1>4. planExec' = [planExec EXCEPT ![e] = x] /\ stepTask' = [stepTask EXCEPT ![t] = "live"]
  BY DEF SubmitStep
<1> HIDE DEF x
<1>5. planExec' \in [Executors -> PlanRecords] /\ planExec'[e] = x /\ \A f \in Executors \ {e} : planExec'[f].at = "off"
  BY <1>1, <1>3, <1>4 DEF OneExecutor
<1> HIDE DEF t
<1>6. stepTask' \in [PlanTasks -> TaskStates] /\ \A u \in PlanTasks : stepTask'[u] = IF u = t THEN "live" ELSE stepTask[u]
  <2>1. "live" \in TaskStates
    BY DEF TaskStates, TaskRuns
  <2> QED BY <1>4, <2>1
<1>7. Occupied' \subseteq Occupied
  <2>1. t \in Occupied
    BY <1>1, <1>2 DEF Occupied, Submits, t
  <2>2. \A u \in PlanTasks : ~Submits(u)'
    BY <1>3, <1>5 DEF Submits
  <2> QED BY <1>6, <2>1, <2>2 DEF Occupied
<1>8. GoodPlan(plan, Occupied)'
  BY <1>1, <1>7 DEF GoodPlan, StepsAreReady, TasksInOrder, TasksAreTied
<1>9. OneOccupies' /\ OneExecutor'
  BY <1>1, <1>5, <1>7 DEF PlanInv, OneOccupies, OneExecutor
<1>10. ExecutorKnows'
  BY <1>1, <1>2, <1>3, <1>5 DEF ExecutorKnows, InFlight
<1>11. PlanTypes'
  BY <1>1, <1>5, <1>6 DEF PlanTypes
<1> QED BY <1>8, <1>9, <1>10, <1>11 DEF PlanInv

LEMMA FailKeeps ==
  ASSUME PlanAssumption, PlanInv, NEW e \in Executors, planExec[e].at \in {"submit", "wait"},
         stepTask[planExec[e].task] = "none", FailAndReturn(e)
  PROVE  PlanInv'
<1> USE PlanFacts
<1> DEFINE s == planExec[e].step
           T == Occupied \ {t \in PlanTasks : planExec[e].at = "submit" /\ planExec[e].task = t /\ stepTask[t] \notin TaskRuns}
<1>1. T \subseteq Occupied /\ T \in SUBSET PlanTasks
  OBVIOUS
<1>2. GoodPlan(plan, T)
  BY <1>1, GoodFewer
<1>3. s \in Steps /\ planExec[e].task \in PlanTasks
  BY DEF PlanInv, ExecutorKnows, InFlight
<1>4. "none" \notin TaskRuns
  BY DEF TaskRuns
<1>5. plan.step[s] \in StepRuns => \A u \in T : taskStep[u] # s
  BY <1>1, <1>4, StepIsFree DEF InFlight
<1>6. PlanReturns(e) /\ UNCHANGED <<stepTask, taskStep, startSoon, planOps>>
  BY DEF FailAndReturn
<1>7. GoodPlan(plan', T) /\ KeepsRuns(plan, plan')
  <2> HIDE DEF T
  <2>1. CASE FinishRaises(plan, s)
    BY <1>2, <2>1 DEF FailAndReturn, KeepsRuns
  <2>2. CASE ~FinishRaises(plan, s)
    <3>1. plan' = FinishTask(plan, s, FALSE)
      BY <2>2 DEF FailAndReturn
    <3> HIDE DEF s
    <3> QED BY <1>1, <1>2, <1>3, <1>5, <2>2, <3>1, FinishGood
  <2> QED BY <2>1, <2>2
<1> QED BY <1>6, <1>7, ReturnKeeps

\* A result: the loop goes on with the step finished, or run() returns.
LEMMA FinishKeeps ==
  ASSUME PlanAssumption, PlanInv, NEW e \in Executors, planExec[e].at \in {"wait", "gate"},
         stepTask[planExec[e].task] \in TaskEnded, NEW success \in BOOLEAN,
         FinishAndLoop(e, success), UNCHANGED <<stepTask, startSoon, planOps>>
  PROVE  PlanInv'
<1> USE PlanFacts
<1> DEFINE s == planExec[e].step
<1>1. s \in Steps
  BY DEF PlanInv, ExecutorKnows, InFlight
<1>2. CASE FinishRaises(plan, s)
  <2>1. PlanReturns(e) /\ UNCHANGED <<plan, taskStep>>
    BY <1>2 DEF FinishAndLoop
  <2>2. GoodPlan(plan', Occupied \ {t \in PlanTasks : planExec[e].at = "submit" /\ planExec[e].task = t /\ stepTask[t] \notin TaskRuns})
    BY <2>1, GoodFewer
  <2> QED BY <2>1, <2>2, ReturnKeeps DEF KeepsRuns
<1>3. CASE ~FinishRaises(plan, s)
  <2>1. LoopTop(e, FinishTask(plan, s, success))
    BY <1>3 DEF FinishAndLoop
  <2>2. stepTask[planExec[e].task] \notin TaskRuns
    BY DEF TaskEnded, TaskRuns
  <2>3. plan.step[s] \in StepRuns => \A u \in Occupied : taskStep[u] # s
    BY <2>2, StepIsFree DEF InFlight
  <2> HIDE DEF s
  <2>4. GoodPlan(FinishTask(plan, s, success), Occupied) /\ KeepsRuns(plan, FinishTask(plan, s, success))
    BY <1>1, <1>3, <2>3, FinishGood
  <2> QED BY <2>1, <2>4, LoopKeeps
<1> QED BY <1>2, <1>3

LEMMA WaitReturnsKeeps ==
  ASSUME PlanAssumption, PlanInv, NEW e \in Executors, WaitReturns(e) PROVE PlanInv'
<1> USE PlanFacts
<1> DEFINE ok == stepTask[planExec[e].task] = "completed"
<1>1. /\ planExec[e].at = "wait" /\ stepTask[planExec[e].task] \in TaskEnded
      /\ UNCHANGED <<stepTask, startSoon, planOps>>
  BY DEF WaitReturns, PlanAt
<1>2. CASE PlanReturns(e) /\ UNCHANGED <<plan, taskStep>>
  <2>1. GoodPlan(plan', Occupied \ {t \in PlanTasks : planExec[e].at = "submit" /\ planExec[e].task = t /\ stepTask[t] \notin TaskRuns})
    BY <1>2, GoodFewer
  <2> QED BY <1>1, <1>2, <2>1, ReturnKeeps DEF KeepsRuns
<1>3. CASE planExec' = [planExec EXCEPT ![e].at = "gate"] /\ UNCHANGED <<plan, taskStep, planRunner>>
  <2> DEFINE x == [planExec[e] EXCEPT !.at = "gate"]
  <2>1. x \in PlanRecords /\ x.at = "gate" /\ x.task = planExec[e].task /\ x.step = planExec[e].step
    <3>1. planExec[e] \in PlanRecords /\ "gate" \in PlanPlaces
      BY DEF PlanPlaces
    <3> QED BY <3>1 DEF PlanRecords
  <2>2. planExec' = [planExec EXCEPT ![e] = x]
    BY <1>3
  <2> HIDE DEF x
  <2>3. planExec' \in [Executors -> PlanRecords] /\ planExec'[e] = x /\ \A f \in Executors \ {e} : planExec'[f].at = "off"
    BY <1>1, <2>1, <2>2 DEF OneExecutor
  <2>4. Occupied' \subseteq Occupied
    BY <1>1, <2>1, <2>3 DEF Occupied, Submits
  <2>5. GoodPlan(plan, Occupied)'
    BY <1>3, <2>4 DEF GoodPlan, StepsAreReady, TasksInOrder, TasksAreTied
  <2>6. OneOccupies'
    BY <1>3, <2>4 DEF PlanInv, OneOccupies
  <2>7. ExecutorKnows'
    BY <1>1, <1>3, <2>1, <2>3 DEF PlanInv, ExecutorKnows, InFlight
  <2>8. PlanTypes'
    BY <1>1, <1>3, <2>3 DEF PlanTypes
  <2>9. OneExecutor'
    BY <1>1, <1>3, <2>3 DEF OneExecutor
  <2> QED BY <2>5, <2>6, <2>7, <2>8, <2>9 DEF PlanInv
<1>4. CASE FinishAndLoop(e, ok)
  <2> HIDE DEF ok
  <2>1. ok \in BOOLEAN
    BY DEF ok
  <2> QED BY <1>1, <1>4, <2>1, FinishKeeps
<1> QED BY <1>2, <1>3, <1>4 DEF WaitReturns

LEMMA RunPlanKeeps ==
  ASSUME PlanAssumption, ~SlowWaits, PlanInv, NEW e \in Executors, RunPlan(e) \/ SubmitStepRaises(e) PROVE PlanInv'
<1> USE PlanFacts
<1>1. CASE WaitFails(e)
  BY <1>1, FailKeeps DEF WaitFails, PlanAt
<1>2. CASE SubmitStepRaises(e)
  <2>1. planExec[e].at = "submit" /\ FailAndReturn(e)
    BY <1>2 DEF SubmitStepRaises, PlanAt
  <2>2. stepTask[planExec[e].task] = "none"
    BY <2>1 DEF PlanInv, ExecutorKnows, InFlight
  <2> QED BY <2>1, <2>2, FailKeeps
<1>3. CASE GateAnswers(e)
  <2>1. planExec[e].at = "gate" /\ UNCHANGED <<stepTask, startSoon, planOps>>
    BY <1>3 DEF GateAnswers, PlanAt
  <2>2. stepTask[planExec[e].task] \in TaskEnded
    BY <2>1 DEF PlanInv, ExecutorKnows, InFlight
  <2>3. PICK passed \in BOOLEAN : FinishAndLoop(e, passed)
    BY <1>3 DEF GateAnswers
  <2> QED BY <2>1, <2>2, <2>3, FinishKeeps
<1>4. CASE DoneCallback(e)
  <2>1. /\ planExec[e].at = "done" /\ planExec' = [planExec EXCEPT ![e] = NoPlanRun] /\ planRunner' = "none"
        /\ UNCHANGED <<plan, stepTask, taskStep, startSoon, planOps>>
    BY <1>4 DEF DoneCallback, PlanAt
  <2>2. \A f \in Executors : planExec'[f].at = "off"
    BY <2>1 DEF OneExecutor
  <2>3. OneExecutor' /\ planExec' \in [Executors -> PlanRecords]
    BY <2>1, <2>2 DEF OneExecutor
  <2>4. Occupied' \subseteq Occupied
    BY <2>1, <2>2 DEF Occupied, Submits
  <2>5. GoodPlan(plan', Occupied')
    BY <2>1, <2>4, GoodFewer
  <2> QED BY <2>1, <2>2, <2>3, <2>5, QuietMove DEF KeepsRuns, InFlight
<1> QED BY <1>1, <1>2, <1>3, <1>4, BeginPlanKeeps, SubmitStepKeeps, WaitReturnsKeeps DEF RunPlan

\* start() beside a change of the stored plan
LEMMA StartKeeps ==
  ASSUME PlanAssumption, PromptCallbacks, PlanInv, StartExecutor(planRunner, planExec),
         GoodPlan(plan', Occupied), KeepsRuns(plan, plan'), UNCHANGED <<stepTask, taskStep>>,
         startSoon' \in BOOLEAN, planOps' \in 0 .. MaxPlanOps
  PROVE  PlanInv'
<1> USE PlanFacts
<1>1. /\ planExec' \in [Executors -> PlanRecords] /\ planRunner' \in Executors \cup {"none"} /\ OneExecutor'
      /\ \A e \in Executors : planExec'[e] = planExec[e] \/ planExec'[e].at = "begin"
  BY StartsOne DEF OneExecutor
<1>2. \A e \in Executors : planExec'[e].at \in InFlight => planExec'[e] = planExec[e]
  BY <1>1 DEF InFlight
<1>3. Occupied' \subseteq Occupied
  BY <1>2 DEF Occupied, Submits, InFlight
<1>4. GoodPlan(plan', Occupied')
  BY <1>3, GoodFewer
<1> QED BY <1>1, <1>2, <1>4, QuietMove

\* ... and such a change alone
LEMMA ChangeKeeps ==
  ASSUME PlanAssumption, PlanInv, GoodPlan(plan', Occupied), KeepsRuns(plan, plan'),
         UNCHANGED <<taskStep, planExec, planRunner>>,
         stepTask' \in [PlanTasks -> TaskStates],
         \A t \in PlanTasks : /\ stepTask'[t] \in TaskRuns => stepTask[t] \in TaskRuns
                              /\ stepTask[t] = "none" => stepTask'[t] = "none"
                              /\ stepTask[t] \in TaskEnded => stepTask'[t] \in TaskEnded,
         startSoon' \in BOOLEAN, planOps' \in 0 .. MaxPlanOps
  PROVE  PlanInv'
<1> USE PlanFacts
<1>1. Occupied' \subseteq Occupied
  BY DEF Occupied, Submits
<1>2. GoodPlan(plan', Occupied')
  BY <1>1, GoodFewer
<1>3. OneExecutor'
  BY DEF OneExecutor
<1> QED BY <1>2, <1>3, QuietMove

LEMMA StatusGood ==
  ASSUME PlanAssumption, PlanInv, NEW p, GoodPlan(p, Occupied), KeepsRuns(plan, p), NEW st \in PlanStatus
  PROVE  GoodPlan([p EXCEPT !.status = st], Occupied) /\ KeepsRuns(plan, [p EXCEPT !.status = st])
<1> DEFINE q == [p EXCEPT !.status = st]
<1>1. q \in PlanStates /\ Follows(p, q, Occupied)
  BY StatusFollows DEF GoodPlan
<1> HIDE DEF q
<1>2. GoodPlan(q, Occupied) /\ KeepsRuns(p, q)
  BY <1>1, FollowsGood, PlanFacts
<1> QED BY <1>2 DEF KeepsRuns, q

LEMMA CancelGood ==
  ASSUME PlanAssumption, PlanInv
  PROVE  GoodPlan(CancelPlan(plan), Occupied) /\ KeepsRuns(plan, CancelPlan(plan))
BY CancelFollows, FollowsGood, PlanFacts

LEMMA StartsKeep ==
  ASSUME PlanAssumption, PromptCallbacks, PlanInv,
         WatchdogScan \/ CreatePlan \/ CreatePlanTool \/ StartsSoon \/ ApprovePlan \/ ResumePlan
  PROVE  PlanInv'
<1> USE PlanFacts
<1>1. {"awaiting_approval", "approved"} \subseteq PlanStatus
  BY DEF PlanStatus
<1>2. KeepsRuns(plan, plan)
  BY DEF KeepsRuns
<1>3. CASE WatchdogScan
  BY <1>2, <1>3, StartKeeps DEF WatchdogScan
<1>4. CASE StartsSoon
  BY <1>2, <1>4, StartKeeps DEF StartsSoon
<1> DEFINE q == Preview(plan)
           r == Approved(q)
<1>5. GoodPlan(q, Occupied) /\ KeepsRuns(plan, q)
  BY <1>1, <1>2, StatusGood DEF Preview
<1>6. GoodPlan(r, Occupied) /\ KeepsRuns(plan, r)
  <2> HIDE DEF q
  <2> QED BY <1>1, <1>5, StatusGood DEF Approved
<1>7. GoodPlan(Approved(plan), Occupied) /\ KeepsRuns(plan, Approved(plan))
  BY <1>1, <1>2, StatusGood DEF Approved
<1>8. CASE CreatePlan \/ CreatePlanTool
  <2>1. \/ plan' = q /\ UNCHANGED <<planExec, planRunner>>
        \/ plan' = r /\ StartExecutor(planRunner, planExec)
        \/ plan' = r /\ UNCHANGED <<planExec, planRunner>>
    BY <1>8 DEF CreatePlan, CreatePlanTool, SavePlan
  <2>2. UNCHANGED <<stepTask, taskStep, planOps>> /\ startSoon' \in BOOLEAN
    BY <1>8 DEF CreatePlan, CreatePlanTool
  <2> HIDE DEF q, r
  <2>3. \A t \in PlanTasks : stepTask'[t] = stepTask[t]
    BY <2>2
  <2>4. CASE UNCHANGED <<planExec, planRunner>> /\ (plan' = q \/ plan' = r)
    BY <1>5, <1>6, <2>2, <2>3, <2>4, ChangeKeeps
  <2>5. CASE StartExecutor(planRunner, planExec) /\ plan' = r
    BY <1>6, <2>2, <2>5, StartKeeps
  <2> QED BY <2>1, <2>4, <2>5
<1>9. CASE ApprovePlan
  BY <1>7, <1>9, StartKeeps DEF ApprovePlan, SavePlan
<1>10. CASE ResumePlan
  <2>1. planOps' \in 0 .. MaxPlanOps
    BY <1>10 DEF ResumePlan, PlanOp, PlanAssumption
  <2>2. plan' = Activate(plan) /\ UNCHANGED <<stepTask, taskStep, startSoon>>
    BY <1>10 DEF ResumePlan, SavePlan
  <2>3. GoodPlan(plan', Occupied) /\ KeepsRuns(plan, plan')
    BY <2>2, ActivateGood
  <2>4. UNCHANGED <<planExec, planRunner>> \/ StartExecutor(planRunner, planExec)
    BY <1>10 DEF ResumePlan
  <2>5. \A t \in PlanTasks : stepTask'[t] = stepTask[t]
    BY <2>2
  <2> QED BY <2>1, <2>2, <2>3, <2>4, <2>5, StartKeeps, ChangeKeeps
<1> QED BY <1>3, <1>4, <1>8, <1>9, <1>10

\* Those that start nothing, a restart included: tasks only end.
LEMMA ChangesKeep ==
  ASSUME PlanAssumption, PlanInv,
         \/ RejectPlan \/ PausePlan \/ CancelPlanRequest \/ StopSession \/ ArchivePlan
         \/ \E t \in PlanTasks : TaskEnds(t)
  PROVE  PlanInv'
<1> USE PlanFacts
<1>1. KeepsRuns(plan, plan)
  BY DEF KeepsRuns
<1>2. "paused" \in PlanStatus /\ "none" \in PlanStatus
  BY DEF PlanStatus
<1>3. GoodPlan(plan', Occupied) /\ KeepsRuns(plan, plan')
  <2>1. CASE RejectPlan \/ CancelPlanRequest \/ StopSession
    <3>1. plan' = CancelPlan(plan)
      BY <2>1 DEF RejectPlan, CancelPlanRequest, StopSession, CancelWithTasks, SavePlan
    <3> QED BY <3>1, CancelGood
  <2>2. CASE PausePlan
    <3>1. plan' = [plan EXCEPT !.status = "paused"]
      BY <2>2 DEF PausePlan, SavePlan, Paused
    <3> QED BY <1>1, <1>2, <3>1, StatusGood
  <2>3. CASE ArchivePlan
    <3>1. plan' = [plan EXCEPT !.status = "none"]
      BY <2>3 DEF ArchivePlan, DeletePlan
    <3> QED BY <1>1, <1>2, <3>1, StatusGood
  <2>4. CASE \E t \in PlanTasks : TaskEnds(t)
    BY <1>1, <2>4 DEF TaskEnds
  <2> QED BY <2>1, <2>2, <2>3, <2>4
<1>4. UNCHANGED <<taskStep, planExec, planRunner, startSoon>>
  BY DEF RejectPlan, PausePlan, CancelPlanRequest, StopSession, ArchivePlan, TaskEnds
<1>5. planOps' \in 0 .. MaxPlanOps
  BY DEF RejectPlan, PausePlan, CancelPlanRequest, StopSession, ArchivePlan, TaskEnds, PlanOp, PlanAssumption
<1>6. /\ stepTask' \in [PlanTasks -> TaskStates]
      /\ \A t \in PlanTasks : /\ stepTask'[t] \in TaskRuns => stepTask[t] \in TaskRuns
                              /\ stepTask[t] = "none" => stepTask'[t] = "none"
                              /\ stepTask[t] \in TaskEnded => stepTask'[t] \in TaskEnded
  <2>1. CASE UNCHANGED stepTask
    BY <2>1
  <2>2. CASE CancelWithTasks
    <3> DEFINE ids == {plan.link[s] : s \in {u \in Steps : plan.step[u] \notin StepTerminal}}
    <3>1. stepTask' = [t \in PlanTasks |-> IF t \in ids /\ stepTask[t] = "live" THEN "asked" ELSE stepTask[t]]
      BY <2>2 DEF CancelWithTasks
    <3> HIDE DEF ids
    <3>2. "asked" \in TaskStates /\ "live" \in TaskRuns /\ "live" \notin TaskEnded
      BY DEF TaskStates, TaskRuns, TaskEnded
    <3> QED BY <3>1, <3>2
  <2>3. ASSUME NEW t \in PlanTasks, TaskEnds(t)
        PROVE  /\ stepTask' \in [PlanTasks -> TaskStates]
               /\ \A u \in PlanTasks : /\ stepTask'[u] \in TaskRuns => stepTask[u] \in TaskRuns
                                       /\ stepTask[u] = "none" => stepTask'[u] = "none"
                                       /\ stepTask[u] \in TaskEnded => stepTask'[u] \in TaskEnded
    <3>1. PICK how \in TaskEnded : stepTask' = [stepTask EXCEPT ![t] = how]
      BY <2>3 DEF TaskEnds, TaskEnded
    <3>2. stepTask[t] # "none" /\ stepTask[t] \in TaskRuns
      BY <2>3 DEF TaskEnds, TaskRuns
    <3>3. how \in TaskStates
      BY DEF TaskStates
    <3> QED BY <3>1, <3>2, <3>3
  <2> QED BY <2>1, <2>2, <2>3 DEF RejectPlan, PausePlan, CancelPlanRequest, StopSession, ArchivePlan
<1> QED BY <1>3, <1>4, <1>5, <1>6, ChangeKeeps

LEMMA RestartPlansKeeps ==
  ASSUME PlanAssumption, PromptCallbacks, PlanInv, RestartPlans PROVE PlanInv'
<1> USE PlanFacts
<1> DEFINE off == [e \in Executors |-> NoPlanRun]
<1>1. planOps' \in 0 .. MaxPlanOps /\ startSoon' \in BOOLEAN /\ UNCHANGED <<plan, stepTask, taskStep>>
  <2>1. planOps' \in 0 .. MaxPlanOps
    BY DEF RestartPlans, PlanOp, PlanAssumption
  <2>2. startSoon' \in BOOLEAN /\ UNCHANGED <<plan, stepTask, taskStep>>
    BY Zenon DEF RestartPlans
  <2> QED BY <2>1, <2>2
<1>2. off \in [Executors -> PlanRecords] /\ \A e \in Executors : off[e].at = "off"
  OBVIOUS
<1>3. StartExecutor("none", off) \/ (planExec' = off /\ planRunner' = "none")
  BY DEF RestartPlans
<1> HIDE DEF off
<1>4. /\ planExec' \in [Executors -> PlanRecords] /\ planRunner' \in Executors \cup {"none"} /\ OneExecutor'
      /\ \A e \in Executors : planExec'[e].at \in {"off", "begin"}
  <2>1. CASE StartExecutor("none", off)
    <3>1. /\ planExec' \in [Executors -> PlanRecords] /\ planRunner' \in Executors \cup {"none"} /\ OneExecutor'
          /\ \A e \in Executors : planExec'[e] = off[e] \/ planExec'[e].at = "begin"
      BY <1>2, <2>1, StartsOne
    <3> QED BY <1>2, <3>1
  <2>2. CASE planExec' = off /\ planRunner' = "none"
    BY <1>2, <2>2 DEF OneExecutor
  <2> QED BY <1>3, <2>1, <2>2
<1>5. \A e \in Executors : planExec'[e].at \notin InFlight
  BY <1>4 DEF InFlight
<1>6. Occupied' \subseteq Occupied
  BY <1>1, <1>5 DEF Occupied, Submits, InFlight
<1>7. GoodPlan(plan', Occupied') /\ KeepsRuns(plan, plan')
  BY <1>1, <1>6, GoodFewer DEF KeepsRuns
<1> QED BY <1>1, <1>4, <1>5, <1>7, QuietMove

LEMMA PlanNextInv ==
  ASSUME PlanAssumption, ~SlowWaits, PromptCallbacks, PlanInv, [PlanNext]_planVars PROVE PlanInv'
<1>1. CASE UNCHANGED planVars
  BY <1>1 DEF planVars, PlanInv, PlanTypes, GoodPlan, Occupied, Submits, StepsAreReady, TasksInOrder, TasksAreTied,
    OneOccupies, OneExecutor, ExecutorKnows
<1>2. CASE PlanNext
  BY <1>2, RunPlanKeeps, StartsKeep, ChangesKeep, RestartPlansKeeps DEF PlanNext
<1> QED BY <1>1, <1>2

LEMMA PlanInitInv == ASSUME PlanAssumption, PlanInit PROVE PlanInv
<1>1. plan \in PlanStates /\ \A s \in Steps : plan.step[s] = "pending" /\ plan.tries[s] = 0
  <2>1. "none" \in PlanStatus /\ "pending" \in StepStates
    BY DEF PlanStatus, StepStates
  <2>2. 0 \in 0 .. RetryLimit + 1 /\ 0 \in 0 .. MaxPlanTasks
    BY DEF PlanAssumption
  <2> QED BY <2>1, <2>2 DEF PlanInit, PlanStates
<1>2. \A e \in Executors : planExec[e] \in PlanRecords /\ planExec[e].at = "off"
  BY DEF PlanInit, NoPlanRun, PlanRecords, PlanPlaces, PlanAssumption
<1>3. Occupied = {}
  BY <1>2 DEF PlanInit, Occupied, Submits, TaskRuns
<1>4. PlanTypes
  <2>1. startSoon \in BOOLEAN
    BY DEF PlanInit
  <2>2. stepTask \in [PlanTasks -> TaskStates] /\ taskStep \in [PlanTasks -> Steps \cup {NoStep}]
    BY DEF PlanInit, TaskStates
  <2>3. planExec \in [Executors -> PlanRecords]
    BY <1>2 DEF PlanInit
  <2>4. planRunner \in Executors \cup {"none"} /\ planOps \in 0 .. MaxPlanOps
    BY DEF PlanInit, PlanAssumption
  <2> QED BY <1>1, <2>1, <2>2, <2>3, <2>4 DEF PlanTypes
<1>5. GoodPlan(plan, Occupied)
  <2>1. StepsAreReady(plan)
    <3>1. 0 <= RetryLimit
      BY DEF PlanAssumption
    <3>2. "pending" \notin {"ready", "completed"} \cup StepRuns
      BY DEF StepRuns
    <3> QED BY <1>1, <3>1, <3>2 DEF StepsAreReady
  <2>2. TasksInOrder(plan) /\ TasksAreTied(plan, Occupied)
    BY <1>3 DEF PlanInit, TasksInOrder, TasksAreTied
  <2> QED BY <1>1, <2>1, <2>2 DEF GoodPlan
<1> QED BY <1>2, <1>3, <1>4, <1>5 DEF PlanInv, OneOccupies, OneExecutor, ExecutorKnows, InFlight

\* The parts of the invariant that the runs check.
LEMMA PlanIsInOrder ==
  ASSUME PlanAssumption, PlanInv PROVE PlanTypeOK /\ StepsInOrder /\ OneTaskPerStep
<1>1. PlanTypeOK
  BY DEF PlanInv, PlanTypes, PlanTypeOK, PlanStates, PlanStatus, StepStates, TaskStates, TaskRuns, PlanRecords, PlanPlaces
<1>2. StepsInOrder
  BY DEF PlanInv, GoodPlan, TasksInOrder, StepsInOrder
<1>3. OneTaskPerStep
  BY DEF PlanInv, OneOccupies, OneTaskPerStep, Occupied, TaskRuns
<1> QED BY <1>1, <1>2, <1>3
-----------------------------------------------------------------------------
(* Plans, children and the heartbeat together.                               *)

\* The invariants of the three, of which every step moves one at most.
FollowedInv == PlanInv /\ ChildInv /\ BeatInv

LEMMA FollowedInit ==
  ASSUME PlanAssumption, ChildAssumption, BeatAssumption PROVE WorkInit => FollowedInv
BY PlanInitInv, ChildInitInv, BeatInitInv DEF WorkInit, FollowedInv

LEMMA FollowedNext ==
  ASSUME PlanAssumption, ~SlowWaits, PromptCallbacks, ChildAssumption, PromptCalls, BeatAssumption, HonestBusy,
         FollowedInv, [WorkNext]_sessionVars
  PROVE  FollowedInv'
<1>1. [PlanNext]_planVars /\ [ChildNext]_childVars /\ [BeatNext]_beatVars
  BY DEF WorkNext, Rest, sessionVars
<1> QED BY <1>1, PlanNextInv, ChildNextInv, BeatNextInv DEF FollowedInv

THEOREM FollowedInvAlways ==
  ASSUME PlanAssumption, ~SlowWaits, PromptCallbacks, ChildAssumption, PromptCalls, BeatAssumption, HonestBusy
  PROVE  WorkSpec => []FollowedInv
BY FollowedInit, FollowedNext, PTL DEF WorkSpec

\* A step of a plan has a task only behind its dependencies and never two that run
\* (PlanExecutor), there is one beat at a time (HeartbeatService), what a parent reads of its
\* children is true and the rows of the team agree with it (SubagentRuntime).
THEOREM WorkIsFollowedAlways ==
  ASSUME PlanAssumption, ~SlowWaits, PromptCallbacks, ChildAssumption, PromptCalls, BeatAssumption, HonestBusy
  PROVE  WorkSpec => []WorkIsFollowed
<1>1. BeatInv => OneBeatAtATime
  <2> SUFFICES ASSUME BeatInv PROVE Cardinality(LiveBeats) <= 1
    BY DEF OneBeatAtATime
  <2>1. CASE LiveBeats = {}
    BY <2>1, FS_EmptySet
  <2>2. CASE LiveBeats # {}
    <3>1. PICK b \in LiveBeats : TRUE
      BY <2>2
    <3>2. LiveBeats = {b}
      BY DEF BeatInv
    <3> QED BY <3>2, FS_Singleton
  <2> QED BY <2>1, <2>2
<1>2. FollowedInv => WorkIsFollowed
  BY <1>1, PlanIsInOrder, ChildrenAreFollowed DEF FollowedInv, WorkIsFollowed
<1> QED BY <1>2, FollowedInvAlways, PTL
-----------------------------------------------------------------------------
(* The types of every part.                                                  *)

LEMMA GoalTypesAreTypeOK == ASSUME GoalInv PROVE GoalTypeOK
<1>1. goal \in [Goals -> GoalRecords] /\ round \in [Rounds -> {"none", "reserved"} \cup RoundRuns \cup RoundEnded]
  BY DEF GoalInv, GoalTypes
<1>2. \A j \in Jobs : job[j].at \in JobPlaces
  BY DEF GoalInv, GoalTypes, JobRecords
<1>3. goalOps \in 0 .. MaxGoalOps /\ userWork \in BOOLEAN
  BY Zenon DEF GoalInv, GoalTypes
<1> QED BY <1>1, <1>2, <1>3, Zenon DEF GoalInv, GoalTypes, GoalTypeOK, GoalRecords, Statuses, JobPlaces

\* Every variable of the work of a session keeps its type.
THEOREM WorkTypesAlways ==
  ASSUME ~SlowThreads, GoalAssumption, JobsSuffice, PromptCancels, QuietRounds,
         PlanAssumption, ~SlowWaits, PromptCallbacks, ChildAssumption, PromptCalls, BeatAssumption, HonestBusy
  PROVE  WorkSpec => []WorkTypeOK
<1>1. WorkInit => ExecInv
  BY InitInv DEF WorkInit
<1>2. ExecInv /\ [WorkNext]_sessionVars => ExecInv'
  <2> SUFFICES ASSUME ExecInv, [WorkNext]_sessionVars PROVE ExecInv'
    OBVIOUS
  <2>1. [Next]_vars
    BY DEF WorkNext, Rest, sessionVars
  <2> QED BY <2>1, NextInv
<1>3. WorkSpec => []ExecInv
  BY <1>1, <1>2, PTL DEF WorkSpec
<1>4. ExecInv /\ GoalInv /\ FollowedInv => WorkTypeOK
  <2> SUFFICES ASSUME ExecInv, GoalInv, FollowedInv PROVE WorkTypeOK
    OBVIOUS
  <2>1. TypeOK
    BY TypesAreTypeOK DEF ExecInv
  <2>2. PlanTypeOK /\ ChildTypeOK /\ BeatTypeOK
    BY PlanIsInOrder, ChildrenAreFollowed DEF FollowedInv, BeatInv
  <2> QED BY <2>1, <2>2, GoalTypesAreTypeOK DEF WorkTypeOK
<1> QED BY <1>3, <1>4, GoalInvAlways, FollowedInvAlways, PTL
=============================================================================
