------------------------------ MODULE Heartbeat ------------------------------
(* The heartbeat of one gateway (gateway/heartbeat.py): a loop that sends a   *)
(* prompt to the heartbeat session unless somebody is busy, and evicts that   *)
(* session when it stays busy for too many rounds.                            *)
EXTENDS Naturals, FiniteSets

CONSTANTS
  StuckLimit,     \* stuck_skip_limit
  MaxBeats,       \* bound: executions of the heartbeat session
  MaxBeatOps,     \* bound: commands
  HonestBusy      \* whether a session busy for StuckLimit rounds has really died

VARIABLES
  beatPaused,     \* _paused
  busySkips,      \* _busy_skips
  beatLoop,       \* "sleep", "awaits" on_inbound of a beat, or "evicts"
  beatEntry,      \* the resident entry of the session: "none", "idle" or "busy"
  beatRun,        \* executions: "off", "live", "stuck" (ended, entry still busy), "over"
  gatewayWork,    \* whether a cron job, a goal or a subagent is running
  beatOps         \* commands so far

beatVars == <<beatPaused, busySkips, beatLoop, beatEntry, beatRun, gatewayWork, beatOps>>

BeatAssumption == StuckLimit \in Nat \ {0} /\ MaxBeats \in Nat /\ MaxBeatOps \in Nat

ASSUME BeatAssumption

Beats == 1 .. MaxBeats
LiveBeats == {b \in Beats : beatRun[b] = "live"}
FreeBeats == {b \in Beats : beatRun[b] = "off"}
NextBeat == CHOOSE b \in FreeBeats : \A c \in FreeBeats : b <= c
BeatOp == beatOps < MaxBeatOps /\ beatOps' = beatOps + 1
-----------------------------------------------------------------------------
\* An execution of the session begins: its entry is made when there is none.
BeatExecutes ==
  /\ FreeBeats # {}
  /\ beatRun' = [beatRun EXCEPT ![NextBeat] = "live"]
  /\ beatEntry' = "busy"

\* _maybe_beat skips without looking at the session: paused, outside active_hours,
\* no user session was active, or the list of checks is missing.
SkipQuietly == UNCHANGED <<busySkips, beatEntry, beatRun>>

\* A plausible slip: a round that finds the session busy forgets the rounds before.
SkipBusyForgets(at) ==
  /\ beatEntry = "busy"
  /\ busySkips' = IF StuckLimit = 1 THEN 1 ELSE 0
  /\ UNCHANGED <<beatLoop, beatEntry, beatRun>>

\* _maybe_beat finds the session busy; the limit is reached or not.
SkipBusy(at) ==
  /\ beatEntry = "busy"
  /\ busySkips' = IF busySkips < StuckLimit THEN busySkips + 1 ELSE busySkips
  /\ IF busySkips + 1 >= StuckLimit
     THEN /\ HonestBusy => LiveBeats = {}
          /\ at = "loop" /\ beatLoop' = "evicts"
     ELSE UNCHANGED beatLoop
  /\ UNCHANGED <<beatEntry, beatRun>>

\* _maybe_beat gives way to cron jobs, goals and subagents.
SkipForWork ==
  /\ beatEntry # "busy" /\ gatewayWork
  /\ busySkips' = 0
  /\ UNCHANGED <<beatLoop, beatEntry, beatRun>>

\* A plausible slip: the beat is sent without a look at is_busy.
SendBeatBlind ==
  /\ ~gatewayWork
  /\ busySkips' = 0
  /\ BeatExecutes

\* _maybe_beat sends the prompt; the loop awaits on_inbound.
SendBeat ==
  /\ beatEntry # "busy" /\ ~gatewayWork
  /\ busySkips' = 0
  /\ BeatExecutes

\* A round of _beat_loop by the holder of the lease
BeatRound ==
  /\ beatLoop = "sleep"
  /\ \/ SkipQuietly /\ beatPaused /\ UNCHANGED beatLoop
     \/ ~beatPaused /\ SkipBusy("loop")
     \/ ~beatPaused /\ SkipForWork
     \/ ~beatPaused /\ SendBeat /\ beatLoop' = "awaits"
  /\ UNCHANGED <<beatPaused, gatewayWork, beatOps>>

\* on_inbound returns to the loop: the turn ended, or the message was queued.
BeatReturns ==
  /\ beatLoop = "awaits" /\ beatLoop' = "sleep"
  /\ UNCHANGED <<beatPaused, busySkips, beatEntry, beatRun, gatewayWork, beatOps>>

\* _recover_stuck_session: evict(force) takes whatever entry is resident.
RecoverStuck ==
  /\ beatLoop = "evicts" /\ beatLoop' = "sleep"
  /\ beatEntry' = "none"
  /\ busySkips' = IF beatEntry = "none" THEN busySkips ELSE 0
  /\ beatRun' = [b \in Beats |-> IF beatRun[b] = "stuck" THEN "over" ELSE beatRun[b]]
  /\ UNCHANGED <<beatPaused, gatewayWork, beatOps>>

\* force_beat (/heartbeat run): the same checks outside the loop
ForceBeat ==
  /\ BeatOp /\ ~beatPaused
  /\ SkipForWork \/ (SendBeat /\ UNCHANGED beatLoop)
  /\ UNCHANGED <<beatPaused, gatewayWork>>

\* /heartbeat pause and resume
PauseBeat(p) ==
  /\ BeatOp /\ beatPaused' = p
  /\ UNCHANGED <<busySkips, beatLoop, beatEntry, beatRun, gatewayWork>>
-----------------------------------------------------------------------------
\* The execution ends and resets is_busy, unless it dies without doing so.
BeatEnds(b, clean) ==
  /\ beatRun[b] = "live"
  /\ beatRun' = [beatRun EXCEPT ![b] = IF clean THEN "over" ELSE "stuck"]
  /\ beatEntry' = IF clean /\ beatEntry = "busy" THEN "idle" ELSE beatEntry
  /\ UNCHANGED <<beatPaused, busySkips, beatLoop, gatewayWork, beatOps>>

\* A user writes in the heartbeat session while it is idle.
UserWrites ==
  /\ beatEntry = "idle" /\ BeatOp /\ BeatExecutes
  /\ UNCHANGED <<beatPaused, busySkips, beatLoop, gatewayWork>>

WorkChanges ==
  /\ BeatOp /\ gatewayWork' = ~gatewayWork
  /\ UNCHANGED <<beatPaused, busySkips, beatLoop, beatEntry, beatRun>>
-----------------------------------------------------------------------------
BeatInit ==
  /\ beatPaused = FALSE /\ busySkips = 0 /\ beatLoop = "sleep" /\ beatEntry = "none"
  /\ beatRun = [b \in Beats |-> "off"] /\ gatewayWork = FALSE /\ beatOps = 0

BeatNext ==
  \/ BeatRound \/ BeatReturns \/ RecoverStuck \/ ForceBeat \/ UserWrites \/ WorkChanges
  \/ \E p \in BOOLEAN : PauseBeat(p)
  \/ \E b \in Beats, clean \in BOOLEAN : BeatEnds(b, clean)

\* The loop's timer keeps firing, on_inbound of a beat returns, an eviction ends.
BeatFairness == WF_beatVars(BeatRound) /\ WF_beatVars(BeatReturns) /\ WF_beatVars(RecoverStuck)

BeatSpec == BeatInit /\ [][BeatNext]_beatVars /\ BeatFairness
-----------------------------------------------------------------------------
BeatTypeOK ==
  /\ busySkips \in 0 .. StuckLimit /\ beatLoop \in {"sleep", "awaits", "evicts"}
  /\ beatEntry \in {"none", "idle", "busy"}
  /\ beatRun \in [Beats -> {"off", "live", "stuck", "over"}]
  /\ beatPaused \in BOOLEAN /\ gatewayWork \in BOOLEAN /\ beatOps \in 0 .. MaxBeatOps

(* No beat starts while an execution of the heartbeat session is at work, in the loop  *)
(* or by command (defer_when_busy).                                                    *)
OneBeatAtATime == Cardinality(LiveBeats) <= 1

(* A heartbeat session left busy by an execution that died does not stop the heartbeat *)
(* for good: the loop evicts it, unless the heartbeat stays paused.                    *)
StuckIsRecovered == (beatEntry = "busy" /\ LiveBeats = {}) ~> (beatEntry # "busy" \/ LiveBeats # {} \/ beatPaused)
=============================================================================
