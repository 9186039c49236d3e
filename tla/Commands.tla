------------------------------- MODULE Commands -------------------------------
(* One-shot commands of the tools bash and python: core/shell.py (run_killable,*)
(* the bounded buffer, the groups a stop kills) and core/sandbox/executor.py   *)
(* (_execute and the reader that spills to a file), with the user's stop of    *)
(* agent.py.  A chunk is one read of the pipe; one stream is modelled of two.  *)
EXTENDS SequencesExt, Naturals

CONSTANTS
  Killable,      \* commands that go through run_killable
  Sandboxed,     \* commands that go through the sandbox
  MaxChunks,     \* bound: chunks a command writes
  EndCap,        \* chunks in the head, and in the tail, of the bounded buffer
  SpillAt,       \* chunks after which the sandbox spills to a file
  HardCap        \* chunks after which the sandbox kills the command

VARIABLES
  cmd,           \* per command: where its caller is, how the wait ended, its processes, whom a stop hit
  pipe,          \* per command: chunks written, chunks read
  buffer,        \* per command: head, tail (the sink of a sandboxed one) and mark
  file,          \* per command: the spill file
  groups,        \* _proc_groups of the agent
  cmdJournal,       \* commands the orphan journal holds as active
  stop           \* the agent's stop: whether it is requested, and the groups its thread has still to kill

cmdVars == <<cmd, pipe, buffer, file, groups, cmdJournal, stop>>

Cmds == Killable \cup Sandboxed
Members(c) == cmd[c].lead \/ cmd[c].grand
Marked == {"exited", "timeout", "interrupted"}

\* A plausible slip: subprocess.run's own kill, of the direct child.
GroupKilledLead(c) == [cmd[c] EXCEPT !.lead = FALSE]

\* The whole group dies: command and what it left in the background.
GroupKilled(c) == [cmd[c] EXCEPT !.lead = FALSE, !.grand = FALSE]
-----------------------------------------------------------------------------
\* Popen as the leader of a group of its own, then its registration: among the groups, or in the journal.
CmdSpawns(c) ==
  /\ cmd[c].at = "idle" /\ cmd' = [cmd EXCEPT ![c].at = "spawned", ![c].lead = TRUE]
  /\ UNCHANGED <<pipe, buffer, file, groups, cmdJournal, stop>>

GroupRegisters(c) ==
  /\ cmd[c].at = "spawned" /\ cmd' = [cmd EXCEPT ![c].at = "waiting"]
  /\ groups' = groups \cup ({c} \cap Killable) /\ cmdJournal' = cmdJournal \cup ({c} \cap Sandboxed)
  /\ UNCHANGED <<pipe, buffer, file, stop>>

\* The command: it writes, leaves a process in the background, ends.
Writes(c) ==
  /\ Members(c) /\ pipe[c].written < MaxChunks /\ pipe' = [pipe EXCEPT ![c].written = @ + 1]
  /\ UNCHANGED <<cmd, buffer, file, groups, cmdJournal, stop>>

Forks(c) ==
  /\ cmd[c].lead /\ ~cmd[c].grand /\ cmd' = [cmd EXCEPT ![c].grand = TRUE]
  /\ UNCHANGED <<pipe, buffer, file, groups, cmdJournal, stop>>

Exits(c) ==
  /\ cmd[c].lead /\ cmd' = [cmd EXCEPT ![c].lead = FALSE]
  /\ UNCHANGED <<pipe, buffer, file, groups, cmdJournal, stop>>
-----------------------------------------------------------------------------
\* _BoundedStreamBuffer.append: the head is filled, the rest goes through the tail; what reaches the tail sets the mark.
Appended(b, x) ==
  IF Len(b.head) < EndCap THEN [b EXCEPT !.head = Append(@, x)]
  ELSE [b EXCEPT !.tail = IF Len(@) < EndCap THEN Append(@, x) ELSE Append(Tail(@), x), !.mark = TRUE]

\* A plausible slip: the file begins with the chunk that crossed the threshold.
SpilledLate(c, x) == IF pipe[c].read + 1 > SpillAt THEN Append(file[c], x) ELSE file[c]

\* OutputDrainer: the first chunk over the threshold writes all that is in memory, later ones themselves.
Spilled(c, x) ==
  IF pipe[c].read + 1 <= SpillAt THEN file[c]
  ELSE IF file[c] = <<>> THEN Append(buffer[c].tail, x) ELSE Append(file[c], x)

\* One turn of a reader thread; over its hard limit the sandbox kills the tree and stops reading.
Reads(c) ==
  LET x == pipe[c].read + 1 IN
  /\ cmd[c].at \in {"spawned", "waiting", "ending"} /\ x <= pipe[c].written
  /\ c \in Sandboxed => pipe[c].read <= HardCap
  /\ pipe' = [pipe EXCEPT ![c].read = x]
  /\ IF c \in Killable THEN buffer' = [buffer EXCEPT ![c] = Appended(@, x)] /\ UNCHANGED <<cmd, file>>
     ELSE /\ file' = [file EXCEPT ![c] = Spilled(c, x)]
          /\ buffer' = [buffer EXCEPT ![c].tail = IF x > SpillAt THEN <<x>> ELSE Append(@, x), ![c].mark = x > SpillAt]
          /\ cmd' = IF x > HardCap THEN [cmd EXCEPT ![c] = GroupKilled(c)] ELSE cmd
  /\ UNCHANGED <<groups, cmdJournal, stop>>
-----------------------------------------------------------------------------
\* The wait, in turns of 0.2 s: the leader has ended, the stop flag is seen, or the time is over.
WaitEnds(c) ==
  /\ cmd[c].at = "waiting" /\ ~cmd[c].lead /\ cmd' = [cmd EXCEPT ![c].at = "ending", ![c].how = "exited"]
  /\ UNCHANGED <<pipe, buffer, file, groups, cmdJournal, stop>>

SeesStop(c) ==
  /\ cmd[c].at = "waiting" /\ stop.asked
  /\ cmd' = [cmd EXCEPT ![c] = [GroupKilled(c) EXCEPT !.at = "ending", !.how = "interrupted"]]
  /\ UNCHANGED <<pipe, buffer, file, groups, cmdJournal, stop>>

TimesOut(c) ==
  /\ cmd[c].at = "waiting"
  /\ cmd' = [cmd EXCEPT ![c] = [GroupKilled(c) EXCEPT !.at = "ending", !.how = "timeout"]]
  /\ UNCHANGED <<pipe, buffer, file, groups, cmdJournal, stop>>

\* The readers are joined; a background process that still holds the pipe is not waited for.  Then the registration goes.
Ends(c) ==
  /\ cmd[c].at = "ending"
  /\ \/ pipe[c].read = pipe[c].written \/ cmd[c].grand
     \/ c \in Sandboxed /\ pipe[c].read > HardCap
  /\ cmd' = [cmd EXCEPT ![c].at = "done", ![c].foreign = FALSE]
  /\ groups' = groups \ {c} /\ cmdJournal' = cmdJournal \ {c}
  /\ UNCHANGED <<pipe, buffer, file, stop>>

\* A process of somebody else gets the number of a group that has ended.
NumberReused(c) ==
  /\ cmd[c].at = "ending" /\ ~Members(c) /\ ~cmd[c].foreign /\ cmd' = [cmd EXCEPT ![c].foreign = TRUE]
  /\ UNCHANGED <<pipe, buffer, file, groups, cmdJournal, stop>>
-----------------------------------------------------------------------------
\* request_stop: the flag first, then a copy of the agent's groups, each killed if it is alive and unregistered.
RequestStopAll ==
  /\ ~stop.asked /\ stop' = [asked |-> TRUE, left |-> groups]
  /\ UNCHANGED <<cmd, pipe, buffer, file, groups, cmdJournal>>

GroupStopKills(c) ==
  /\ c \in stop.left /\ stop' = [stop EXCEPT !.left = @ \ {c}] /\ groups' = groups \ {c}
  /\ cmd' = [cmd EXCEPT ![c] = [GroupKilled(c) EXCEPT !.hit =
       IF cmd[c].lead THEN "own" ELSE IF cmd[c].foreign \/ cmd[c].grand THEN "other" ELSE "none"]]
  /\ UNCHANGED <<pipe, buffer, file, cmdJournal>>
-----------------------------------------------------------------------------
CmdInit ==
  /\ cmd = [c \in Cmds |-> [at |-> "idle", how |-> "none", lead |-> FALSE, grand |-> FALSE, foreign |-> FALSE, hit |-> "none"]]
  /\ pipe = [c \in Cmds |-> [written |-> 0, read |-> 0]]
  /\ buffer = [c \in Cmds |-> [head |-> <<>>, tail |-> <<>>, mark |-> FALSE]]
  /\ file = [c \in Cmds |-> <<>>] /\ groups = {} /\ cmdJournal = {} /\ stop = [asked |-> FALSE, left |-> {}]

CmdStep(c) ==
  \/ CmdSpawns(c) \/ GroupRegisters(c) \/ Writes(c) \/ Forks(c) \/ Exits(c) \/ Reads(c) \/ WaitEnds(c) \/ SeesStop(c)
  \/ TimesOut(c) \/ Ends(c) \/ NumberReused(c) \/ GroupStopKills(c)

CmdNext == RequestStopAll \/ \E c \in Cmds : CmdStep(c)
CmdGoesOn(c) == GroupRegisters(c) \/ Reads(c) \/ WaitEnds(c) \/ SeesStop(c) \/ Ends(c)
CmdSpec == CmdInit /\ [][CmdNext]_cmdVars
-----------------------------------------------------------------------------
\* Types.
CmdTypeOK ==
  /\ \A c \in Cmds : /\ cmd[c].at \in {"idle", "spawned", "waiting", "ending", "done"} /\ cmd[c].how \in Marked \cup {"none"}
                     /\ pipe[c].written \in 0..MaxChunks /\ pipe[c].read \in 0..pipe[c].written
                     /\ Len(buffer[c].head) <= EndCap /\ Len(buffer[c].tail) <= EndCap + SpillAt
  /\ groups \subseteq Killable /\ cmdJournal \subseteq Sandboxed /\ stop.left \subseteq Killable

\* A command that timed out or was stopped leaves no process of its group behind, in the background neither
\* (core/shell.py:242, P0-2).
KilledLeavesNothing ==
  \A c \in Cmds : cmd[c].at \in {"ending", "done"} /\ cmd[c].how \in {"timeout", "interrupted"} => ~Members(c)

\* However much was written, the caller is shown the beginning and the end of what was read, and the file a result of the
\* sandbox names holds all of it.
OutputIsWhole == \A c \in Cmds :
  LET read == [i \in 1..pipe[c].read |-> i] IN
  /\ c \in Killable => IsPrefix(buffer[c].head, read) /\ IsSuffix(buffer[c].tail, read)
                       /\ (Len(buffer[c].head \o buffer[c].tail) = pipe[c].read \/ buffer[c].mark)
  /\ c \in Sandboxed => (IF file[c] = <<>> THEN buffer[c].tail = read ELSE file[c] = read)

\* Deviations of the code (see the README): the outcome of a stopped command, whom the stop kills, the mark.
StopIsTold == \A c \in Killable : cmd[c].hit = "own" /\ cmd[c].at = "done" => cmd[c].how = "interrupted"
StopSparesOthers == \A c \in Cmds : cmd[c].hit # "other"
MarkIsTrue == \A c \in Killable : buffer[c].mark => Len(buffer[c].head \o buffer[c].tail) < pipe[c].read
=============================================================================
