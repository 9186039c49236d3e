------------------------------ MODULE FileTools ------------------------------
(* The file tools (tools/fs_tools.py): read by pages, write, edit, and the copy,  *)
(* move and delete of FileManager, used by agents that share a workspace.  Their  *)
(* calls take several steps and nothing locks a file.  Files are sequences of     *)
(* lines; directories, encodings and the texts of the answers are left out.       *)
EXTENDS Naturals, Sequences, FiniteSets

CONSTANTS
  Editors,        \* agents: a parent and its subagents
  FilePaths,      \* paths they name
  Outside,        \* those outside of the workspace roots
  TextLines,      \* lines a text is made of
  TextLen,        \* length of the texts written
  LargeFiles,     \* files are above _MAX_READ_BYTES
  PageCap,        \* _LARGE_FILE_LINE_CAP
  MaxFileOps,     \* bound: calls
  MaxFileFaults   \* bound: failures and crashes

ASSUME FileAssumption == Outside \subseteq FilePaths /\ TextLen \in Nat /\ PageCap \in Nat \ {0}

VARIABLES
  permission,     \* the permission mode of the tools, "direct" when none was injected
  files,          \* per path: the file
  job,            \* per agent: the call it is in
  broken,         \* history: paths where a copy was broken off
  fileOps,        \* calls so far
  fileFaults      \* failures and crashes so far

fileVars == <<permission, files, job, broken, fileOps, fileFaults>>

Texts == [1..TextLen -> TextLines]
NoFile == [at |-> "absent", text |-> <<>>, by |-> "none"]
Whole(t) == [at |-> "whole", text |-> t, by |-> "none"]
NoJob == [at |-> "idle", path |-> "none", text |-> <<>>, todo |-> {}, next |-> 0, limit |-> 0, seen |-> {}]
Exists(p) == files[p].at # "absent"

\* _mutation_boundary_err: the modes of the ladder were asked before the call.
MutationErr(p) == permission \notin {"ask", "allow", "unreviewed"} /\ p \in Outside
\* _read_boundary_err.
ReadErr(p) == permission = "direct" /\ p \in Outside

FileCall(e) == job[e] = NoJob /\ fileOps < MaxFileOps /\ fileOps' = fileOps + 1
FileFault == fileFaults < MaxFileFaults /\ fileFaults' = fileFaults + 1
-----------------------------------------------------------------------------
(* Write and edit.                                                           *)

\* WriteTool.execute up to the temporary file of atomic_write_bytes.
WriteBegins(e, p, t) ==
  /\ FileCall(e) /\ ~MutationErr(p)
  /\ job' = [job EXCEPT ![e] = [NoJob EXCEPT !.at = "temp", !.path = p, !.text = t]]
  /\ UNCHANGED <<permission, files, broken, fileFaults>>

\* EditTool.execute up to there: the text is read, and has to hold old once unless all of
\* them are to be replaced.
Occurrences(p, old) == {k \in DOMAIN files[p].text : files[p].text[k] = old}
EditBegins(e, p, old, new, all) ==
  /\ FileCall(e) /\ ~MutationErr(p) /\ Exists(p)
  /\ Occurrences(p, old) # {} /\ (all \/ Cardinality(Occurrences(p, old)) = 1)
  /\ job' = [job EXCEPT ![e] = [NoJob EXCEPT !.at = "temp", !.path = p,
       !.text = [k \in DOMAIN files[p].text |-> IF files[p].text[k] = old THEN new ELSE files[p].text[k]]]]
  /\ UNCHANGED <<permission, files, broken, fileFaults>>

\* os.replace: the path has a new file at once, whatever is there by now.
Replaces(e) ==
  /\ job[e].at = "temp"
  /\ files' = [files EXCEPT ![job[e].path] = Whole(job[e].text)]
  /\ job' = [job EXCEPT ![e] = NoJob] /\ broken' = broken \ {job[e].path}
  /\ UNCHANGED <<permission, fileOps, fileFaults>>
WriteFails(e) ==
  /\ job[e].at = "temp" /\ FileFault /\ job' = [job EXCEPT ![e] = NoJob]
  /\ UNCHANGED <<permission, files, broken, fileOps>>
-----------------------------------------------------------------------------
(* FileManager.                                                              *)

\* copy: shutil.copy2 truncates the target and fills it.  Two copies into one file mix.
CopyBegins(e, p, q, k) ==
  /\ FileCall(e) /\ ~MutationErr(p) /\ Exists(p) /\ ~MutationErr(q) /\ p # q
  /\ job' = [job EXCEPT ![e] = [NoJob EXCEPT !.at = "copy", !.path = q, !.text = files[p].text]]
  /\ files' = [files EXCEPT ![q] = [at |-> "torn", text |-> SubSeq(files[p].text, 1, k),
                                    by |-> IF files[q].by = "none" THEN e ELSE "many"]]
  /\ broken' = broken \ {q}
  /\ UNCHANGED <<permission, fileFaults>>
\* The file that is being filled may have been moved, replaced or deleted meanwhile.
CopyEnds(e) ==
  /\ job[e].at = "copy" /\ job' = [job EXCEPT ![e] = NoJob]
  /\ files' = [p \in FilePaths |-> IF files[p].by = e THEN Whole(job[e].text) ELSE files[p]]
  /\ UNCHANGED <<permission, broken, fileOps, fileFaults>>
CopyFails(e) ==
  /\ job[e].at = "copy" /\ FileFault /\ job' = [job EXCEPT ![e] = NoJob]
  /\ broken' = broken \cup {p \in FilePaths : files[p].by = e}
  /\ files' = [p \in FilePaths |-> IF files[p].by = e THEN [files[p] EXCEPT !.by = "none"] ELSE files[p]]
  /\ UNCHANGED <<permission, fileOps>>

\* move: Path.rename, over an existing file too.
Move(e, p, q) ==
  /\ FileCall(e) /\ ~MutationErr(p) /\ Exists(p) /\ ~MutationErr(q) /\ p # q
  /\ files' = [files EXCEPT ![q] = files[p], ![p] = NoFile]
  /\ broken' = (broken \ {p, q}) \cup (IF p \in broken THEN {q} ELSE {})
  /\ UNCHANGED <<permission, job, fileFaults>>

\* delete, confirmed: one path after the other; what may not or cannot be deleted is reported.
DeleteBegins(e, S) ==
  /\ FileCall(e) /\ S # {} /\ job' = [job EXCEPT ![e] = [NoJob EXCEPT !.at = "delete", !.todo = S]]
  /\ UNCHANGED <<permission, files, broken, fileFaults>>
DeletesOne(e, p) ==
  /\ job[e].at = "delete" /\ p \in job[e].todo
  /\ job' = [job EXCEPT ![e].todo = @ \ {p}]
  /\ \/ /\ ~MutationErr(p) /\ files' = [files EXCEPT ![p] = NoFile] /\ broken' = broken \ {p} /\ UNCHANGED fileFaults
     \/ MutationErr(p) /\ UNCHANGED <<files, broken, fileFaults>>
     \/ ~MutationErr(p) /\ FileFault /\ UNCHANGED <<files, broken>>
  /\ UNCHANGED <<permission, fileOps>>
DeleteEnds(e) ==
  /\ job[e].at = "delete" /\ job[e].todo = {} /\ job' = [job EXCEPT ![e] = NoJob]
  /\ UNCHANGED <<permission, files, broken, fileOps, fileFaults>>
-----------------------------------------------------------------------------
(* Read, by pages: an agent goes on where the hint of a page tells it to.    *)

Least(m, n) == IF m < n THEN m ELSE n

\* ReadTool.execute: the lines shown and the offset it tells to go on with (0: none).  The
\* stream of a large file stops at the cap before the line is counted.
Page(n, start, limit) ==
  IF LargeFiles
  THEN LET capped == limit = 0 /\ n >= start + PageCap
           end == IF capped THEN start + PageCap - 1 ELSE IF limit = 0 THEN n ELSE Least(start + limit, n)
           last == IF capped THEN start + PageCap ELSE end
       IN  [shown |-> IF start >= end THEN {} ELSE start + 1 .. last,
            hint |-> IF start < end /\ end >= PageCap THEN end + 1 ELSE 0]
  ELSE LET end == IF limit = 0 THEN n ELSE Least(start + limit, n)
       IN  [shown |-> start + 1 .. end, hint |-> IF start < end /\ end < n THEN end + 1 ELSE 0]

ReadBegins(e, p, limit) ==
  /\ FileCall(e) /\ ~ReadErr(p) /\ Exists(p) /\ files[p].text # <<>>
  /\ job' = [job EXCEPT ![e] = [NoJob EXCEPT !.at = "read", !.path = p, !.text = files[p].text,
                                             !.next = 1, !.limit = limit]]
  /\ UNCHANGED <<permission, files, broken, fileFaults>>
\* Pages of a file that changed in between are of two texts; nothing is said of them.
ReadPage(e) ==
  LET pg == Page(Len(job[e].text), job[e].next - 1, job[e].limit)
  IN  /\ job[e].at = "read" /\ job[e].next > 0
      /\ job' = [job EXCEPT ![e] = IF files[job[e].path].text # job[e].text THEN NoJob
                                   ELSE [@ EXCEPT !.seen = @ \cup pg.shown, !.next = pg.hint]]
      /\ UNCHANGED <<permission, files, broken, fileOps, fileFaults>>
ReadEnds(e) ==
  /\ job[e].at = "read" /\ job[e].next = 0 /\ job' = [job EXCEPT ![e] = NoJob]
  /\ UNCHANGED <<permission, files, broken, fileOps, fileFaults>>
-----------------------------------------------------------------------------
\* The process is killed: temporary files are left, and copies as they are.
FileCrash ==
  /\ FileFault /\ job' = [e \in Editors |-> NoJob]
  /\ broken' = broken \cup {p \in FilePaths : files[p].by # "none"}
  /\ files' = [p \in FilePaths |-> [files[p] EXCEPT !.by = "none"]]
  /\ UNCHANGED <<permission, fileOps>>

FileInit ==
  /\ permission \in {"direct", "readonly", "ask"}
  /\ files \in [FilePaths -> {NoFile} \cup {Whole(t) : t \in Texts}]
  /\ \A p \in Outside : Exists(p)
  /\ job = [e \in Editors |-> NoJob] /\ broken = {} /\ fileOps = 0 /\ fileFaults = 0

FileNext ==
  \/ \E e \in Editors, p \in FilePaths :
       \/ \E t \in Texts : WriteBegins(e, p, t)
       \/ \E old, new \in TextLines, all \in BOOLEAN : EditBegins(e, p, old, new, all)
       \/ \E q \in FilePaths : Move(e, p, q) \/ \E k \in 0..Len(files[p].text) : CopyBegins(e, p, q, k)
       \/ \E limit \in 0..TextLen : ReadBegins(e, p, limit)
       \/ DeletesOne(e, p)
  \/ \E e \in Editors :
       \/ Replaces(e) \/ WriteFails(e) \/ CopyEnds(e) \/ CopyFails(e) \/ DeleteEnds(e) \/ ReadPage(e) \/ ReadEnds(e)
       \/ \E S \in SUBSET FilePaths : DeleteBegins(e, S)
  \/ FileCrash

FileSpec == FileInit /\ [][FileNext]_fileVars
-----------------------------------------------------------------------------
\* Types.
FileTypeOK ==
  /\ permission \in {"direct", "readonly", "ask"}
  /\ \A p \in FilePaths : files[p].at \in {"absent", "whole", "torn"} /\ files[p].by \in Editors \cup {"none", "many"}
  /\ \A e \in Editors : job[e].at \in {"idle", "temp", "copy", "delete", "read"} /\ job[e].todo \subseteq FilePaths
  /\ broken \subseteq FilePaths /\ fileOps \in 0..MaxFileOps /\ fileFaults \in 0..MaxFileFaults

\* A file is whole, whatever calls overlap, fail or are killed, except where a copy is being
\* written, was broken off or met another one (atomic_write_bytes, "atomically replace").
TornIsExplained ==
  \A p \in FilePaths : files[p].at = "torn" =>
    p \in broken \/ files[p].by = "many" \/ \E e \in Editors : files[p].by = e /\ job[e].at = "copy"

\* Who follows the hints of an unchanged file sees all of it (ReadTool, "还有 ... 行未显示").
ReadShowsAll ==
  \A e \in Editors : job[e].at = "read" /\ job[e].next = 0 => job[e].seen = DOMAIN job[e].text

\* Without a mode of the ladder no tool changes a file outside of the workspace, neither as the
\* source nor as the target of a call, nor later in a batch (_mutation_boundary_err).
OutsideUntouched ==
  permission # "ask" =>
    /\ \A e \in Editors : job[e].at \in {"temp", "copy"} => job[e].path \notin Outside
    /\ \A p \in Outside : files[p].at = "whole"

\* Deviations of the code (see the README): each is violated.
\* An edit writes what it read with its change: nobody's work is lost.
EditsStay == \A d, e \in Editors : job[d].at = "temp" /\ job[e].at = "temp" /\ job[d].path = job[e].path => d = e
=============================================================================
