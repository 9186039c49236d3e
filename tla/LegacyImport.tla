----------------------------- MODULE LegacyImport -----------------------------
(* The import of the old transcripts (gateway/session_migrate.py): every       *)
(* sessions/*.json whose conversation is not in the database becomes a         *)
(* conversation with one finished turn.  The import may be run twice at the    *)
(* same time and beside the gateway, and it may die or fail on the way.        *)
EXTENDS Naturals, FiniteSets

CONSTANTS
  Importers,      \* runs of migrate_sessions
  Files,          \* the transcripts
  Broken,         \* those that cannot be parsed
  KeyOf,          \* the session key of a file: by sessions_map.json, else its stem
  Faulty,         \* what may go wrong: a subset of {"crash", "failure"}
  MaxImportFaults \* bound: crashes and failures

VARIABLES
  conversation,   \* per session key: who created it, the transcripts and user turns in it
  importer,       \* per run: the files it has still to look at, and the one it imports
  report,         \* per run: what its report says of each file
  importFaults    \* crashes and failures so far

importVars == <<conversation, importer, report, importFaults>>

ASSUME ImportAssumption ==
  Broken \subseteq Files /\ Faulty \subseteq {"crash", "failure"} /\ MaxImportFaults \in Nat

SessionKeys == {KeyOf[f] : f \in Files}
NoConversation == [by |-> "nobody", texts |-> [f \in Files |-> 0], turns |-> 0]
Exists(k) == conversation[k].by # "nobody"
Resting == [at |-> "off", left |-> {}, covered |-> {}, file |-> "none"]
Fault(what) == what \in Faulty /\ importFaults < MaxImportFaults /\ importFaults' = importFaults + 1
-----------------------------------------------------------------------------
\* scan_legacy_sessions: a file is covered when its key is in the database.
KnownCovered == {f \in Files : Exists(KeyOf[f])}
ScanOne(f) == f \in KnownCovered
ImportBegins(i) ==
  /\ importer[i].at = "off"
  /\ importer' = [importer EXCEPT ![i] =
       [at |-> "loop", left |-> Files, covered |-> {f \in Files : ScanOne(f)}, file |-> "none"]]
  /\ report' = [report EXCEPT ![i] = [f \in Files |-> "nothing"]]
  /\ UNCHANGED <<conversation, importFaults>>

\* The next record of the scan: covered, unreadable, or one to import.
ImportLooks(i, f) ==
  /\ importer[i].at = "loop" /\ f \in importer[i].left
  /\ IF f \in importer[i].covered \/ f \in Broken
     THEN /\ report' = [report EXCEPT ![i][f] = IF f \in importer[i].covered THEN "covered" ELSE "error"]
          /\ importer' = [importer EXCEPT ![i].left = @ \ {f}]
     ELSE /\ importer' = [importer EXCEPT ![i].at = "check", ![i].left = @ \ {f}, ![i].file = f]
          /\ UNCHANGED report
  /\ UNCHANGED <<conversation, importFaults>>

BackToLoop(i, as) ==
  /\ importer' = [importer EXCEPT ![i].at = "loop", ![i].file = "none"]
  /\ report' = [report EXCEPT ![i][importer[i].file] = as]

\* _import_one looks at the key once more before it creates anything.
ImportChecks(i) ==
  /\ importer[i].at = "check"
  /\ IF Exists(KeyOf[importer[i].file])
     THEN BackToLoop(i, "skipped")
     ELSE importer' = [importer EXCEPT ![i].at = "create"] /\ UNCHANGED report
  /\ UNCHANGED <<conversation, importFaults>>

\* create_conversation inserts or finds the row in a transaction of its own; a row that
\* somebody else inserted meanwhile is left alone.
\* A plausible slip: whether the row is new is not looked at.
ImportCreatesBlind(i) ==
  /\ importer[i].at = "create"
  /\ LET k == KeyOf[importer[i].file] IN
     /\ conversation' = [conversation EXCEPT ![k].by = IF @ = "nobody" THEN "import" ELSE @]
     /\ importer' = [importer EXCEPT ![i].at = "write"] /\ UNCHANGED report
  /\ UNCHANGED importFaults
ImportCreates(i) ==
  /\ importer[i].at = "create"
  /\ LET k == KeyOf[importer[i].file] IN
     IF Exists(k) THEN BackToLoop(i, "skipped") /\ UNCHANGED conversation
     ELSE /\ conversation' = [conversation EXCEPT ![k].by = "import"]
          /\ importer' = [importer EXCEPT ![i].at = "write"] /\ UNCHANGED report
  /\ UNCHANGED importFaults

\* The turn and the node with the transcript, in a second transaction.
ImportWrites(i) ==
  /\ importer[i].at = "write"
  /\ LET f == importer[i].file IN
     /\ conversation' = [conversation EXCEPT ![KeyOf[f]].texts[f] = @ + 1]
     /\ BackToLoop(i, "migrated")
  /\ UNCHANGED importFaults

\* The second transaction fails: the conversation is deleted with all that refers to it,
\* and that deletion may fail too.
ImportFails(i) ==
  /\ importer[i].at = "write" /\ Fault("failure")
  /\ \E deleted \in BOOLEAN :
       conversation' = IF deleted
         THEN [conversation EXCEPT ![KeyOf[importer[i].file]] = NoConversation]
         ELSE conversation
  /\ BackToLoop(i, "error")

\* The process of an import dies; what it committed stays.
ImportDies(i) ==
  /\ importer[i].at # "off" /\ Fault("crash")
  /\ importer' = [importer EXCEPT ![i] = Resting]
  /\ UNCHANGED <<conversation, report>>

ImportEnds(i) ==
  /\ importer[i].at = "loop" /\ importer[i].left = {}
  /\ importer' = [importer EXCEPT ![i] = Resting]
  /\ UNCHANGED <<conversation, report, importFaults>>

\* A message of the session arrives at the gateway, which creates the conversation when
\* there is none.
UserTurn(k) ==
  /\ conversation[k].turns = 0
  /\ conversation' = [conversation EXCEPT ![k].turns = 1,
                                          ![k].by = IF @ = "nobody" THEN "gateway" ELSE @]
  /\ UNCHANGED <<importer, report, importFaults>>

ImportInit ==
  /\ conversation = [k \in SessionKeys |-> NoConversation]
  /\ importer = [i \in Importers |-> Resting]
  /\ report = [i \in Importers |-> [f \in Files |-> "nothing"]]
  /\ importFaults = 0
ImportNext ==
  \/ \E i \in Importers :
       \/ ImportBegins(i) \/ ImportChecks(i) \/ ImportCreates(i) \/ ImportWrites(i)
       \/ ImportFails(i) \/ ImportDies(i) \/ ImportEnds(i)
       \/ \E f \in Files : ImportLooks(i, f)
  \/ \E k \in SessionKeys : UserTurn(k)
ImportSpec == ImportInit /\ [][ImportNext]_importVars
-----------------------------------------------------------------------------
Conversation == [by : {"nobody", "import", "gateway"}, texts : [Files -> Nat], turns : 0 .. 1]
Importer ==
  [at : {"off", "loop", "check", "create", "write"}, left : SUBSET Files, covered : SUBSET Files,
   file : Files \cup {"none"}]
\* Types.
ImportTypeOK ==
  /\ conversation \in [SessionKeys -> Conversation] /\ importer \in [Importers -> Importer]
  /\ report \in [Importers -> [Files -> {"nothing", "covered", "error", "skipped", "migrated"}]]
  /\ importFaults \in 0 .. MaxImportFaults

\* A transcript is imported at most once, however many imports run together or one after
\* the other, and only into a conversation that the import itself made.
ImportedOnce ==
  \A k \in SessionKeys : \A f \in Files :
    /\ conversation[k].texts[f] <= 1
    /\ conversation[k].texts[f] = 1 => conversation[k].by = "import" /\ KeyOf[f] = k

\* A conversation of the import holds its transcript unless a run is just writing it: the
\* next run takes the key for covered and the files may be cleaned up.
CoveredIsImported ==
  \A k \in SessionKeys :
    conversation[k].by = "import" /\ (\A i \in Importers : importer[i].at # "write"
                                        \/ KeyOf[importer[i].file] # k)
      => \E f \in Files : conversation[k].texts[f] = 1

\* The import never takes a message of the user away.
UserTurnsStay ==
  [][\A k \in SessionKeys : conversation[k].turns <= conversation'[k].turns]_importVars
=============================================================================
