------------------------------- MODULE MCTasks --------------------------------
(* Small instances of TaskRuntime. *)
EXTENDS TaskRuntime, TLC

\* All tasks belong to one session, the case in which they meet.
OneSession == [t \in Tasks |-> CHOOSE s \in Sessions : TRUE]

\* Processes and workers are model values that nothing tells apart.
Interchangeable == Permutations(Procs) \cup Permutations(Workers)
=============================================================================
