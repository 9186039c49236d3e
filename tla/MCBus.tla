------------------------------- MODULE MCBus --------------------------------
(* Small instances of EventBus. *)
EXTENDS EventBus, TLC

\* Publishing threads are model values that nothing tells apart.
ThreadSymmetry == Permutations(Threads)
=============================================================================
