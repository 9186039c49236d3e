------------------------------ MODULE MCQueue ------------------------------
(* Instances of ConversationQueue for TLC.                                  *)
EXTENDS ConversationQueue, TLC

\* Items, clients are interchangeable (not in runs with a liveness property).
QueueSymmetry == Permutations(Items) \cup Permutations(Clients)
=============================================================================
