---------------------------- MODULE MCExecution ----------------------------
(* Instances of TurnExecution for TLC.                                      *)
EXTENDS TurnExecution
=============================================================================
