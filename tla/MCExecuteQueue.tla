--------------------------- MODULE MCExecuteQueue ---------------------------
(* Instances of ExecuteQueue for TLC. *)
EXTENDS ExecuteQueue
=============================================================================
