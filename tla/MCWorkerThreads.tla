-------------------------- MODULE MCWorkerThreads ---------------------------
(* Instances of WorkerThreads for TLC. *)
EXTENDS WorkerThreads

(* One vote more than a quorum needs in a view the replica leads. *)
OneSpare == [s \in Slot |-> IF s = <<0, 1>> THEN {0, 2} ELSE {2}]
=============================================================================
