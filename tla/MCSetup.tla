------------------------------- MODULE MCSetup ------------------------------
(* Instances of Setup for TLC. *)
EXTENDS Setup

(* The client has one input thread, or one for each replica. *)
OneThread == [s \in Replica |-> CHOOSE i \in Input : TRUE]
OwnThread == [s \in Replica |-> s]
=============================================================================
