--------------------------- MODULE MCOutputBuffer ---------------------------
(* Instances of OutputBuffer for TLC.  Producers are interchangeable. *)
EXTENDS OutputBuffer, TLC

Symmetry == Permutations(Producer)
=============================================================================
