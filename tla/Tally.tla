------------------------------- MODULE Tally --------------------------------
(***************************************************************************)
(* The sum of a function to the naturals as the number of its units: the   *)
(* pairs of an argument and a number up to the value there.  A sum written *)
(* with a fold is a recursive definition; this one is a cardinality, which *)
(* TallyProofs reasons about.  So is the order of a set of numbers, a      *)
(* matter of how many are not greater.                                     *)
(***************************************************************************)
EXTENDS Integers, FiniteSets

Units(f) == UNION {{i} \X (1 .. f[i]) : i \in DOMAIN f}
Total(f) == Cardinality(Units(f))

(* The members of a set of numbers, from the smallest on. *)
Rank(S, x)   == Cardinality({y \in S : y <= x})
Ascending(S) == [i \in 1 .. Cardinality(S) |-> CHOOSE x \in S : Rank(S, x) = i]
=============================================================================
