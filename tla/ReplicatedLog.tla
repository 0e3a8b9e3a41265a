--------------------------- MODULE ReplicatedLog ---------------------------
(***************************************************************************)
(* What a consensus instance promises the execution threads: every replica *)
(* has a ledger, a ledger only grows at its end, and of two ledgers one is *)
(* a prefix of the other.                                                  *)
(***************************************************************************)
EXTENDS Sequences, Integers

CONSTANTS Replica, Entry
VARIABLE ledger

Prefix(s, t) == Len(s) <= Len(t) /\ \A i \in 1 .. Len(s) : s[i] = t[i]

Init == ledger = [r \in Replica |-> <<>>]

(* Replica r learns the next entries of the log. *)
Learn(r) ==
  /\ ledger'[r] \in Seq(Entry) /\ Prefix(ledger[r], ledger'[r])
  /\ \A q \in Replica \ {r} :
       /\ ledger'[q] = ledger[q]
       /\ Prefix(ledger[q], ledger'[r]) \/ Prefix(ledger'[r], ledger[q])

Next == \E r \in Replica : Learn(r)

Spec == Init /\ [][Next]_ledger
=============================================================================
