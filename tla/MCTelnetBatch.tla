---------------------------- MODULE MCTelnetBatch ----------------------------
(* Instance of TelnetBatch for TLC. *)
EXTENDS TelnetBatch, TLC

\* Sound: only invariants are checked.
Symmetry == Permutations(SN) \cup Permutations(Proc)

\* Bound: only one session has met stray prompt characters.
StraysOfOne == \A p, q \in Proc : strays[p] > 0 /\ strays[q] > 0 => p = q
=============================================================================
