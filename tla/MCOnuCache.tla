----------------------------- MODULE MCOnuCache -----------------------------
(* Instances of OnuCache for TLC. *)
EXTENDS OnuCache, TLC

\* Sound where only invariants are checked.
Symmetry == Permutations(Onu) \cup Permutations(Req)
=============================================================================
