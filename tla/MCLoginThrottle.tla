-------------------------- MODULE MCLoginThrottle ---------------------------
(* Instances of LoginThrottle for TLC. *)
EXTENDS LoginThrottle, TLC

\* Sound: invariants and action properties only.
Symmetry == Permutations(Proc) \cup Permutations(Client)
=============================================================================
