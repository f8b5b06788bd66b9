----------------------------- MODULE MCOltConfig -----------------------------
(* Instances of OltConfig for TLC. *)
EXTENDS OltConfig, TLC

\* Sound: only invariants are checked.
Symmetry == Permutations(OLT) \cup Permutations(Proc) \cup Permutations(Host)
=============================================================================
