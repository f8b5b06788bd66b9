---------------------------- MODULE MCOltManager ----------------------------
(* Instances of OltManager for TLC. *)
EXTENDS OltManager, TLC

\* Sound where only invariants and action properties are checked.
Symmetry == Permutations(OLT) \cup Permutations(Proc)
              \cup Permutations(Client) \cup Permutations(Lock)
=============================================================================
