----------------------------- MODULE MCUserAdmin -----------------------------
(* Instances of UserAdmin for TLC. *)
EXTENDS UserAdmin, TLC

\* Sound: only invariants are checked.
Symmetry == Permutations(User) \cup Permutations(Proc) \cup Permutations(Password)
=============================================================================
