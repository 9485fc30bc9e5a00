-------------------------- MODULE MCCategoryAccess --------------------------
(* TLC instance of the access to one space. *)
EXTENDS CategoryAccess, TLC

Symmetry == Permutations(Groups) \cup Permutations(Categories) \cup Permutations(Tasks)
=============================================================================
