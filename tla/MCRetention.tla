---------------------------- MODULE MCRetention -----------------------------
(* TLC instances of the retention workflow. *)
EXTENDS Retention, TLC

CONSTANTS d1, f1, f2

OneDocument == (d1 :> {f1, f2})
Symmetry == Permutations(Admins) \cup Permutations(Slots)
=============================================================================
