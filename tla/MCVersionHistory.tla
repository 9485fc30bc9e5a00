-------------------------- MODULE MCVersionHistory --------------------------
(* TLC instances of the version history. *)
EXTENDS VersionHistory, TLC

CONSTANTS a1, fr, en

OneLanguage == [a \in Attempts \cup {NoReceipt} |-> fr]

Symmetry == Permutations(Names) \cup Permutations(Slots)
=============================================================================
