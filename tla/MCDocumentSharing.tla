------------------------- MODULE MCDocumentSharing -------------------------
(* TLC instance of the signatures, links and named shares of one document. *)
EXTENDS DocumentSharing, TLC

Symmetry == Permutations(Signers) \cup Permutations(Shares) \cup Permutations(Slots)
=============================================================================
