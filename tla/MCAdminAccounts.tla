--------------------------- MODULE MCAdminAccounts ---------------------------
(* TLC instance of an administrator's account. *)
EXTENDS AdminAccounts, TLC

Symmetry == Permutations(Slots) \cup Permutations(Tokens) \cup Permutations(Passwords)
              \cup Permutations(Secrets) \cup Permutations(Admins)
=============================================================================
