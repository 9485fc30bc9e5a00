----------------------------- MODULE UploadOnce -----------------------------
(***************************************************************************)
(* What the upload service promises to a client that numbers its attempts  *)
(* (uploadRequestId): an attempt makes at most one version however often   *)
(* it is sent, and it is only reported as done once that version exists.   *)
(***************************************************************************)
EXTENDS Naturals

CONSTANT Attempts     \* the uploadRequestIds clients choose

VARIABLES
  rows,       \* per attempt: how many versions it made
  confirmed,  \* attempts a client was told are done
  closed      \* the document is permanently deleted

vars == <<rows, confirmed, closed>>

Init ==
  /\ rows = [a \in Attempts |-> 0]
  /\ confirmed = {}
  /\ closed = FALSE

\* The version is made; the answer may be lost.
Store(a) ==
  /\ ~closed /\ rows[a] = 0
  /\ rows' = [rows EXCEPT ![a] = 1]
  /\ confirmed' \in {confirmed, confirmed \cup {a}}
  /\ closed' = closed

\* A repeated attempt is answered with the version it made.
Confirm(a) ==
  /\ rows[a] = 1
  /\ confirmed' = confirmed \cup {a}
  /\ rows' = rows /\ closed' = closed

Discard ==
  /\ ~closed
  /\ closed' = TRUE
  /\ rows' = [a \in Attempts |-> 0]
  /\ UNCHANGED confirmed

Next == Discard \/ \E a \in Attempts : Store(a) \/ Confirm(a)

Spec == Init /\ [][Next]_vars
=============================================================================
