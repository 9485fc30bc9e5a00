--------------------------- MODULE MCBatchImport ----------------------------
(* TLC instances of the batch import. *)
EXTENDS BatchImport, TLC

TwoFiles == 1 .. 2

\* Moderators change the document which the first file made in the first batch: it is
\* there for the run that makes it, for its summary and for the second batch.
OneTouched == {<<1, 1>>}
=============================================================================
