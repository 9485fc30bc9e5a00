------------------------ MODULE MCDocumentLifecycle -------------------------
(* TLC instances of the document lifecycle. *)
EXTENDS DocumentLifecycle, TLC

Symmetry == Permutations(Reviews) \cup Permutations(Slots)

\* States are told apart by what a later step or a property can still read: the link
\* of a document without a version, the version of an open review (whether someone
\* has taken it up or not), what a publication in force had not read.
View == <<status, place, published, link /\ last = 0, last, clean, due, notified, mail,
          [r \in Reviews |-> IF IsOpen(r) THEN [review[r] EXCEPT !.status = "PENDING"]
                             ELSE [review[r] EXCEPT !.version = NoVersion]],
          req, tick, IF status = "PUBLISHED" THEN unread ELSE {}>>
=============================================================================
