-------------------------- MODULE BatchImportProofs -------------------------
(***************************************************************************)
(* Proofs about the batch import, for any number of files and of batches.  *)
(*                                                                         *)
(* One document per file rests on when requests for a file are served at   *)
(* the same time; one announcement per publication rests on what a summary *)
(* of the batch on the screen may still contain.                           *)
(***************************************************************************)
EXTENDS BatchImport, FiniteSetTheorems, TLAPS

(***************************************************************************)
(* The inductive invariant                                                 *)
(***************************************************************************)

\* The requests the browser may wait for.
Requests == [kind : {"none", "upload", "publish", "digest", "reload"}, ids : SUBSET Attempts]

\* The browser waits for the request of the line that the loop is at, or for the
\* summary or the reload after the last one.
Shown ==
  /\ waiting.kind = "none" => waiting = NoRequest
  /\ waiting.kind \in {"upload", "publish"} =>
       cursor \in Files /\ waiting.ids = {Att(cursor)}
  /\ waiting.kind = "upload" => item[cursor].status = "uploading" /\ ~item[cursor].known
  /\ waiting.kind = "publish" => item[cursor].known
  /\ waiting.kind = "digest" => cursor = Done /\ waiting.ids = digestPending
  /\ waiting.kind = "reload" => cursor = Done /\ waiting = Reload

\* Two requests for a file were served at the same time only if the file was sent
\* again in the meantime.
ServedApart ==
  \A a, b \in Attempts : a # b /\ a[1] = b[1] /\ serving[a] # "no" /\ serving[b] # "no"
                           => a[1] \in overlapped

\* The same for a request that passed the duplicate check and a stored document,
\* unless the check could not see that document.
CheckedApart ==
  \A a, b \in Attempts : a # b /\ a[1] = b[1] /\ rows[a] = 1 /\ serving[b] = "checked"
                           => a[1] \in overlapped \/ {a, b} \cap blind # {}

\* No attempt is served once it has made its document.
ServedIsNew == \A a \in Attempts : serving[a] # "no" => rows[a] = 0

\* Nothing was sent for the batches to come.
Unsent == \A a \in Attempts : a[2] > batch => rows[a] = 0 /\ serving[a] = "no"

\* The summaries of the batch on the screen: the documents that were announced, and
\* those of the one summary that was not acknowledged.
Summaries ==
  /\ \A a \in digestPending : a[2] = batch /\ a \notin notified
  /\ \A j \in jobs : \A a \in j : a[2] <= batch
  /\ \A j \in jobs : (\A a \in j : a[2] < batch) \/ j \subseteq notified \/ j = digestPending
  /\ notified \subseteq UNION jobs
  /\ cursor # 0 /\ waiting.kind # "digest" => digestPending = {}

\* After a run, what is shown as published was announced or is about to be.
Covered ==
  option = "announce" /\ (cursor = 0 \/ waiting.kind \in {"digest", "reload"}) =>
    \A f \in Files : item[f].status = "published" => Att(f) \in notified \cup digestPending

\* What the browser keeps, and the summaries.
ClientTypes ==
  /\ batch \in 1 .. MaxBatches /\ option \in {"draft", "publish", "announce"}
  /\ item \in [Files -> [status : Statuses, known : BOOLEAN]]
  /\ cursor \in 0 .. Done
  /\ waiting \in Requests
  /\ digestPending \subseteq Attempts /\ notified \subseteq Attempts
  /\ jobs \subseteq SUBSET Attempts

ClientInv == ClientTypes /\ Shown /\ AnnouncedOnce /\ Summaries /\ Covered

\* What the server keeps.
ServerTypes ==
  /\ serving \in [Attempts -> {"no", "sent", "checked"}]
  /\ rows \in [Attempts -> 0 .. 1] /\ confirmed \subseteq Attempts
  /\ overlapped \subseteq Files /\ blind \subseteq Attempts

DocTypes ==
  /\ doc \in [Attempts -> {"none", "draft", "quarantined", "published"}]
  /\ removed \subseteq Attempts

ServerInv ==
  ServerTypes /\ ServedApart /\ CheckedApart /\ ServedIsNew /\ OneDocumentPerFile

\* What has made no document yet.
Safe == FailedIsSafe /\ Unsent

\* The invariant.
Inv == ClientInv /\ ServerInv /\ DocTypes /\ Safe

-----------------------------------------------------------------------------
(* Facts about the constants *)

LEMMA FilesAre ==
  /\ N \in Nat /\ Files = 1 .. N /\ Done = N + 1 /\ MaxBatches \in Nat /\ MaxBatches >= 1
  /\ \A f \in Files : f \in Nat /\ f # 0 /\ f + 1 \in 0 .. Done /\ f + 1 # 0 /\ f # Done
  /\ Done \in 0 .. Done /\ Done # 0 /\ 0 \in 0 .. Done /\ 1 \in 0 .. Done
<1>1. N \in Nat /\ Files = 1 .. N
  BY BatchAssumption, FS_CardinalityType DEF N
<1> QED BY <1>1, BatchAssumption DEF Done

LEMMA RequestsAre ==
  /\ NoRequest \in Requests /\ NoRequest.kind = "none"
  /\ Reload \in Requests /\ Reload.kind = "reload"
  /\ Pending \in [status : Statuses, known : BOOLEAN] /\ Pending.status = "pending"
BY DEF NoRequest, Reload, Requests, Pending, Statuses

LEMMA AttIs ==
  ASSUME ClientTypes, NEW f \in Files
  PROVE  Att(f) \in Attempts /\ Att(f)[1] = f /\ Att(f)[2] = batch /\ Att(f) = <<f, batch>>
BY DEF ClientTypes, Att, Attempts

-----------------------------------------------------------------------------
(* The browser's part *)

LEMMA ClientKept ==
  ASSUME ClientInv, UNCHANGED client, jobs' = jobs
  PROVE  ClientInv'
<1>1. /\ batch' = batch /\ option' = option /\ item' = item /\ cursor' = cursor
      /\ waiting' = waiting /\ digestPending' = digestPending /\ notified' = notified
  BY DEF client
<1>2. ClientTypes'
  BY <1>1 DEF ClientInv, ClientTypes
<1>3. Shown'
  BY <1>1 DEF ClientInv, Shown, Att
<1>4. AnnouncedOnce' /\ Summaries'
  BY <1>1 DEF ClientInv, AnnouncedOnce, Summaries
<1>5. Covered'
  BY <1>1 DEF ClientInv, Covered, Att
<1> QED BY <1>2, <1>3, <1>4, <1>5 DEF ClientInv

\* The loop stays with its line or goes on: no summary is under way.
LEMMA LoopKept ==
  ASSUME ClientInv, cursor # 0, waiting.kind # "digest", waiting.kind # "reload",
         cursor' \in 0 .. Done, cursor' # 0,
         waiting' \in Requests,
         waiting'.kind # "digest", waiting'.kind # "reload", Shown',
         item' \in [Files -> [status : Statuses, known : BOOLEAN]],
         UNCHANGED <<batch, option, digestPending, notified, jobs>>
  PROVE  ClientInv'
<1>1. ClientTypes'
  BY DEF ClientInv, ClientTypes
<1>2. AnnouncedOnce' /\ Summaries'
  BY DEF ClientInv, AnnouncedOnce, Summaries
<1>3. Covered'
  BY DEF Covered
<1> QED BY <1>1, <1>2, <1>3 DEF ClientInv

\* An answer to the request for the current line.
LEMMA AnswerKept ==
  ASSUME ClientInv, waiting.kind \in {"upload", "publish"}, NEW st \in Statuses,
         NEW k \in BOOLEAN, NEW next \in {cursor + 1, Done}, Answer(st, k, next), jobs' = jobs
  PROVE  /\ ClientInv' /\ batch' = batch /\ cursor \in Files
         /\ item' = [item EXCEPT ![cursor] = [status |-> st, known |-> k]]
<1>1. cursor \in Files /\ item \in [Files -> [status : Statuses, known : BOOLEAN]]
  BY DEF ClientInv, ClientTypes, Shown
<1>2. /\ item' = [item EXCEPT ![cursor] = [status |-> st, known |-> k]]
      /\ cursor' = next /\ waiting' = NoRequest
      /\ UNCHANGED <<batch, option, digestPending, notified>>
  BY DEF Answer, Show
<1>3. cursor # 0 /\ cursor' \in 0 .. Done /\ cursor' # 0
  BY <1>1, <1>2, FilesAre
<1>4. Shown'
  BY <1>2, RequestsAre DEF Shown
<1>5. item' \in [Files -> [status : Statuses, known : BOOLEAN]]
  BY <1>1, <1>2
<1> QED BY <1>1, <1>2, <1>3, <1>4, <1>5, RequestsAre, LoopKept

\* The answer to an upload, with its document.
LEMMA UploadedKept ==
  ASSUME ClientInv, NEW a \in Attempts, Waits("upload", {a}), AnswerUploaded(a), jobs' = jobs
  PROVE  /\ ClientInv' /\ batch' = batch /\ cursor \in Files
         /\ \E st \in Statuses : item' = [item EXCEPT ![cursor] = [status |-> st, known |-> TRUE]]
<1>1. /\ cursor \in Files /\ waiting.kind = "upload" /\ a = Att(cursor)
      /\ item \in [Files -> [status : Statuses, known : BOOLEAN]]
  BY DEF ClientInv, ClientTypes, Shown, Waits
<1>2. "quarantined" \in Statuses /\ "draft" \in Statuses /\ "publishing" \in Statuses
  BY DEF Statuses
<1>3. CASE Answer("quarantined", TRUE, cursor + 1)
  BY <1>1, <1>2, <1>3, AnswerKept
<1>4. CASE Answer("draft", TRUE, cursor + 1)
  BY <1>1, <1>2, <1>4, AnswerKept
<1>5. CASE /\ Show(cursor, "publishing", TRUE)
           /\ waiting' = [kind |-> "publish", ids |-> {a}]
           /\ UNCHANGED <<batch, option, cursor, digestPending, notified>>
  <2>1. item' = [item EXCEPT ![cursor] = [status |-> "publishing", known |-> TRUE]]
    BY <1>5 DEF Show
  <2>2. item' \in [Files -> [status : Statuses, known : BOOLEAN]] /\ item'[cursor].known
    BY <1>1, <1>2, <2>1
  <2>3. cursor' = cursor /\ cursor # 0 /\ cursor \in 0 .. Done
    BY <1>1, <1>5, FilesAre DEF ClientInv, ClientTypes
  <2>4. waiting' \in Requests
        /\ waiting'.kind = "publish" /\ waiting'.ids = {a}
    BY <1>5 DEF Requests
  <2>5. Att(cursor)' = a
    BY <1>1, <1>5 DEF Att
  <2>6. Shown'
    BY <1>1, <2>2, <2>3, <2>4, <2>5 DEF Shown
  <2>7. ClientInv'
    BY <1>1, <1>5, <2>2, <2>3, <2>4, <2>6, LoopKept
  <2> QED BY <1>1, <1>2, <1>5, <2>1, <2>7
<1> QED BY <1>3, <1>4, <1>5 DEF AnswerUploaded

LEMMA RefusedKept ==
  ASSUME ClientInv, waiting.kind \in {"upload", "publish"}, AnswerRefused, jobs' = jobs
  PROVE  /\ ClientInv' /\ batch' = batch /\ cursor \in Files
         /\ item' = [item EXCEPT ![cursor] = [status |-> "failed", known |-> item[cursor].known]]
<1>1. "failed" \in Statuses /\ item[cursor].known \in BOOLEAN
  BY DEF Statuses, ClientInv, ClientTypes, Shown
<1> QED BY <1>1, AnswerKept DEF AnswerRefused

LEMMA UncertainKept ==
  ASSUME ClientInv, waiting.kind \in {"upload", "publish"}, AnswerUncertain, jobs' = jobs
  PROVE  /\ ClientInv' /\ batch' = batch /\ cursor \in Files
         /\ item' = [item EXCEPT ![cursor] = [status |-> "uncertain", known |-> item[cursor].known]]
<1>1. "uncertain" \in Statuses /\ item[cursor].known \in BOOLEAN
  BY DEF Statuses, ClientInv, ClientTypes, Shown
<1> QED BY <1>1, AnswerKept DEF AnswerUncertain, StatusWithoutAnswer

-----------------------------------------------------------------------------
(* The server's part *)

\* Fewer requests are served.
LEMMA ServedLess ==
  ASSUME ServerInv, serving' \in [Attempts -> {"no", "sent", "checked"}],
         \A a \in Attempts : serving'[a] \in {"no", serving[a]},
         confirmed' \subseteq Attempts, UNCHANGED <<rows, overlapped, blind>>
  PROVE  ServerInv'
<1>1. ServerTypes' /\ OneDocumentPerFile'
  BY DEF ServerInv, ServerTypes, OneDocumentPerFile
<1>2. ServedApart'
  BY DEF ServerInv, ServedApart
<1>3. CheckedApart' /\ ServedIsNew'
  BY DEF ServerInv, CheckedApart, ServedIsNew
<1> QED BY <1>1, <1>2, <1>3 DEF ServerInv

LEMMA ServerKept ==
  ASSUME ServerInv, UNCHANGED <<serving, rows, confirmed, overlapped, blind>>
  PROVE  ServerInv'
BY DEF ServerInv, ServerTypes, ServedApart, CheckedApart, ServedIsNew, OneDocumentPerFile

\* A request ends: one line less is served.
LEMMA RequestEnds ==
  ASSUME ServerTypes, NEW a \in Attempts, serving' = [serving EXCEPT ![a] = "no"]
  PROVE  /\ serving' \in [Attempts -> {"no", "sent", "checked"}] /\ serving'[a] = "no"
         /\ \A b \in Attempts : serving'[b] \in {"no", serving[b]}
BY DEF ServerTypes

\* The lines and the rows stay, and fewer requests are served.
LEMMA StillSafe ==
  ASSUME Inv, UNCHANGED <<batch, item, rows>>,
         \A a \in Attempts : serving'[a] \in {"no", serving[a]}
  PROVE  Safe'
<1>1. ClientTypes /\ FailedIsSafe /\ Unsent
  BY DEF Inv, ClientInv, Safe
<1>2. ASSUME NEW f \in Files, ToProcess(f)', ~item'[f].known
      PROVE  rows'[Att(f)] = 0 /\ serving'[Att(f)] = "no"
  <2>1. rows[Att(f)] = 0 /\ serving[Att(f)] = "no" /\ Att(f) \in Attempts
    BY <1>1, <1>2, AttIs DEF FailedIsSafe, ToProcess
  <2> QED BY <2>1
<1>3. \A f \in Files : Att(f)' = Att(f)
  BY DEF Att
<1>4. Unsent'
  BY <1>1 DEF Unsent
<1> QED BY <1>2, <1>3, <1>4 DEF FailedIsSafe, Safe

\* One line changes, to something that is not offered for another upload.
LEMMA LineSafe ==
  ASSUME Inv, batch' = batch, cursor \in Files, NEW st, NEW k,
         item' = [item EXCEPT ![cursor] = [status |-> st, known |-> k]],
         \/ st \notin {"pending", "failed"} \/ k
         \/ rows'[Att(cursor)] = 0 /\ serving'[Att(cursor)] = "no",
         \A b \in Attempts \ {Att(cursor)} : /\ rows'[b] = rows[b]
                                             /\ serving'[b] \in {"no", serving[b]}
  PROVE  Safe'
<1>1. ClientTypes /\ FailedIsSafe /\ Unsent
  BY DEF Inv, ClientInv, Safe
<1>2. /\ item'[cursor].status = st /\ item'[cursor].known = k
      /\ \A f \in Files \ {cursor} : item'[f] = item[f]
  BY <1>1 DEF ClientTypes
<1>3. ASSUME NEW f \in Files, ToProcess(f)', ~item'[f].known
      PROVE  rows'[Att(f)] = 0 /\ serving'[Att(f)] = "no"
  <2>1. CASE f = cursor
    BY <1>2, <1>3, <2>1 DEF ToProcess
  <2>2. CASE f # cursor
    <3>1. rows[Att(f)] = 0 /\ serving[Att(f)] = "no"
      BY <1>1, <1>2, <1>3, <2>2 DEF FailedIsSafe, ToProcess
    <3>2. Att(f) \in Attempts \ {Att(cursor)}
      BY <1>1, <2>2, AttIs
    <3> QED BY <3>1, <3>2
  <2> QED BY <2>1, <2>2
<1>4. \A f \in Files : Att(f)' = Att(f)
  BY DEF Att
<1>5. Unsent'
  <2>1. batch \in Nat /\ Att(cursor)[2] = batch
    BY <1>1, AttIs, FilesAre DEF ClientTypes
  <2>2. \A b \in Attempts : b[2] > batch => b # Att(cursor)
    BY <2>1
  <2> QED BY <1>1, <2>2 DEF Unsent
<1> QED BY <1>3, <1>4, <1>5 DEF FailedIsSafe, Safe

-----------------------------------------------------------------------------
(* The steps of the server *)

LEMMA LoseKept ==
  ASSUME Inv, NEW a \in Attempts, LoseUpload(a)
  PROVE  Inv'
<1>1. /\ serving' = [serving EXCEPT ![a] = "no"] /\ UNCHANGED client
      /\ UNCHANGED <<rows, confirmed, doc, removed, jobs, overlapped, blind>>
  BY DEF LoseUpload, history
<1>2. batch' = batch /\ item' = item
  BY <1>1 DEF client
<1>3. ClientInv' /\ DocTypes'
  BY <1>1, ClientKept DEF Inv, DocTypes
<1>4. /\ serving' \in [Attempts -> {"no", "sent", "checked"}]
      /\ \A b \in Attempts : serving'[b] \in {"no", serving[b]}
  BY <1>1, RequestEnds DEF Inv, ServerInv
<1>5. ServerInv'
  BY <1>1, <1>4, ServedLess DEF Inv, ServerInv, ServerTypes
<1>6. Safe'
  BY <1>1, <1>2, <1>4, StillSafe
<1> QED BY <1>3, <1>5, <1>6 DEF Inv

\* The attempts of other lines are other attempts.
LEMMA OtherLines ==
  ASSUME ClientInv, NEW a \in Attempts, Waits("upload", {a})
  PROVE  /\ waiting.kind = "upload" /\ cursor \in Files /\ a = Att(cursor)
         /\ ~item[cursor].known
         /\ \A f \in Files \ {cursor} : Att(f) # a /\ Att(f) \in Attempts
<1>1. waiting.kind = "upload" /\ cursor \in Files /\ a = Att(cursor) /\ ~item[cursor].known
  BY DEF Waits, ClientInv, Shown
<1>2. \A f \in Files \ {cursor} : Att(f) # a /\ Att(f) \in Attempts
  BY <1>1, AttIs DEF ClientInv
<1> QED BY <1>1, <1>2

\* A request ends with an answer, or with none for a browser that has given up.
LEMMA EndsKept ==
  ASSUME Inv, NEW a \in Attempts, serving' = [serving EXCEPT ![a] = "no"],
         confirmed' \subseteq Attempts, UNCHANGED <<rows, doc, removed, jobs, overlapped, blind>>,
         \/ Reply(a, AnswerUploaded(a)) \/ Reply(a, AnswerUncertain)
         \/ Reply(a, AnswerRefused) /\ rows[a] = 0
  PROVE  Inv'
<1>1. ClientInv /\ ServerInv
  BY DEF Inv
<1>2. /\ serving' \in [Attempts -> {"no", "sent", "checked"}] /\ serving'[a] = "no"
      /\ \A b \in Attempts : serving'[b] \in {"no", serving[b]}
  BY <1>1, RequestEnds DEF ServerInv
<1>3. ServerInv' /\ DocTypes'
  BY <1>1, <1>2, ServedLess DEF Inv, DocTypes
<1>4. CASE UNCHANGED client
  <2>1. batch' = batch /\ item' = item
    BY <1>4 DEF client
  <2>2. Safe'
    BY <1>2, <2>1, StillSafe
  <2> QED BY <1>1, <1>3, <1>4, <2>2, ClientKept DEF Inv
<1>5. CASE Waits("upload", {a})
  <2>1. /\ waiting.kind = "upload" /\ cursor \in Files /\ a = Att(cursor)
        /\ \A f \in Files \ {cursor} : Att(f) # a /\ Att(f) \in Attempts
    BY <1>1, <1>5, OtherLines
  <2>2. \A b \in Attempts \ {Att(cursor)} : /\ rows'[b] = rows[b]
                                            /\ serving'[b] \in {"no", serving[b]}
    BY <1>2
  <2>3. CASE AnswerUploaded(a)
    <3>1. ClientInv' /\ batch' = batch
      BY <1>1, <1>5, <2>3, UploadedKept
    <3>2. PICK st \in Statuses : item' = [item EXCEPT ![cursor] = [status |-> st, known |-> TRUE]]
      BY <1>1, <1>5, <2>3, UploadedKept
    <3>3. Safe'
      BY <2>1, <2>2, <3>1, <3>2, LineSafe
    <3> QED BY <1>3, <3>1, <3>3 DEF Inv
  <2>4. CASE AnswerUncertain
    <3>1. /\ ClientInv' /\ batch' = batch
          /\ item' = [item EXCEPT ![cursor] = [status |-> "uncertain", known |-> item[cursor].known]]
      BY <1>1, <2>1, <2>4, UncertainKept
    <3>2. Safe'
      BY <2>1, <2>2, <3>1, LineSafe
    <3> QED BY <1>3, <3>1, <3>2 DEF Inv
  <2>5. CASE AnswerRefused /\ rows[a] = 0
    <3>1. /\ ClientInv' /\ batch' = batch
          /\ item' = [item EXCEPT ![cursor] = [status |-> "failed", known |-> item[cursor].known]]
      BY <1>1, <2>1, <2>5, RefusedKept
    <3>2. rows'[Att(cursor)] = 0 /\ serving'[Att(cursor)] = "no"
      BY <1>2, <2>1, <2>5
    <3>3. Safe'
      BY <2>1, <2>2, <3>1, <3>2, LineSafe
    <3> QED BY <1>3, <3>1, <3>3 DEF Inv
  <2> QED BY <1>5, <2>3, <2>4, <2>5 DEF Reply
<1> QED BY <1>4, <1>5 DEF Reply

LEMMA CheckKept ==
  ASSUME Inv, NEW a \in Attempts, NEW valid \in BOOLEAN, NEW editable \in SUBSET SameFile(a),
         CheckUpload(a, valid, editable)
  PROVE  Inv'
<1>1. /\ ClientInv /\ ServerInv /\ confirmed \subseteq Attempts /\ blind \subseteq Attempts
      /\ serving[a] = "sent" /\ UNCHANGED <<removed, jobs, overlapped>>
  BY DEF Inv, ServerInv, ServerTypes, CheckUpload
<1>2. rows[a] = 0
  BY <1>1 DEF ServerInv, ServedIsNew
<1>3. CASE Duplicate(a, editable) \/ ~valid
  <2>1. /\ serving' = [serving EXCEPT ![a] = "no"] /\ UNCHANGED <<rows, confirmed, doc, blind>>
        /\ Reply(a, AnswerRefused)
    BY <1>2, <1>3 DEF CheckUpload
  <2> QED BY <1>1, <1>2, <2>1, EndsKept
<1>4. CASE ~Duplicate(a, editable) /\ valid
  <2>1. /\ serving' = [serving EXCEPT ![a] = "checked"] /\ UNCHANGED client
        /\ blind' = IF SameFile(a) \subseteq editable \ removed THEN blind ELSE blind \cup {a}
        /\ UNCHANGED <<rows, confirmed, doc>>
    BY <1>2, <1>4 DEF CheckUpload
  <2>2. /\ serving' \in [Attempts -> {"no", "sent", "checked"}] /\ serving'[a] = "checked"
        /\ \A b \in Attempts \ {a} : serving'[b] = serving[b]
    BY <1>1, <2>1 DEF ServerInv, ServerTypes
  <2>3. ClientInv' /\ DocTypes'
    BY <1>1, <2>1, ClientKept DEF Inv, DocTypes
  <2>4. blind \subseteq blind' /\ blind' \subseteq Attempts
    BY <1>1, <2>1
  <2>5. ServerTypes' /\ OneDocumentPerFile' /\ ServedIsNew'
    BY <1>1, <1>2, <2>1, <2>2, <2>4
    DEF ServerInv, ServerTypes, OneDocumentPerFile, ServedIsNew
  <2>6. ServedApart'
    <3>1. \A b \in Attempts : serving'[b] # "no" => serving[b] # "no"
      BY <1>1, <2>2
    <3> QED BY <1>1, <3>1 DEF ServerInv, ServedApart
  <2>7. CheckedApart'
    <3>1. ASSUME NEW b \in Attempts, b[1] = a[1], rows[b] = 1 PROVE a \in blind'
      <4>1. b \in SameFile(a)
        BY <3>1 DEF SameFile
      <4>2. ~(SameFile(a) \subseteq editable \ removed)
        BY <1>4, <4>1 DEF Duplicate
      <4> QED BY <2>1, <4>2
    <3> QED BY <1>1, <2>1, <2>2, <2>4, <3>1 DEF ServerInv, CheckedApart
  <2>8. Safe'
    <3>1. batch' = batch /\ item' = item /\ ClientTypes
      BY <1>1, <2>1 DEF client, ClientInv
    <3>2. \A f \in Files : Att(f)' = Att(f) /\ Att(f) \in Attempts
      BY <3>1, AttIs DEF Att
    <3>3. FailedIsSafe'
      BY <1>1, <2>1, <2>2, <3>1, <3>2 DEF Inv, Safe, FailedIsSafe, ToProcess
    <3>4. Unsent'
      BY <1>1, <2>1, <2>2, <3>1 DEF Inv, Safe, Unsent
    <3> QED BY <3>3, <3>4 DEF Safe
  <2> QED BY <2>3, <2>5, <2>6, <2>7, <2>8 DEF Inv, ServerInv
<1> QED BY <1>3, <1>4

LEMMA UploadFailsKept ==
  ASSUME Inv, NEW a \in Attempts, UploadFails(a)
  PROVE  Inv'
<1>1. /\ serving' = [serving EXCEPT ![a] = "no"] /\ Reply(a, AnswerUncertain)
      /\ UNCHANGED <<rows, confirmed, doc, removed, jobs, overlapped, blind>>
  BY DEF UploadFails, history
<1>2. confirmed' \subseteq Attempts
  BY <1>1 DEF Inv, ServerInv, ServerTypes
<1> QED BY <1>1, <1>2, EndsKept

LEMMA StoreKept ==
  ASSUME Inv, NEW a \in Attempts, NEW st \in {"draft", "quarantined"}, StoreUpload(a, st)
  PROVE  Inv'
<1>1. /\ ClientInv /\ ServerInv /\ ClientTypes /\ ServerTypes /\ FailedIsSafe /\ Unsent
      /\ serving[a] = "checked" /\ serving' = [serving EXCEPT ![a] = "no"]
      /\ doc' = [doc EXCEPT ![a] = st] /\ Service!Store(a)
      /\ UNCHANGED <<removed, jobs, overlapped, blind>>
  BY DEF Inv, ClientInv, ServerInv, Safe, StoreUpload, history
<1>2. /\ rows' = [rows EXCEPT ![a] = 1] /\ confirmed' \in {confirmed, confirmed \cup {a}}
  BY <1>1 DEF Service!Store
<1>3. /\ rows' \in [Attempts -> 0 .. 1] /\ rows'[a] = 1
      /\ \A b \in Attempts \ {a} : rows'[b] = rows[b]
  BY <1>1, <1>2 DEF ServerTypes
<1>4. /\ serving' \in [Attempts -> {"no", "sent", "checked"}] /\ serving'[a] = "no"
      /\ \A b \in Attempts \ {a} : serving'[b] = serving[b]
  BY <1>1 DEF ServerTypes
<1>5. ServerTypes' /\ DocTypes'
  BY <1>1, <1>2, <1>3, <1>4 DEF Inv, ServerTypes, DocTypes
<1>6. ServedApart'
  BY <1>1, <1>4 DEF ServerInv, ServedApart
<1>7. CheckedApart' /\ ServedIsNew'
  BY <1>1, <1>3, <1>4 DEF ServerInv, ServedApart, CheckedApart, ServedIsNew
<1>8. OneDocumentPerFile'
  BY <1>1, <1>3 DEF ServerInv, CheckedApart, OneDocumentPerFile
<1>9. ServerInv'
  BY <1>5, <1>6, <1>7, <1>8 DEF ServerInv
<1>10. CASE UNCHANGED client
  <2>1. batch' = batch /\ item' = item
    BY <1>10 DEF client
  <2>2. \A f \in Files : Att(f)' = Att(f) /\ Att(f) \in Attempts
    BY <1>1, <2>1, AttIs DEF Att
  <2>3. FailedIsSafe' /\ Unsent'
    BY <1>1, <1>3, <1>4, <2>1, <2>2 DEF FailedIsSafe, ToProcess, Unsent
  <2> QED BY <1>1, <1>5, <1>9, <1>10, <2>3, ClientKept DEF Inv, Safe
<1>11. CASE Waits("upload", {a})
  <2>1. /\ waiting.kind = "upload" /\ cursor \in Files /\ a = Att(cursor)
        /\ \A f \in Files \ {cursor} : Att(f) # a /\ Att(f) \in Attempts
    BY <1>1, <1>11, OtherLines
  <2>2. \A b \in Attempts \ {Att(cursor)} : /\ rows'[b] = rows[b]
                                            /\ serving'[b] \in {"no", serving[b]}
    BY <1>3, <1>4, <2>1
  <2>3. CASE AnswerUploaded(a)
    <3>1. ClientInv' /\ batch' = batch
      BY <1>1, <1>11, <2>3, UploadedKept
    <3>2. PICK s \in Statuses : item' = [item EXCEPT ![cursor] = [status |-> s, known |-> TRUE]]
      BY <1>1, <1>11, <2>3, UploadedKept
    <3>3. Safe'
      BY <2>1, <2>2, <3>1, <3>2, LineSafe
    <3> QED BY <1>5, <1>9, <3>1, <3>3 DEF Inv
  <2>4. CASE AnswerUncertain
    <3>1. /\ ClientInv' /\ batch' = batch
          /\ item' = [item EXCEPT ![cursor] = [status |-> "uncertain", known |-> item[cursor].known]]
      BY <1>1, <2>1, <2>4, UncertainKept
    <3>2. Safe'
      BY <2>1, <2>2, <3>1, LineSafe
    <3> QED BY <1>5, <1>9, <3>1, <3>2 DEF Inv
  <2> QED BY <1>11, <2>3, <2>4 DEF StoreUpload, Reply
<1> QED BY <1>10, <1>11 DEF StoreUpload, Reply

\* A step that leaves the requests and the stored documents alone and answers the
\* browser with a line that is not offered for another upload.
LEMMA LineKept ==
  ASSUME Inv, UNCHANGED <<serving, rows, confirmed, overlapped, blind>>, DocTypes', ClientInv',
         batch' = batch, cursor \in Files, NEW st, NEW k \in BOOLEAN,
         st \notin {"pending", "failed"} \/ k,
         item' = [item EXCEPT ![cursor] = [status |-> st, known |-> k]]
  PROVE  Inv'
<1>1. ServerInv'
  BY ServerKept DEF Inv
<1>2. \A b \in Attempts \ {Att(cursor)} : /\ rows'[b] = rows[b]
                                          /\ serving'[b] \in {"no", serving[b]}
  OBVIOUS
<1>3. Safe'
  BY <1>2, LineSafe
<1> QED BY <1>1, <1>3 DEF Inv

LEMMA PublishKept ==
  ASSUME Inv, NEW a \in Attempts, NEW answered \in BOOLEAN, Publish(a, answered)
  PROVE  Inv'
<1>1. /\ UNCHANGED <<serving, rows, confirmed, removed, jobs, overlapped, blind>>
      /\ doc' = [doc EXCEPT ![a] = "published"] /\ waiting.kind = "publish"
      /\ Answer("published", TRUE, cursor + 1) \/ AnswerUncertain
  BY DEF Publish, Waits, history
<1>2. DocTypes' /\ ClientInv
  BY <1>1 DEF Inv, DocTypes
<1>3. CASE Answer("published", TRUE, cursor + 1)
  <2>1. "published" \in Statuses
    BY DEF Statuses
  <2>2. /\ ClientInv' /\ batch' = batch /\ cursor \in Files
        /\ item' = [item EXCEPT ![cursor] = [status |-> "published", known |-> TRUE]]
    BY <1>1, <1>2, <1>3, <2>1, AnswerKept
  <2> QED BY <1>1, <1>2, <2>2, LineKept
<1>4. CASE AnswerUncertain
  <2>1. /\ ClientInv' /\ batch' = batch /\ cursor \in Files
        /\ item' = [item EXCEPT ![cursor] = [status |-> "uncertain", known |-> item[cursor].known]]
    BY <1>1, <1>2, <1>4, UncertainKept
  <2>2. PICK k \in BOOLEAN : item' = [item EXCEPT ![cursor] = [status |-> "uncertain", known |-> k]]
    BY <1>2, <2>1 DEF ClientInv, ClientTypes
  <2>3. ClientInv' /\ batch' = batch /\ cursor \in Files /\ "uncertain" \notin {"pending", "failed"}
    BY <2>1
  <2> QED BY <1>1, <1>2, <2>2, <2>3, LineKept
<1> QED BY <1>1, <1>3, <1>4

LEMMA RefusePublishKept ==
  ASSUME Inv, RefusePublish
  PROVE  Inv'
<1>1. /\ UNCHANGED <<serving, rows, confirmed, doc, removed, jobs, overlapped, blind>>
      /\ waiting.kind = "publish" /\ AnswerRefused
  BY DEF RefusePublish, server, history
<1>2. DocTypes' /\ ClientInv /\ item[cursor].known
  BY <1>1 DEF Inv, DocTypes, ClientInv, Shown
<1>3. /\ ClientInv' /\ batch' = batch /\ cursor \in Files
      /\ item' = [item EXCEPT ![cursor] = [status |-> "failed", known |-> item[cursor].known]]
  BY <1>1, <1>2, RefusedKept
<1> QED BY <1>1, <1>2, <1>3, LineKept

LEMMA GiveUpKept ==
  ASSUME Inv, GiveUp
  PROVE  Inv'
<1>1. /\ UNCHANGED <<serving, rows, confirmed, doc, removed, jobs, overlapped, blind>>
      /\ waiting.kind \in {"upload", "publish"} /\ AnswerUncertain
  BY DEF GiveUp, server, history
<1>2. DocTypes' /\ ClientInv
  BY <1>1 DEF Inv, DocTypes
<1>3. /\ ClientInv' /\ batch' = batch /\ cursor \in Files
      /\ item' = [item EXCEPT ![cursor] = [status |-> "uncertain", known |-> item[cursor].known]]
  BY <1>1, <1>2, UncertainKept
<1>4. PICK k \in BOOLEAN : item' = [item EXCEPT ![cursor] = [status |-> "uncertain", known |-> k]]
  BY <1>2, <1>3 DEF ClientInv, ClientTypes
<1>5. ClientInv' /\ batch' = batch /\ cursor \in Files /\ "uncertain" \notin {"pending", "failed"}
  BY <1>3
<1> QED BY <1>1, <1>2, <1>4, <1>5, LineKept

\* Neither the lines nor the requests change.
LEMMA QuietKept ==
  ASSUME Inv, UNCHANGED <<batch, item, serving, rows, confirmed, overlapped, blind>>, DocTypes',
         ClientInv'
  PROVE  Inv'
<1>1. ServerInv'
  BY ServerKept DEF Inv
<1>2. \A a \in Attempts : serving'[a] \in {"no", serving[a]}
  OBVIOUS
<1>3. Safe'
  BY <1>2, StillSafe
<1> QED BY <1>1, <1>3 DEF Inv

LEMMA ModerateKept ==
  ASSUME Inv, NEW a \in Attempts, Moderate(a) \/ Remove(a) \/ Restore(a)
  PROVE  Inv'
<1>1. UNCHANGED <<serving, rows, confirmed, jobs, overlapped, blind>> /\ UNCHANGED client
  BY DEF Moderate, Remove, Restore, history
<1>2. DocTypes'
  BY DEF Inv, DocTypes, Moderate, Remove, Restore
<1>3. batch' = batch /\ item' = item
  BY <1>1 DEF client
<1>4. ClientInv'
  BY <1>1, ClientKept DEF Inv
<1> QED BY <1>1, <1>2, <1>3, <1>4, QuietKept

-----------------------------------------------------------------------------
(* The summaries *)

\* The summary of a run that has ended goes on, fails or is retried, or the page was
\* loaded again: what is covered stays covered.
LEMMA DigestKept ==
  ASSUME Inv, RetryDigest \/ DigestFails \/ Reloaded
  PROVE  Inv'
<1>1. ClientTypes /\ Shown /\ AnnouncedOnce /\ Summaries /\ Covered
  BY DEF Inv, ClientInv
<1>2. /\ UNCHANGED <<batch, option, item, digestPending, notified, overlapped, blind>>
      /\ UNCHANGED <<serving, rows, confirmed, doc, removed, jobs>>
  BY DEF RetryDigest, DigestFails, Reloaded, server, history
<1>3. /\ cursor = 0 \/ waiting.kind \in {"digest", "reload"}
      /\ \/ cursor' = Done /\ waiting' = [kind |-> "digest", ids |-> digestPending]
         \/ cursor' = 0 /\ waiting' = NoRequest
  BY RequestsAre DEF RetryDigest, DigestFails, Reloaded, Running
<1>4. ClientTypes'
  BY <1>1, <1>2, <1>3, FilesAre, RequestsAre DEF ClientTypes, Requests
<1>5. Shown'
  BY <1>2, <1>3, RequestsAre DEF Shown
<1>6. AnnouncedOnce' /\ Summaries'
  BY <1>1, <1>2, <1>3 DEF AnnouncedOnce, Summaries
<1>7. Covered'
  BY <1>1, <1>2, <1>3 DEF Covered, Att
<1>8. DocTypes'
  BY <1>2 DEF Inv, DocTypes
<1> QED BY <1>2, <1>4, <1>5, <1>6, <1>7, <1>8, QuietKept DEF ClientInv

LEMMA QueueDigestKept ==
  ASSUME Inv, NEW answered \in BOOLEAN, QueueDigest(answered)
  PROVE  Inv'
<1>1. ClientTypes /\ Shown /\ AnnouncedOnce /\ Summaries /\ Covered
  BY DEF Inv, ClientInv
<1>2. /\ UNCHANGED <<batch, option, item, serving, rows, confirmed, doc, removed>>
      /\ UNCHANGED <<overlapped, blind>>
      /\ waiting.kind = "digest" /\ jobs' = jobs \cup {waiting.ids}
  BY DEF QueueDigest, history
<1>3. PICK D : D = digestPending
  OBVIOUS
<1>4. waiting.ids = D /\ D \subseteq Attempts /\ jobs' = jobs \cup {D}
  BY <1>1, <1>2, <1>3 DEF Shown, ClientTypes
<1>5. /\ cursor = Done
      /\ \/ /\ notified' = notified \cup D /\ digestPending' = {}
            /\ cursor' = Done /\ waiting' = Reload
         \/ /\ notified' = notified /\ digestPending' = D
            /\ cursor' = 0 /\ waiting' = NoRequest
  BY <1>1, <1>2, <1>3, <1>4 DEF QueueDigest, Shown
<1>6. ClientTypes'
  BY <1>1, <1>2, <1>4, <1>5, FilesAre, RequestsAre DEF ClientTypes
<1>7. Shown'
  BY <1>2, <1>5, RequestsAre DEF Shown
<1>8. batch \in Nat
  BY <1>1, FilesAre DEF ClientTypes
<1>9. /\ \A a \in D : a[2] = batch /\ a \notin notified
      /\ \A j \in jobs : \A a \in j : a[2] <= batch
      /\ \A j \in jobs : (\A a \in j : a[2] < batch) \/ j \subseteq notified \/ j = D
      /\ notified \subseteq UNION jobs
  BY <1>1, <1>3 DEF Summaries
<1>10. ASSUME NEW j \in jobs, j \cap D # {} PROVE j = D
  <2>1. PICK a : a \in j /\ a \in D
    BY <1>10
  <2>2. a[2] = batch /\ a \notin notified
    BY <1>9, <2>1
  <2>3. ~(a[2] < batch)
    BY <1>8, <2>2
  <2> QED BY <1>9, <2>1, <2>2, <2>3
<1>11. AnnouncedOnce'
  BY <1>1, <1>4, <1>10 DEF AnnouncedOnce
<1>12. \A j \in jobs' : \A a \in j : a[2] <= batch
  <2>1. \A a \in D : a[2] <= batch
    BY <1>8, <1>9
  <2> QED BY <1>4, <1>9, <2>1
<1>13. \A j \in jobs' : (\A a \in j : a[2] < batch) \/ j \subseteq notified' \/ j = digestPending'
  <2>1. \A j \in jobs' : (\A a \in j : a[2] < batch) \/ j \subseteq notified \/ j = D
    BY <1>4, <1>9
  <2> QED BY <1>5, <2>1
<1>14. notified' \subseteq UNION jobs'
  BY <1>4, <1>5, <1>9
<1>15. \A a \in digestPending' : a[2] = batch /\ a \notin notified'
  BY <1>5, <1>9
<1>16. Summaries'
  BY <1>2, <1>5, RequestsAre, <1>12, <1>13, <1>14, <1>15 DEF Summaries
<1>17. Covered'
  <2>1. notified' \cup digestPending' = notified \cup digestPending
    BY <1>3, <1>5
  <2> QED BY <1>1, <1>2, <2>1 DEF Covered, Att
<1>18. DocTypes'
  BY <1>2 DEF Inv, DocTypes
<1> QED BY <1>2, <1>6, <1>7, <1>11, <1>16, <1>17, <1>18, QuietKept DEF ClientInv

LEMMA EndRunKept ==
  ASSUME Inv, EndRun
  PROVE  Inv'
<1>1. ClientTypes /\ Shown /\ AnnouncedOnce /\ Summaries /\ Covered
  BY DEF Inv, ClientInv
<1>2. /\ UNCHANGED <<batch, option, item, notified, overlapped, blind>>
      /\ UNCHANGED <<serving, rows, confirmed, doc, removed, jobs>>
      /\ cursor = Done /\ waiting = NoRequest
  BY DEF EndRun, server, history
<1>3. PICK T : T = ToAnnounce
  OBVIOUS
<1>4. /\ T \subseteq Attempts /\ \A a \in T : a[2] = batch /\ a \notin notified
      /\ \A f \in Files : item[f].status = "published" => Att(f) \in notified \cup T
  BY <1>1, <1>3, AttIs DEF ToAnnounce
<1>5. digestPending = {}
  BY <1>1, <1>2, FilesAre, RequestsAre DEF Summaries
<1>6. DocTypes'
  BY <1>2 DEF Inv, DocTypes
<1>7. CASE /\ digestPending' = T /\ waiting' = [kind |-> "digest", ids |-> T]
           /\ cursor' = cursor
  <2>1. ClientTypes'
    BY <1>1, <1>2, <1>4, <1>7 DEF ClientTypes, Requests
  <2>2. Shown'
    BY <1>2, <1>7 DEF Shown
  <2>3. \A j \in jobs : (\A a \in j : a[2] < batch) \/ j \subseteq notified
    <3>1. \A j \in jobs : (\A a \in j : a[2] < batch) \/ j \subseteq notified \/ j = {}
      BY <1>1, <1>5 DEF Summaries
    <3> QED BY <3>1
  <2>4. AnnouncedOnce' /\ Summaries'
    BY <1>1, <1>2, <1>4, <1>7, <2>3 DEF AnnouncedOnce, Summaries
  <2>5. Covered'
    BY <1>2, <1>4, <1>7 DEF Covered, Att
  <2> QED BY <1>2, <1>6, <2>1, <2>2, <2>4, <2>5, QuietKept DEF ClientInv
<1>8. CASE /\ waiting' = Reload /\ UNCHANGED <<digestPending, cursor>>
           /\ option # "announce" \/ T = {}
  <2>1. ClientTypes'
    BY <1>1, <1>2, <1>8, RequestsAre DEF ClientTypes
  <2>2. Shown'
    BY <1>2, <1>8, RequestsAre DEF Shown
  <2>3. AnnouncedOnce' /\ Summaries'
    BY <1>1, <1>2, <1>5, <1>8 DEF AnnouncedOnce, Summaries
  <2>4. Covered'
    BY <1>2, <1>4, <1>8 DEF Covered, Att
  <2> QED BY <1>2, <1>6, <2>1, <2>2, <2>3, <2>4, QuietKept DEF ClientInv
<1> QED BY <1>3, <1>7, <1>8 DEF EndRun

-----------------------------------------------------------------------------
(* The loop of the browser *)

LEMMA LoopStepKept ==
  ASSUME Inv, Run \/ Skip
  PROVE  Inv'
<1>1. ClientTypes /\ Shown /\ AnnouncedOnce /\ Summaries /\ Covered /\ ClientInv
  BY DEF Inv, ClientInv
<1>2. /\ UNCHANGED <<batch, option, item, waiting, digestPending, notified, overlapped, blind>>
      /\ UNCHANGED <<serving, rows, confirmed, doc, removed, jobs>>
  BY DEF Run, Skip, server, history
<1>3. DocTypes'
  BY <1>2 DEF Inv, DocTypes
<1>4. /\ waiting.kind = "none" /\ waiting = NoRequest /\ digestPending = {}
      /\ cursor' \in 0 .. Done /\ cursor' # 0
  <2>1. CASE Run
    <3>1. cursor = 0 /\ digestPending = {} /\ cursor' = 1
      BY <2>1 DEF Run, Running
    <3>2. waiting.kind = "none"
      BY <1>1, <3>1, FilesAre DEF Shown, ClientTypes, Requests
    <3> QED BY <1>1, <3>1, <3>2, FilesAre DEF Shown
  <2>2. CASE Skip
    <3>1. cursor \in Files /\ waiting = NoRequest /\ cursor' = cursor + 1
      BY <2>2 DEF Skip, AtItem
    <3> QED BY <1>1, <3>1, FilesAre, RequestsAre DEF Summaries
  <2> QED BY <2>1, <2>2
<1>5. ClientTypes'
  BY <1>1, <1>2, <1>4 DEF ClientTypes
<1>6. Shown'
  BY <1>2, <1>4, RequestsAre DEF Shown
<1>7. AnnouncedOnce' /\ Summaries' /\ Covered'
  BY <1>1, <1>2, <1>4 DEF AnnouncedOnce, Summaries, Covered
<1> QED BY <1>2, <1>3, <1>5, <1>6, <1>7, QuietKept DEF ClientInv

LEMMA NewBatchKept ==
  ASSUME Inv, NEW o \in {"draft", "publish", "announce"}, NewBatch(o)
  PROVE  Inv'
<1>1. ClientTypes /\ Shown /\ AnnouncedOnce /\ Summaries /\ Covered
  BY DEF Inv, ClientInv
<1>2. /\ cursor = 0 /\ batch < MaxBatches /\ batch' = batch + 1 /\ option' = o
      /\ item' = [f \in Files |-> Pending] /\ digestPending' = {} /\ notified' = {}
      /\ UNCHANGED <<cursor, waiting, overlapped, blind>>
      /\ UNCHANGED <<serving, rows, confirmed, doc, removed, jobs>>
  BY DEF NewBatch, Running, server, history
<1>3. waiting.kind = "none"
  BY <1>1, <1>2, FilesAre DEF Shown, ClientTypes, Requests
<1>4. batch \in Nat /\ batch' \in 1 .. MaxBatches
  BY <1>1, <1>2, FilesAre DEF ClientTypes
<1>5. ClientTypes'
  BY <1>1, <1>2, <1>4, RequestsAre DEF ClientTypes
<1>6. Shown'
  BY <1>1, <1>2, <1>3 DEF Shown
<1>7. \A f \in Files : item'[f].status = "pending"
  BY <1>2, RequestsAre
<1>8. \A j \in jobs : \A a \in j : a[2] < batch' /\ a[2] <= batch'
  <2>1. ASSUME NEW j \in jobs, NEW a \in j PROVE a[2] < batch' /\ a[2] <= batch'
    <3>1. a[2] \in Nat
      <4>1. a \in Files \X (1 .. MaxBatches)
        BY <1>1 DEF ClientTypes, Attempts
      <4> QED BY <4>1, FilesAre
    <3>2. a[2] <= batch
      BY <1>1 DEF Summaries
    <3> QED BY <1>2, <1>4, <3>1, <3>2
  <2> QED BY <2>1
<1>9. Summaries'
  BY <1>2, <1>8 DEF Summaries
<1>10. AnnouncedOnce' /\ Covered'
  BY <1>1, <1>2, <1>7 DEF AnnouncedOnce, Covered
<1>11. ServerInv' /\ DocTypes'
  BY <1>2, ServerKept DEF Inv, DocTypes
<1>12. \A a \in Attempts : a[2] >= batch' => rows'[a] = 0 /\ serving'[a] = "no"
  <2>1. ASSUME NEW a \in Attempts, a[2] >= batch' PROVE a[2] > batch
    <3>1. a[2] \in Nat
      BY FilesAre DEF Attempts
    <3> QED BY <1>2, <1>4, <2>1, <3>1
  <2> QED BY <1>2, <2>1 DEF Inv, Safe, Unsent
<1>13. FailedIsSafe'
  <2>1. \A f \in Files : Att(f)' \in Attempts /\ Att(f)'[2] >= batch'
    BY <1>4, FilesAre DEF Att, Attempts
  <2> QED BY <1>12, <2>1 DEF FailedIsSafe
<1>14. Unsent'
  <2>1. \A a \in Attempts : a[2] > batch' => a[2] >= batch'
    BY <1>4, FilesAre DEF Attempts
  <2> QED BY <1>12, <2>1 DEF Unsent
<1> QED BY <1>5, <1>6, <1>9, <1>10, <1>11, <1>13, <1>14 DEF Inv, ClientInv, Safe

LEMMA SendUploadKept ==
  ASSUME Inv, SendUpload
  PROVE  Inv'
<1>1. ClientTypes /\ ClientInv /\ ServerInv /\ ServerTypes
  BY DEF Inv, ClientInv, ServerInv
<1>2. PICK a : a = Att(cursor)
  OBVIOUS
<1>3. /\ cursor \in Files /\ waiting = NoRequest
      /\ item' = [item EXCEPT ![cursor] = [status |-> "uploading", known |-> FALSE]]
      /\ waiting' = [kind |-> "upload", ids |-> {a}]
      /\ serving' = [serving EXCEPT ![a] = IF serving[a] = "no" THEN "sent" ELSE serving[a]]
      /\ overlapped' = IF \E b \in 1 .. MaxBatches : serving[<<cursor, b>>] # "no"
                       THEN overlapped \cup {cursor} ELSE overlapped
      /\ UNCHANGED <<batch, option, cursor, digestPending, notified>>
      /\ UNCHANGED <<rows, confirmed, doc, removed, jobs, blind>>
      /\ ToProcess(cursor) /\ ~item[cursor].known
  BY <1>2 DEF SendUpload, AtItem, Show
<1>4. a \in Attempts /\ a[1] = cursor /\ "uploading" \in Statuses
      /\ \A f \in Files \ {cursor} : Att(f) # a /\ Att(f) \in Attempts
  BY <1>1, <1>2, <1>3, AttIs DEF Statuses
<1>5. item' \in [Files -> [status : Statuses, known : BOOLEAN]]
      /\ item'[cursor].status = "uploading" /\ ~item'[cursor].known
  BY <1>1, <1>3, <1>4 DEF ClientTypes
<1>6. Att(cursor)' = a
  BY <1>2, <1>3 DEF Att
<1>7. waiting' \in Requests
      /\ waiting'.kind = "upload" /\ waiting'.ids = {a}
  BY <1>3, <1>4 DEF Requests
<1>8. Shown'
  BY <1>3, <1>5, <1>6, <1>7 DEF Shown
<1>9. cursor # 0 /\ cursor \in 0 .. Done /\ waiting.kind = "none"
  BY <1>1, <1>3, FilesAre, RequestsAre DEF ClientTypes
<1>10. ClientInv'
  BY <1>1, <1>3, <1>5, <1>7, <1>8, <1>9, LoopKept
<1>11. /\ serving' \in [Attempts -> {"no", "sent", "checked"}]
       /\ \A b \in Attempts \ {a} : serving'[b] = serving[b]
       /\ serving'[a] = "checked" => serving[a] = "checked"
  BY <1>1, <1>3, <1>4 DEF ServerTypes
<1>12. overlapped \subseteq overlapped' /\ overlapped' \subseteq Files
  BY <1>1, <1>3 DEF ServerTypes
<1>13. ASSUME NEW b \in Attempts, b[1] = cursor, serving[b] # "no" PROVE cursor \in overlapped'
  <2>1. PICK n \in 1 .. MaxBatches : b = <<cursor, n>>
    BY <1>13 DEF Attempts
  <2> QED BY <1>3, <1>13, <2>1
<1>14. ServerTypes' /\ DocTypes'
  BY <1>1, <1>3, <1>11, <1>12 DEF Inv, ServerTypes, DocTypes
<1>15. ServedApart'
  <2>1. ASSUME NEW b \in Attempts, NEW c \in Attempts, b # c, b[1] = c[1],
               serving'[b] # "no", serving'[c] # "no"
        PROVE  b[1] \in overlapped'
    <3>1. CASE b = a
      BY <1>4, <1>11, <1>13, <2>1, <3>1
    <3>2. CASE c = a
      BY <1>4, <1>11, <1>13, <2>1, <3>2
    <3>3. CASE b # a /\ c # a
      BY <1>1, <1>11, <1>12, <2>1, <3>3 DEF ServerInv, ServedApart
    <3> QED BY <3>1, <3>2, <3>3
  <2> QED BY <2>1 DEF ServedApart
<1>16. CheckedApart'
  <2>1. \A b \in Attempts : serving'[b] = "checked" => serving[b] = "checked"
    BY <1>11
  <2> QED BY <1>1, <1>3, <1>12, <2>1 DEF ServerInv, CheckedApart
<1>17. OneDocumentPerFile' /\ ServedIsNew'
  <2>1. rows[a] = 0
    BY <1>2, <1>3 DEF Inv, Safe, FailedIsSafe
  <2> QED BY <1>1, <1>3, <1>11, <1>12, <2>1 DEF ServerInv, OneDocumentPerFile, ServedIsNew
<1>18. Safe'
  <2>1. \A b \in Attempts \ {Att(cursor)} : /\ rows'[b] = rows[b]
                                            /\ serving'[b] \in {"no", serving[b]}
    BY <1>2, <1>3, <1>11
  <2>2. "uploading" \notin {"pending", "failed"}
    OBVIOUS
  <2> QED BY <1>3, <2>1, <2>2, LineSafe
<1> QED BY <1>10, <1>14, <1>15, <1>16, <1>17, <1>18 DEF Inv, ServerInv

LEMMA SendPublishKept ==
  ASSUME Inv, SendPublish
  PROVE  Inv'
<1>1. ClientTypes /\ ClientInv
  BY DEF Inv, ClientInv
<1>2. /\ cursor \in Files /\ waiting = NoRequest
      /\ item' = [item EXCEPT ![cursor] = [status |-> "publishing", known |-> TRUE]]
      /\ waiting' = [kind |-> "publish", ids |-> {Att(cursor)}]
      /\ UNCHANGED <<batch, option, cursor, digestPending, notified, overlapped, blind>>
      /\ UNCHANGED <<serving, rows, confirmed, doc, removed, jobs>>
  BY DEF SendPublish, AtItem, Show, server, history
<1>3. Att(cursor) \in Attempts /\ "publishing" \in Statuses /\ Att(cursor)' = Att(cursor)
  BY <1>1, <1>2, AttIs DEF Statuses, Att
<1>4. item' \in [Files -> [status : Statuses, known : BOOLEAN]] /\ item'[cursor].known
  BY <1>1, <1>2, <1>3 DEF ClientTypes
<1>5. waiting' \in Requests
      /\ waiting'.kind = "publish" /\ waiting'.ids = {Att(cursor)}
  BY <1>2, <1>3 DEF Requests
<1>6. Shown'
  BY <1>2, <1>3, <1>4, <1>5 DEF Shown
<1>7. cursor # 0 /\ cursor \in 0 .. Done /\ waiting.kind = "none"
  BY <1>1, <1>2, FilesAre, RequestsAre DEF ClientTypes
<1>8. ClientInv' /\ DocTypes'
  BY <1>1, <1>2, <1>4, <1>5, <1>6, <1>7, LoopKept DEF Inv, DocTypes
<1> QED BY <1>2, <1>8, LineKept

-----------------------------------------------------------------------------
(* The theorems *)

LEMMA InitInv == Init => Inv
<1> SUFFICES ASSUME Init PROVE Inv
  OBVIOUS
<1>1. rows = [a \in Attempts |-> 0] /\ confirmed = {}
  BY DEF Init, Service!Init
<1>2. ClientTypes
  BY FilesAre, RequestsAre DEF Init, ClientTypes
<1>3. Shown /\ AnnouncedOnce /\ Summaries
  BY RequestsAre DEF Init, Shown, AnnouncedOnce, Summaries
<1>4. Covered
  BY RequestsAre DEF Init, Covered
<1>5. ServerTypes /\ DocTypes
  BY <1>1 DEF Init, ServerTypes, DocTypes
<1>6. ServedApart /\ CheckedApart
  BY DEF Init, ServedApart, CheckedApart
<1>7. OneDocumentPerFile /\ ServedIsNew
  BY <1>1 DEF OneDocumentPerFile, ServedIsNew
<1>8. \A a \in Attempts : rows[a] = 0 /\ serving[a] = "no"
  BY <1>1 DEF Init
<1>9. Safe
  BY <1>2, <1>8, AttIs DEF Safe, FailedIsSafe, Unsent
<1> QED BY <1>2, <1>3, <1>4, <1>5, <1>6, <1>7, <1>9 DEF Inv, ClientInv, ServerInv

LEMMA InvStep == Inv /\ [Next]_vars => Inv'
<1>1. ASSUME Inv, UNCHANGED vars PROVE Inv'
  <2>1. /\ UNCHANGED client /\ jobs' = jobs /\ doc' = doc /\ removed' = removed
        /\ UNCHANGED <<batch, item, serving, rows, confirmed, overlapped, blind>>
    BY <1>1 DEF vars, client
  <2>2. DocTypes'
    BY <1>1, <2>1 DEF Inv, DocTypes
  <2> QED BY <1>1, <2>1, <2>2, ClientKept, QuietKept DEF Inv
<1>2. ASSUME Inv, Browser PROVE Inv'
  BY <1>2, LoopStepKept, SendUploadKept, SendPublishKept, GiveUpKept, EndRunKept, DigestKept,
     NewBatchKept DEF Browser
<1>3. ASSUME Inv, Server PROVE Inv'
  BY <1>3, LoseKept, UploadFailsKept, ModerateKept, CheckKept, PublishKept, StoreKept,
     RefusePublishKept, DigestKept, QueueDigestKept DEF Server
<1> QED BY <1>1, <1>2, <1>3 DEF Next

LEMMA InvKept == Spec => []Inv
BY InitInv, InvStep, PTL DEF Spec

\* The lines on the screen have a status the page knows, and the loop and its
\* requests stay in the batch (batch-import.tsx run).
THEOREM TypeCorrect == Spec => []TypeOK
<1>1. Inv => TypeOK
  BY DEF Inv, ClientInv, ClientTypes, Requests, ServerInv, ServerTypes, DocTypes, TypeOK
<1> QED BY <1>1, InvKept, PTL

\* A line that is offered for another try has made no document and none is being
\* made of it, and a file makes one document over all batches, unless it was sent
\* again while an earlier request was still served or while the document it had made
\* was out of the search's sight, in the trash or where the user may not edit
\* (batch-import.tsx run, document-management.ts rejectDuplicate).
THEOREM AlwaysImportedOnce == Spec => []ImportedOnce
<1>1. Inv => ImportedOnce
  BY DEF Inv, ServerInv, Safe, ImportedOnce
<1> QED BY <1>1, InvKept, PTL

\* However often a summary is retried, no document is announced by two of them,
\* and after an import that is over every publication was announced
\* (batch-import.tsx queueSummary, controllers.ts publicationDigest).
THEOREM AlwaysAnnouncedOnce == Spec => []AnnouncedExactlyOnce
<1>1. Inv => AnnouncedExactlyOnce
  <2> SUFFICES ASSUME Inv PROVE AnnouncedOnce /\ PublicationsAnnounced
    BY DEF AnnouncedExactlyOnce
  <2>1. AnnouncedOnce /\ Covered /\ notified \subseteq UNION jobs
    BY DEF Inv, ClientInv, Summaries
  <2> QED BY <2>1 DEF Covered, PublicationsAnnounced, Running
<1> QED BY <1>1, InvKept, PTL
=============================================================================
