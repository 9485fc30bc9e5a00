---------------------------- MODULE BatchImport -----------------------------
(***************************************************************************)
(* The batch import of the web client against the upload service           *)
(* (batch-import.tsx, and what controllers.ts does with its requests).     *)
(*                                                                         *)
(* A browser sends one request at a time and gives up after two minutes; a *)
(* request it gave up goes on at the server, and requests and answers get  *)
(* lost.  Uploads are those of UploadOnce, which VersionHistory            *)
(* implements: an attempt is a file of a batch, since an item keeps its    *)
(* uploadRequestId until "New batch" makes new items.                      *)
(***************************************************************************)
EXTENDS Naturals, FiniteSets

CONSTANTS
  Files,        \* 1 .. N: the files chosen, in the order they are processed
  MaxBatches,   \* bound on the batches made of the same files
  Touched       \* bound: the attempts whose documents a moderator changes meanwhile

ASSUME BatchAssumption ==
  /\ MaxBatches \in Nat \ {0}
  /\ IsFiniteSet(Files) /\ Files = 1 .. Cardinality(Files)
  /\ Touched \subseteq Files \X (1 .. MaxBatches)

VARIABLES
  batch,          \* number of the batch on the screen
  option,         \* "draft", "publish" without mail, or "announce" by a summary
  item,           \* per file: the status shown and whether documentId is known
  cursor,         \* the item the loop is at; 0 when no run is in progress
  waiting,        \* the request the browser waits for
  digestPending,  \* documents of a summary that was not acknowledged
  notified,       \* documents of acknowledged summaries
  serving,        \* upload requests at the server, and whether they were checked
  rows,           \* UploadOnce: the documents made by each attempt
  confirmed,      \* UploadOnce: attempts answered with success
  doc,            \* per attempt: the status of its document
  removed,        \* attempts whose document is in the trash
  jobs,           \* summaries in the mail queue, named by their documents
  overlapped,     \* files sent again while a request for them was still served
  blind           \* attempts let through with a document of their file out of sight

client == <<batch, option, item, cursor, waiting, digestPending, notified>>
server == <<serving, rows, confirmed, doc, removed, jobs>>
history == <<overlapped, blind>>
vars == <<batch, option, item, cursor, waiting, digestPending, notified,
          serving, rows, confirmed, doc, removed, jobs, overlapped, blind>>

N == Cardinality(Files)
Attempts == Files \X (1 .. MaxBatches)
Att(f) == <<f, batch>>

Service == INSTANCE UploadOnce WITH closed <- FALSE

Statuses == {"pending", "uploading", "draft", "publishing", "published",
             "failed", "uncertain", "quarantined"}
Pending == [status |-> "pending", known |-> FALSE]
NoRequest == [kind |-> "none", ids |-> {}]
Reload == [kind |-> "reload", ids |-> {}]     \* onComplete: the page loads its list again

Running == cursor # 0
Done == N + 1     \* the loop has ended: the summary and the reload are due

Init ==
  /\ batch = 1 /\ option \in {"draft", "publish", "announce"}
  /\ item = [f \in Files |-> Pending]
  /\ cursor = 0 /\ waiting = NoRequest
  /\ digestPending = {} /\ notified = {}
  /\ serving = [a \in Attempts |-> "no"]
  /\ Service!Init
  /\ doc = [a \in Attempts |-> "none"]
  /\ removed = {} /\ jobs = {}
  /\ overlapped = {} /\ blind = {}

-----------------------------------------------------------------------------
(* The browser *)

ToProcess(f) == item[f].status \in {"pending", "failed"}

\* "Process batch" is enabled while no summary is pending.
Run ==
  /\ ~Running /\ digestPending = {}
  /\ \E f \in Files : ToProcess(f)
  /\ cursor' = 1
  /\ UNCHANGED <<batch, option, item, waiting, digestPending, notified>>
  /\ UNCHANGED server /\ UNCHANGED history

\* "New batch" forgets everything about the previous one.
NewBatch(o) ==
  /\ ~Running /\ batch < MaxBatches
  /\ batch' = batch + 1 /\ option' = o
  /\ item' = [f \in Files |-> Pending]
  /\ digestPending' = {} /\ notified' = {}
  /\ UNCHANGED <<cursor, waiting>> /\ UNCHANGED server /\ UNCHANGED history

AtItem == Running /\ cursor \in Files /\ waiting = NoRequest
Show(f, st, k) == item' = [item EXCEPT ![f] = [status |-> st, known |-> k]]

Skip ==
  /\ AtItem
  /\ ~ToProcess(cursor) \/ (item[cursor].known /\ option = "draft")
  /\ cursor' = cursor + 1
  /\ UNCHANGED <<batch, option, item, waiting, digestPending, notified>>
  /\ UNCHANGED server /\ UNCHANGED history

\* The upload of an item without a document.
SendUpload ==
  /\ AtItem /\ ToProcess(cursor) /\ ~item[cursor].known
  /\ Show(cursor, "uploading", FALSE)
  /\ waiting' = [kind |-> "upload", ids |-> {Att(cursor)}]
  /\ serving' = [serving EXCEPT ![Att(cursor)] = IF @ = "no" THEN "sent" ELSE @]
  /\ overlapped' = IF \E b \in 1 .. MaxBatches : serving[<<cursor, b>>] # "no"
                   THEN overlapped \cup {cursor} ELSE overlapped
  /\ UNCHANGED <<batch, option, cursor, digestPending, notified>>
  /\ UNCHANGED <<rows, confirmed, doc, removed, jobs, blind>>

SendPublish ==
  /\ AtItem /\ ToProcess(cursor) /\ item[cursor].known /\ option # "draft"
  /\ Show(cursor, "publishing", TRUE)
  /\ waiting' = [kind |-> "publish", ids |-> {Att(cursor)}]
  /\ UNCHANGED <<batch, option, cursor, digestPending, notified>>
  /\ UNCHANGED server /\ UNCHANGED history

\* The outcome of the request for the current item: what is shown, and whether the
\* loop goes on, or on to publication, or stops.
Answer(st, k, next) ==
  /\ Show(cursor, st, k)
  /\ cursor' = next
  /\ waiting' = NoRequest
  /\ UNCHANGED <<batch, option, digestPending, notified>>

AnswerUploaded(a) ==
  IF doc'[a] = "quarantined" THEN Answer("quarantined", TRUE, cursor + 1)
  ELSE IF option = "draft" THEN Answer("draft", TRUE, cursor + 1)
  ELSE /\ Show(cursor, "publishing", TRUE)
       /\ waiting' = [kind |-> "publish", ids |-> {a}]
       /\ UNCHANGED <<batch, option, cursor, digestPending, notified>>

\* A refusal: the loop goes on with the next item, or stops (401, 403, 404).
AnswerRefused == \E next \in {cursor + 1, Done} : Answer("failed", item[cursor].known, next)

\* Fault: an answer that did not come counts as a failure.
StatusWithoutAnswer_Failed == "failed"

StatusWithoutAnswer == "uncertain"

\* A timeout, a lost answer or a 5xx.
AnswerUncertain == Answer(StatusWithoutAnswer, item[cursor].known, cursor + 1)

Waits(kind, ids) == waiting = [kind |-> kind, ids |-> ids]

\* Fault: requests have no timer.
GiveUp_NoTimer == FALSE /\ UNCHANGED vars

\* The browser gives up, or the request never arrives.
GiveUp ==
  /\ waiting.kind \in {"upload", "publish"}
  /\ AnswerUncertain
  /\ UNCHANGED server /\ UNCHANGED history

-----------------------------------------------------------------------------
(* The server *)

\* A request that has not been looked at yet is lost.
LoseUpload(a) ==
  /\ serving[a] = "sent" /\ ~Waits("upload", {a})
  /\ serving' = [serving EXCEPT ![a] = "no"]
  /\ UNCHANGED <<rows, confirmed, doc, removed, jobs>>
  /\ UNCHANGED client /\ UNCHANGED history

\* Fault: the checksum is not looked for.
Duplicate_Never(a, editable) == FALSE

\* The documents that have the file of an attempt.
SameFile(a) == {b \in Attempts : b[1] = a[1] /\ rows[b] = 1}

\* rejectDuplicate: the same file is that of a document which is not in the trash and
\* is filed where the user may edit.
Duplicate(a, editable) == (SameFile(a) \cap editable) \ removed # {}

\* upload answers the browser if it still waits for this attempt.
Reply(a, answer) ==
  IF Waits("upload", {a}) THEN answer ELSE UNCHANGED client

\* An attempt that was stored is answered with its document, or refused once that is
\* in the trash; a duplicate, a missing permission or an invalid file is refused.
CheckUpload(a, valid, editable) ==
  /\ serving[a] = "sent"
  /\ IF rows[a] = 1 /\ a \notin removed
     THEN /\ serving' = [serving EXCEPT ![a] = "no"]
          /\ Service!Confirm(a) /\ UNCHANGED <<doc, blind>>
          /\ Reply(a, AnswerUploaded(a))
     ELSE IF rows[a] = 1 \/ Duplicate(a, editable) \/ ~valid
     THEN /\ serving' = [serving EXCEPT ![a] = "no"]
          /\ UNCHANGED <<rows, confirmed, doc, blind>>
          /\ Reply(a, AnswerRefused)
     ELSE /\ serving' = [serving EXCEPT ![a] = "checked"]
          /\ blind' = IF SameFile(a) \subseteq editable \ removed THEN blind ELSE blind \cup {a}
          /\ UNCHANGED <<rows, confirmed, doc>> /\ UNCHANGED client
  /\ UNCHANGED <<removed, jobs, overlapped>>

\* The document is stored as a draft, or in quarantine.  The answer may be a 5xx
\* all the same, when the audit event cannot be written, and only a browser that
\* still waits is told.
StoreUpload(a, st) ==
  /\ serving[a] = "checked"
  /\ serving' = [serving EXCEPT ![a] = "no"]
  /\ Service!Store(a)
  /\ doc' = [doc EXCEPT ![a] = st]
  /\ a \in confirmed' => Waits("upload", {a})
  /\ IF a \in confirmed' THEN Reply(a, AnswerUploaded(a)) ELSE Reply(a, AnswerUncertain)
  /\ UNCHANGED <<removed, jobs>> /\ UNCHANGED history

\* Storage, scan or transaction fail.
UploadFails(a) ==
  /\ serving[a] = "checked"
  /\ serving' = [serving EXCEPT ![a] = "no"]
  /\ Reply(a, AnswerUncertain)
  /\ UNCHANGED <<rows, confirmed, doc, removed, jobs>> /\ UNCHANGED history

\* transition to PUBLISHED: refused for a document in quarantine or in the trash, or
\* for lack of permission.
Publish(a, answered) ==
  /\ Waits("publish", {a})
  /\ doc[a] \in {"draft", "published"} /\ a \notin removed
  /\ doc' = [doc EXCEPT ![a] = "published"]
  /\ IF answered THEN Answer("published", TRUE, cursor + 1) ELSE AnswerUncertain
  /\ UNCHANGED <<serving, rows, confirmed, removed, jobs>> /\ UNCHANGED history

RefusePublish ==
  /\ waiting.kind = "publish"
  /\ AnswerRefused
  /\ UNCHANGED server /\ UNCHANGED history

\* A moderator publishes or unpublishes a document of the batch.
Moderate(a) ==
  /\ a \in Touched /\ doc[a] \in {"draft", "published"} /\ a \notin removed
  /\ doc' = [doc EXCEPT ![a] = IF @ = "draft" THEN "published" ELSE "draft"]
  /\ UNCHANGED <<serving, rows, confirmed, removed, jobs>>
  /\ UNCHANGED client /\ UNCHANGED history

\* Or moves it to the trash, where it is archived, and gets it back.
Remove(a) ==
  /\ a \in Touched /\ rows[a] = 1 /\ a \notin removed
  /\ removed' = removed \cup {a}
  /\ doc' = [doc EXCEPT ![a] = IF @ = "published" THEN "draft" ELSE @]
  /\ UNCHANGED <<serving, rows, confirmed, jobs>>
  /\ UNCHANGED client /\ UNCHANGED history

Restore(a) ==
  /\ a \in removed
  /\ removed' = removed \ {a}
  /\ UNCHANGED <<serving, rows, confirmed, doc, jobs>>
  /\ UNCHANGED client /\ UNCHANGED history

-----------------------------------------------------------------------------
(* The summary of the publications *)

\* Fault: documents already announced are listed again.
ToAnnounce_All == {Att(f) : f \in {g \in Files : item[g].status = "published"}}

ToAnnounce == {Att(f) : f \in {g \in Files : item[g].status = "published"}} \ notified

\* The loop has ended: the summary is sent, if one is wanted and there is anything
\* to say; otherwise the page loads its documents again.
EndRun ==
  /\ cursor = Done /\ waiting = NoRequest
  /\ IF option = "announce" /\ ToAnnounce # {}
     THEN /\ digestPending' = ToAnnounce
          /\ waiting' = [kind |-> "digest", ids |-> ToAnnounce]
     ELSE waiting' = Reload /\ UNCHANGED digestPending
  /\ UNCHANGED <<batch, option, item, cursor, notified>>
  /\ UNCHANGED server /\ UNCHANGED history

RetryDigest ==
  /\ ~Running /\ digestPending # {}
  /\ cursor' = Done
  /\ waiting' = [kind |-> "digest", ids |-> digestPending]
  /\ UNCHANGED <<batch, option, item, digestPending, notified>>
  /\ UNCHANGED server /\ UNCHANGED history

\* Every document must be published; the job is named by its documents, so the
\* queue keeps one.
QueueDigest(answered) ==
  /\ waiting.kind = "digest"
  /\ \A a \in waiting.ids : doc[a] = "published"
  /\ jobs' = jobs \cup {waiting.ids}
  /\ IF answered
     THEN /\ notified' = notified \cup waiting.ids /\ digestPending' = {}
          /\ waiting' = Reload /\ UNCHANGED cursor
     ELSE /\ cursor' = 0 /\ waiting' = NoRequest
          /\ UNCHANGED <<notified, digestPending>>
  /\ UNCHANGED <<batch, option, item, serving, rows, confirmed, doc, removed>>
  /\ UNCHANGED history

\* Fault: a summary that failed is forgotten.
DigestFails_Forgotten ==
  /\ waiting.kind = "digest"
  /\ cursor' = 0 /\ waiting' = NoRequest /\ digestPending' = {}
  /\ UNCHANGED <<batch, option, item, notified>>
  /\ UNCHANGED server /\ UNCHANGED history

\* A 404, a full queue or no answer: the summary stays pending.
DigestFails ==
  /\ waiting.kind = "digest"
  /\ cursor' = 0 /\ waiting' = NoRequest
  /\ UNCHANGED <<batch, option, item, digestPending, notified>>
  /\ UNCHANGED server /\ UNCHANGED history

\* The list came, or an error: the run is finished.
Reloaded ==
  /\ waiting = Reload
  /\ cursor' = 0 /\ waiting' = NoRequest
  /\ UNCHANGED <<batch, option, item, digestPending, notified>>
  /\ UNCHANGED server /\ UNCHANGED history

-----------------------------------------------------------------------------
Browser ==
  \/ Run \/ Skip \/ SendUpload \/ SendPublish \/ GiveUp \/ EndRun \/ RetryDigest \/ Reloaded
  \/ \E o \in {"draft", "publish", "announce"} : NewBatch(o)

Server ==
  \/ \E a \in Attempts :
       \/ LoseUpload(a) \/ UploadFails(a) \/ Moderate(a) \/ Remove(a) \/ Restore(a)
       \/ \E b \in BOOLEAN : Publish(a, b)
       \/ \E b \in BOOLEAN, editable \in SUBSET SameFile(a) : CheckUpload(a, b, editable)
       \/ \E st \in {"draft", "quarantined"} : StoreUpload(a, st)
  \/ RefusePublish \/ DigestFails
  \/ \E b \in BOOLEAN : QueueDigest(b)

Next == Browser \/ Server

\* The loop is the browser's own code and the timer of its requests always fires; the
\* reload at the end is a request of the page, which has no timer.
Fairness == WF_vars(Skip) /\ WF_vars(SendUpload) /\ WF_vars(SendPublish)
              /\ WF_vars(GiveUp) /\ WF_vars(EndRun) /\ WF_vars(DigestFails)

Spec == Init /\ [][Next]_vars /\ Fairness

-----------------------------------------------------------------------------
(* Properties *)

\* The types of the lines of the batch and of the calls.  A line that is shown has one
\* of the statuses the page knows.
TypeOK ==
  /\ batch \in 1 .. MaxBatches /\ option \in {"draft", "publish", "announce"}
  /\ item \in [Files -> [status : Statuses, known : BOOLEAN]]
  /\ cursor \in 0 .. Done
  /\ waiting \in [kind : {"none", "upload", "publish", "digest", "reload"}, ids : SUBSET Attempts]
  /\ digestPending \subseteq Attempts /\ notified \subseteq Attempts
  /\ serving \in [Attempts -> {"no", "sent", "checked"}]
  /\ rows \in [Attempts -> 0 .. 1] /\ confirmed \subseteq Attempts
  /\ doc \in [Attempts -> {"none", "draft", "quarantined", "published"}]
  /\ removed \subseteq Attempts /\ jobs \subseteq SUBSET Attempts
  /\ overlapped \subseteq Files /\ blind \subseteq Attempts

\* An item that the next run uploads, so also one that is shown as failed and may be
\* edited: its attempt has made no document and no request is still making one.
FailedIsSafe ==
  \A f \in Files : ToProcess(f) /\ ~item[f].known
                     => rows[Att(f)] = 0 /\ serving[Att(f)] = "no"

\* A file makes one document over all batches, unless it was sent again while an
\* earlier request for it was still being served, or while the document it had made
\* was in the trash or filed where the user could no longer edit.
OneDocumentPerFile ==
  \A a, b \in Attempts : a[1] = b[1] /\ rows[a] = 1 /\ rows[b] = 1
                           => a = b \/ a[1] \in overlapped \/ {a, b} \cap blind # {}

\* No document is announced by two summaries, however often one is retried.
AnnouncedOnce == \A j, k \in jobs : j \cap k # {} => j = k

\* When the import is over, every document it shows as published was announced.
PublicationsAnnounced ==
  ~Running /\ digestPending = {} /\ option = "announce" =>
    \A f \in Files : item[f].status = "published" => Att(f) \in UNION jobs

\* A file is imported once: what is offered for another try was not stored, and what
\* is tried again in a new batch is found, if the search could see it.
ImportedOnce == FailedIsSafe /\ OneDocumentPerFile

\* The publications of an import are announced, once each.
AnnouncedExactlyOnce == AnnouncedOnce /\ PublicationsAnnounced

\* Whatever the server and the network do, a run gets through its files and its
\* summary: it ends, or only waits for the page to load its documents again.
RunsEnd == Running ~> (~Running \/ waiting = Reload)
=============================================================================
