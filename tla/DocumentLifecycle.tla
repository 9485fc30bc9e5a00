-------------------------- MODULE DocumentLifecycle --------------------------
(***************************************************************************)
(* One document: its status, its trash flag, its versions, and the review  *)
(* cycle that publication and the scheduler keep (controllers.ts,          *)
(* publication-review.ts, review-decision.ts, worker.ts).                  *)
(*                                                                         *)
(* Handlers that check the document, work on its files and then write are  *)
(* served in Slots and take two steps; handlers whose write is one         *)
(* conditional statement or one transaction take one.  The document has    *)
(* one language: version numbers count the versions of a language.         *)
(*                                                                         *)
(* A date is what the code tells apart: annualReviewDueAt is unset, in the *)
(* future or past.  The mail about an annual review is a job that may be   *)
(* delivered, late or never, after anything else has happened.             *)
(***************************************************************************)
EXTENDS Integers, FiniteSets

CONSTANTS
  Reviews,       \* ids of DocumentReview rows (bounds their number)
  Slots,         \* requests the API serves at the same time
  MaxVersions,   \* bound on the versions of the document
  Dated          \* bound: the versions whose annual date may pass

ASSUME LifecycleAssumption == MaxVersions \in Nat \ {0} /\ Dated \subseteq 1 .. MaxVersions

VARIABLES
  status,     \* Document.status
  place,      \* "live", or "trash" once deletedAt is set
  published,  \* publishedAt is set
  link,       \* externalUrl is set
  last,       \* number of versions
  clean,      \* per version: its file passed the antivirus scan
  due,        \* per version: annualReviewDueAt
  notified,   \* per version: annualReviewNotifiedAt is set
  mail,       \* versions with a "document.review.annual" job in the queue
  review,     \* DocumentReview rows
  req,        \* the request served in each slot
  tick,       \* the scheduler's transaction: the versions it read
  unread      \* history: versions the last publication published without having read

docVars == <<status, place, published, link, unread>>
versionVars == <<last, clean>>
cycleVars == <<due, notified, mail>>
vars == <<status, place, published, link, last, clean, due, notified, mail,
          review, req, tick, unread>>

Statuses == {"DRAFT", "QUARANTINED", "PUBLISHED", "ARCHIVED"}
Versions == 1 .. MaxVersions
NoVersion == 0
Open == {"PENDING", "IN_REVIEW"}
Closed == {"APPROVED", "REJECTED", "CANCELLED"}

ReviewRows == [kind : {"free", "manual", "publication", "annual"},
               version : 0 .. MaxVersions, status : Open \cup Closed,
               late : BOOLEAN]   \* history: see OnePublicationReview
Free == [kind |-> "free", version |-> NoVersion, status |-> "PENDING", late |-> FALSE]
NewReview(k, v, late) == [kind |-> k, version |-> v, status |-> "PENDING", late |-> late]

Requests == [kind : {"idle", "upload", "restore", "publish", "review"},
             clean : BOOLEAN, version : 0 .. MaxVersions, first : BOOLEAN]
Idle == [kind |-> "idle", clean |-> FALSE, version |-> NoVersion, first |-> FALSE]
Serving(s, k) == req[s].kind = k

Ticks == [open : BOOLEAN, found : SUBSET Versions]
NoTick == [open |-> FALSE, found |-> {}]

\* A document is created by the upload of its first file, or as a link.
Init ==
  /\ place = "live" /\ published = FALSE
  /\ \/ /\ link = FALSE /\ last = 1
        /\ \E ok \in BOOLEAN :
             /\ clean = [v \in Versions |-> ok /\ v = 1]
             /\ status = IF ok THEN "DRAFT" ELSE "QUARANTINED"
     \/ /\ link = TRUE /\ last = 0
        /\ clean = [v \in Versions |-> FALSE]
        /\ status = "DRAFT"
  /\ due = [v \in Versions |-> "none"]
  /\ notified = [v \in Versions |-> FALSE]
  /\ mail = {}
  /\ review = [r \in Reviews |-> Free]
  /\ req = [s \in Slots |-> Idle]
  /\ tick = NoTick
  /\ unread = {}

-----------------------------------------------------------------------------
(* New versions *)

\* The file is scanned and compared with the newest version of a live document ...
StartUpload(s, ok) ==
  /\ req[s] = Idle /\ place = "live"
  /\ req' = [req EXCEPT ![s] = [Idle EXCEPT !.kind = "upload", !.clean = ok,
                                            !.version = last]]
  /\ UNCHANGED <<review, tick>>
  /\ UNCHANGED docVars /\ UNCHANGED versionVars /\ UNCHANGED cycleVars

AddVersion(ok) ==
  /\ last < MaxVersions
  /\ last' = last + 1
  /\ clean' = [clean EXCEPT ![last + 1] = ok]

\* Fault: the verdict of the scan is taken for the status.
StatusAfterUpload_Verdict(ok) == IF ok THEN "CLEAN" ELSE "QUARANTINED"

\* Fault: a file that failed the scan leaves the status alone.
StatusAfterUpload_Kept(ok) == IF ok THEN "DRAFT" ELSE status

StatusAfterUpload(ok) == IF ok THEN "DRAFT" ELSE "QUARANTINED"

\* ... and the version and the status are written whatever the document is now,
\* unless another version was added meanwhile.
CommitUpload(s) ==
  /\ Serving(s, "upload")
  /\ IF req[s].version = last
     THEN /\ AddVersion(req[s].clean)
          /\ status' = StatusAfterUpload(req[s].clean)
     ELSE UNCHANGED <<last, clean, status>>
  /\ req' = [req EXCEPT ![s] = Idle]
  /\ UNCHANGED <<place, published, link, review, tick, unread>>
  /\ UNCHANGED cycleVars

\* restoreVersion: an earlier file, clean, becomes the newest version.
StartRestoreVersion(s, v) ==
  /\ req[s] = Idle /\ place = "live"
  /\ v <= last /\ clean[v]
  /\ req' = [req EXCEPT ![s] = [Idle EXCEPT !.kind = "restore", !.version = v]]
  /\ UNCHANGED <<review, tick>>
  /\ UNCHANGED docVars /\ UNCHANGED versionVars /\ UNCHANGED cycleVars

CommitRestoreVersion(s) ==
  /\ Serving(s, "restore")
  /\ IF req[s].version = last
     THEN UNCHANGED <<last, clean, status>>
     ELSE AddVersion(TRUE) /\ status' = "DRAFT"
  /\ req' = [req EXCEPT ![s] = Idle]
  /\ UNCHANGED <<place, published, link, review, tick, unread>>
  /\ UNCHANGED cycleVars

\* The external link is set or removed.
SetExternalLink ==
  /\ place = "live"
  /\ link' = ~link
  /\ UNCHANGED <<status, place, published, review, req, tick, unread>>
  /\ UNCHANGED versionVars /\ UNCHANGED cycleVars

-----------------------------------------------------------------------------
(* Publication *)

AllClean == \A v \in Versions : v <= last => clean[v]

Publishable == (last > 0 \/ link) /\ AllClean

\* The document and its versions are read and the watermark prepared ...
StartPublish(s) ==
  /\ req[s] = Idle /\ place = "live"
  /\ Publishable
  /\ req' = [req EXCEPT ![s] = [Idle EXCEPT !.kind = "publish", !.version = last,
                                            !.first = ~published]]
  /\ UNCHANGED <<review, tick>>
  /\ UNCHANGED docVars /\ UNCHANGED versionVars /\ UNCHANGED cycleVars

\* Fault: the update does not look at deletedAt.
MayPublish_InTrash == status # "PUBLISHED"

MayPublish == place = "live" /\ status # "PUBLISHED"

\* Fault: every publication opens a review.
OpensReview_Always(first) == TRUE

OpensReview(first) == first

\* ... then publishWithReview: one transaction, refused unless the document is
\* live and unpublished, opens the review of a first publication.
CommitPublish(s) ==
  /\ Serving(s, "publish")
  /\ IF MayPublish
     THEN /\ status' = "PUBLISHED" /\ published' = TRUE
          /\ unread' = {v \in Versions : req[s].version < v /\ v <= last}
          /\ IF OpensReview(req[s].first)
             THEN \E r \in Reviews :
                    /\ review[r] = Free
                    /\ review' = [review EXCEPT ![r] =
                                    NewReview("publication", req[s].version,
                                              req[s].first /\ published)]
             ELSE UNCHANGED review
     ELSE UNCHANGED <<status, published, review, unread>>
  /\ req' = [req EXCEPT ![s] = Idle]
  /\ UNCHANGED <<place, link, tick>>
  /\ UNCHANGED versionVars /\ UNCHANGED cycleVars

\* A request ends with an error: watermarking, a missing required field, a lost
\* connection.
RequestFails(s) ==
  /\ req[s] # Idle
  /\ req' = [req EXCEPT ![s] = Idle]
  /\ UNCHANGED <<review, tick>>
  /\ UNCHANGED docVars /\ UNCHANGED versionVars /\ UNCHANGED cycleVars

-----------------------------------------------------------------------------
(* Status changes and the trash *)

ChangeStatus(new) ==
  /\ status' = new
  /\ UNCHANGED <<place, published, link, review, req, tick, unread>>
  /\ UNCHANGED versionVars /\ UNCHANGED cycleVars

\* changeStatus to DRAFT, conditional on the status it read.
Unpublish == place = "live" /\ status = "PUBLISHED" /\ ChangeStatus("DRAFT")

\* archive names the row by its id alone.
Archive == ChangeStatus("ARCHIVED")

Restore == place = "live" /\ status = "ARCHIVED" /\ ChangeStatus("DRAFT")

\* removeByModerator deletes the reviews with the soft deletion.
RemoveByModerator ==
  /\ place = "live"
  /\ place' = "trash" /\ status' = "ARCHIVED"
  /\ review' = [r \in Reviews |-> Free]
  /\ UNCHANGED <<published, link, req, tick, unread>>
  /\ UNCHANGED versionVars /\ UNCHANGED cycleVars

RestoreFromTrash ==
  /\ place = "trash"
  /\ place' = "live" /\ status' = "ARCHIVED"
  /\ UNCHANGED <<published, link, review, req, tick, unread>>
  /\ UNCHANGED versionVars /\ UNCHANGED cycleVars

-----------------------------------------------------------------------------
(* Reviews *)

\* createReview: the document and the version named, or its newest, are read ...
StartReview(s, v) ==
  /\ req[s] = Idle /\ place = "live"
  /\ v <= last /\ (v = NoVersion => last = 0)
  /\ req' = [req EXCEPT ![s] = [Idle EXCEPT !.kind = "review", !.version = v]]
  /\ UNCHANGED <<review, tick>>
  /\ UNCHANGED docVars /\ UNCHANGED versionVars /\ UNCHANGED cycleVars

\* ... then the row is created.
CreateReview(s) ==
  /\ Serving(s, "review")
  /\ \E r \in Reviews :
       /\ review[r] = Free
       /\ review' = [review EXCEPT ![r] = NewReview("manual", req[s].version, FALSE)]
  /\ req' = [req EXCEPT ![s] = Idle]
  /\ UNCHANGED tick
  /\ UNCHANGED docVars /\ UNCHANGED versionVars /\ UNCHANGED cycleVars

IsOpen(r) == review[r].kind # "free" /\ review[r].status \in Open

\* Fault: the update does not ask for an open review.
Decidable_Any(r) == review[r].kind # "free"

Decidable(r) == IsOpen(r)

\* Rejection closes the other open reviews of the document with the decided one.
Decided(r, verdict) ==
  [q \in Reviews |->
     IF q = r THEN [review[q] EXCEPT !.status = verdict]
     ELSE IF verdict = "REJECTED" /\ IsOpen(q)
          THEN [review[q] EXCEPT !.status = "CANCELLED"]
          ELSE review[q]]

\* An approved automatic review sets the next annual date of its version.
NextCycle(r, verdict) ==
  LET v == review[r].version
      renews == verdict = "APPROVED" /\ review[r].kind \in {"publication", "annual"}
                  /\ v # NoVersion IN
  /\ due' = IF renews THEN [due EXCEPT ![v] = "future"] ELSE due
  /\ notified' = IF renews THEN [notified EXCEPT ![v] = FALSE] ELSE notified

\* recordReviewDecision: one transaction, conditional on the review being open.
DecideReview(r, verdict) ==
  /\ Decidable(r)
  /\ review' = Decided(r, verdict)
  /\ status' = IF verdict = "REJECTED" /\ place = "live" THEN "ARCHIVED" ELSE status
  /\ NextCycle(r, verdict)
  /\ UNCHANGED <<place, published, link, mail, req, tick, unread>>
  /\ UNCHANGED versionVars

-----------------------------------------------------------------------------
(* The scheduler and the annual review *)

\* The versions whose annual date has passed and that were not announced.
AnnualDue == {v \in Versions : v <= last /\ due[v] = "past" /\ ~notified[v]}

StartTick ==
  /\ ~tick.open
  /\ place = "live" /\ status = "PUBLISHED" /\ AnnualDue # {}
  /\ tick' = [open |-> TRUE, found |-> AnnualDue]
  /\ UNCHANGED <<review, req>>
  /\ UNCHANGED docVars /\ UNCHANGED versionVars /\ UNCHANGED cycleVars

\* Fault: an open annual review of the version is not looked for.
UnderReview_Never(v) == FALSE

UnderReview(v) == \E r \in Reviews : /\ review[r].kind = "annual" /\ IsOpen(r)
                                     /\ review[r].version = v

\* Each version gets an annual review, unless one is open, and a mail job.
CommitTick ==
  /\ tick.open
  /\ \E row \in [tick.found -> Reviews] :
       LET new == {v \in tick.found : ~UnderReview(v)} IN
       /\ \A v \in new : review[row[v]] = Free
       /\ \A v, u \in new : row[v] = row[u] => v = u
       /\ review' = [r \in Reviews |->
                       IF \E v \in new : row[v] = r
                       THEN NewReview("annual", CHOOSE v \in new : row[v] = r, FALSE)
                       ELSE review[r]]
  /\ mail' = mail \cup tick.found
  /\ tick' = NoTick
  /\ UNCHANGED <<due, notified, req>>
  /\ UNCHANGED docVars /\ UNCHANGED versionVars

\* The transaction is rolled back; jobs already in Redis stay there.
AbortTick(sent) ==
  /\ tick.open
  /\ mail' = mail \cup sent
  /\ tick' = NoTick
  /\ UNCHANGED <<due, notified, review, req>>
  /\ UNCHANGED docVars /\ UNCHANGED versionVars

\* The job is processed: skipped for a document in the trash, otherwise sent and
\* marked on the version.
DeliverMail(v) ==
  /\ v \in mail
  /\ mail' = mail \ {v}
  /\ notified' = IF place = "live" THEN [notified EXCEPT ![v] = TRUE] ELSE notified
  /\ UNCHANGED <<due, review, req, tick>>
  /\ UNCHANGED docVars /\ UNCHANGED versionVars

\* Its last attempt fails: the job is kept for an administrator or forgotten.
LoseMail(v) ==
  /\ v \in mail
  /\ mail' = mail \ {v}
  /\ UNCHANGED <<due, notified, review, req, tick>>
  /\ UNCHANGED docVars /\ UNCHANGED versionVars

AnnualDatePasses(v) ==
  /\ v \in Dated /\ due[v] = "future"
  /\ due' = [due EXCEPT ![v] = "past"]
  /\ UNCHANGED <<notified, mail, review, req, tick>>
  /\ UNCHANGED docVars /\ UNCHANGED versionVars

-----------------------------------------------------------------------------
VersionNext ==
  \/ \E s \in Slots, ok \in BOOLEAN : StartUpload(s, ok)
  \/ \E s \in Slots, v \in Versions : StartRestoreVersion(s, v)
  \/ \E s \in Slots : CommitUpload(s) \/ CommitRestoreVersion(s) \/ RequestFails(s)
  \/ SetExternalLink

StatusNext ==
  \/ \E s \in Slots : StartPublish(s) \/ CommitPublish(s)
  \/ Unpublish \/ Archive \/ Restore \/ RemoveByModerator \/ RestoreFromTrash

ReviewNext ==
  \/ \E s \in Slots, v \in 0 .. MaxVersions : StartReview(s, v)
  \/ \E s \in Slots : CreateReview(s)
  \/ \E r \in Reviews, verdict \in {"IN_REVIEW", "APPROVED", "REJECTED"} :
       DecideReview(r, verdict)

SchedulerNext ==
  \/ StartTick \/ CommitTick
  \/ \E sent \in SUBSET tick.found : AbortTick(sent)
  \/ \E v \in Versions : DeliverMail(v) \/ LoseMail(v) \/ AnnualDatePasses(v)

Next == VersionNext \/ StatusNext \/ ReviewNext \/ SchedulerNext

Spec == Init /\ [][Next]_vars

-----------------------------------------------------------------------------
(* Properties *)

\* Every variable keeps its type; the status of the document and of a review is one
\* of the schema.
TypeOK ==
  /\ status \in Statuses /\ place \in {"live", "trash"}
  /\ published \in BOOLEAN /\ link \in BOOLEAN
  /\ last \in 0 .. MaxVersions
  /\ clean \in [Versions -> BOOLEAN]
  /\ due \in [Versions -> {"none", "future", "past"}]
  /\ notified \in [Versions -> BOOLEAN]
  /\ mail \subseteq Versions
  /\ review \in [Reviews -> ReviewRows]
  /\ req \in [Slots -> Requests]
  /\ tick \in Ticks
  /\ unread \subseteq Versions

\* Every version of a published document passed the antivirus scan: the rule publish
\* states when it refuses.  The code does not keep it: the scans are read before the
\* watermark, and not again in the publishing transaction.
PublishedIsClean == status = "PUBLISHED" => AllClean

\* However requests overlap, a version of a published document that failed the scan
\* was added between the reading of the scans and the transaction of that very
\* publication: none that publish read, and none added after it, whichever uploads,
\* restorations, withdrawals and earlier publications there were.
PublishedWasScanned ==
  status = "PUBLISHED" =>
    \A v \in Versions : v <= last /\ ~clean[v] => v \in unread

\* A document in the trash is never published, whichever requests were under way
\* when it was deleted: the condition of publishWithReview, not of the handler.
TrashIsUnpublished == place = "trash" => status # "PUBLISHED"

\* However requests overlap, a document has one publication review, and further ones
\* only from publications that were being prepared, with firstPublication read, when
\* the first one was made (late): neither a withdrawal and a second publication nor
\* the trash opens another.
OnePublicationReview ==
  \A r, q \in Reviews :
    /\ review[r].kind = "publication" /\ ~review[r].late
    /\ review[q].kind = "publication" /\ ~review[q].late
    => r = q

\* The scheduler never opens a second annual review of a version.
OneOpenAnnualReview ==
  \A r, q \in Reviews :
    /\ review[r].kind = "annual" /\ IsOpen(r)
    /\ review[q].kind = "annual" /\ IsOpen(q)
    /\ review[r].version = review[q].version
    => r = q

\* A decision is final: a closed review keeps it until it is deleted, whoever
\* decides, rejects another review or runs the scheduler meanwhile.
DecisionsAreFinal ==
  [][\A r \in Reviews : review[r].kind # "free" /\ review[r].status \in Closed
       => review'[r] \in {review[r], Free}]_vars

\* The newest version of a published document is in the review cycle: it has an
\* annual date or an automatic review under way.  The code does not keep this one
\* (README, Known deviations).
PublishedInCycle ==
  status = "PUBLISHED" /\ last > 0 =>
    \/ due[last] # "none"
    \/ \E r \in Reviews : IsOpen(r) /\ review[r].version = last
                            /\ review[r].kind \in {"publication", "annual"}

\* A published version whose annual date has passed is under review, or the
\* scheduler will still put it under review.  The code does not keep this one
\* (README, Known deviations).
AnnualReviewNotLost ==
  status = "PUBLISHED" =>
    \A v \in Versions : due[v] = "past" /\ notified[v] => UnderReview(v)
=============================================================================
