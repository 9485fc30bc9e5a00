----------------------- MODULE DocumentLifecycleProofs -----------------------
(***************************************************************************)
(* Proofs about the document lifecycle, for every number of versions,      *)
(* reviews and requests.                                                   *)
(***************************************************************************)
EXTENDS DocumentLifecycle, TLAPS

\* A review created by any of the three writers is a row.
LEMMA NewReviewType ==
  ASSUME NEW k \in {"manual", "publication", "annual"}, NEW v \in 0 .. MaxVersions,
         NEW late \in BOOLEAN
  PROVE  NewReview(k, v, late) \in ReviewRows
BY DEF NewReview, ReviewRows, Open, Closed

\* The row of a review that does not exist, and the requests that do nothing.
LEMMA NullTypes == Free \in ReviewRows /\ Idle \in Requests /\ NoTick \in Ticks
BY LifecycleAssumption DEF Free, ReviewRows, Idle, Requests, NoTick, Ticks,
   NoVersion, Open, Closed

\* A decision keeps what a review is about, and closes or leaves each status
\* (recordReviewDecision).
LEMMA DecidedRows ==
  ASSUME review \in [Reviews -> ReviewRows], NEW r \in Reviews,
         NEW verdict \in {"IN_REVIEW", "APPROVED", "REJECTED"}
  PROVE  /\ Decided(r, verdict) \in [Reviews -> ReviewRows]
         /\ \A q \in Reviews :
              /\ Decided(r, verdict)[q].kind = review[q].kind
              /\ Decided(r, verdict)[q].version = review[q].version
              /\ Decided(r, verdict)[q].late = review[q].late
              /\ q # r /\ ~IsOpen(q) => Decided(r, verdict)[q] = review[q]
<1>1. ASSUME NEW q \in Reviews, NEW st \in Open \cup Closed
      PROVE  /\ [review[q] EXCEPT !.status = st] \in ReviewRows
             /\ [review[q] EXCEPT !.status = st].kind = review[q].kind
             /\ [review[q] EXCEPT !.status = st].version = review[q].version
             /\ [review[q] EXCEPT !.status = st].late = review[q].late
  BY DEF ReviewRows
<1>2. verdict \in Open \cup Closed /\ "CANCELLED" \in Open \cup Closed
  BY DEF Open, Closed
<1> QED BY <1>1, <1>2 DEF Decided

(***************************************************************************)
(* Types                                                                   *)
(***************************************************************************)

LEMMA InitTypes == Init => TypeOK
<1> SUFFICES ASSUME Init PROVE TypeOK
  OBVIOUS
<1>1. review \in [Reviews -> ReviewRows] /\ req \in [Slots -> Requests] /\ tick \in Ticks
  BY NullTypes DEF Init
<1>2. last \in 0 .. MaxVersions
  BY LifecycleAssumption DEF Init
<1>3. clean \in [Versions -> BOOLEAN]
  BY DEF Init
<1> QED BY <1>1, <1>2, <1>3 DEF Init, TypeOK, Statuses

LEMMA AddVersionType ==
  ASSUME TypeOK, NEW ok \in BOOLEAN, AddVersion(ok)
  PROVE  last' \in 0 .. MaxVersions /\ clean' \in [Versions -> BOOLEAN]
BY LifecycleAssumption DEF TypeOK, AddVersion, Versions

LEMMA VersionTypes == ASSUME TypeOK, VersionNext PROVE TypeOK'
<1> USE DEF TypeOK
<1>0. last \in 0 .. MaxVersions /\ Versions \subseteq 0 .. MaxVersions
  BY LifecycleAssumption DEF Versions
<1>1. ASSUME NEW s \in Slots, NEW ok \in BOOLEAN, StartUpload(s, ok) PROVE TypeOK'
  <2>1. [Idle EXCEPT !.kind = "upload", !.clean = ok, !.version = last] \in Requests
    BY <1>0, NullTypes DEF Idle, Requests
  <2> QED BY <1>1, <2>1 DEF StartUpload, docVars, versionVars, cycleVars
<1>2. ASSUME NEW s \in Slots, NEW v \in Versions, StartRestoreVersion(s, v) PROVE TypeOK'
  <2>1. [Idle EXCEPT !.kind = "restore", !.version = v] \in Requests
    BY <1>0, NullTypes DEF Idle, Requests
  <2> QED BY <1>2, <2>1 DEF StartRestoreVersion, docVars, versionVars, cycleVars
<1>3. ASSUME NEW s \in Slots, CommitUpload(s) PROVE TypeOK'
  <2>1. req[s].clean \in BOOLEAN
    BY DEF Requests
  <2>2. last' \in 0 .. MaxVersions /\ clean' \in [Versions -> BOOLEAN]
    BY <1>3, <2>1, AddVersionType DEF CommitUpload
  <2>3. status' \in Statuses
    BY <1>3 DEF CommitUpload, StatusAfterUpload, Statuses
  <2> QED BY <1>3, <2>2, <2>3, NullTypes DEF CommitUpload, cycleVars
<1>4. ASSUME NEW s \in Slots, CommitRestoreVersion(s) PROVE TypeOK'
  <2>2. last' \in 0 .. MaxVersions /\ clean' \in [Versions -> BOOLEAN]
    BY <1>4, AddVersionType DEF CommitRestoreVersion
  <2>3. status' \in Statuses
    BY <1>4 DEF CommitRestoreVersion, Statuses
  <2> QED BY <1>4, <2>2, <2>3, NullTypes DEF CommitRestoreVersion, cycleVars
<1>5. ASSUME NEW s \in Slots, RequestFails(s) PROVE TypeOK'
  BY <1>5, NullTypes DEF RequestFails, docVars, versionVars, cycleVars
<1>6. ASSUME SetExternalLink PROVE TypeOK'
  BY <1>6 DEF SetExternalLink, versionVars, cycleVars
<1> QED BY <1>1, <1>2, <1>3, <1>4, <1>5, <1>6 DEF VersionNext

LEMMA StatusTypes == ASSUME TypeOK, StatusNext PROVE TypeOK'
<1> USE DEF TypeOK
<1>1. ASSUME NEW s \in Slots, StartPublish(s) PROVE TypeOK'
  <2>1. [Idle EXCEPT !.kind = "publish", !.version = last, !.first = ~published]
          \in Requests
    BY NullTypes DEF Idle, Requests
  <2> QED BY <1>1, <2>1 DEF StartPublish, docVars, versionVars, cycleVars
<1>2. ASSUME NEW s \in Slots, CommitPublish(s) PROVE TypeOK'
  <2>1. NewReview("publication", req[s].version, req[s].first /\ published) \in ReviewRows
    BY NewReviewType DEF Requests
  <2>2. review' \in [Reviews -> ReviewRows]
    BY <1>2, <2>1 DEF CommitPublish
  <2>3. status' \in Statuses /\ published' \in BOOLEAN
    BY <1>2 DEF CommitPublish, Statuses
  <2> QED BY <1>2, <2>2, <2>3, NullTypes DEF CommitPublish, versionVars, cycleVars
<1>3. ASSUME Unpublish \/ Archive \/ Restore PROVE TypeOK'
  BY <1>3 DEF Unpublish, Archive, Restore, ChangeStatus, Statuses, versionVars, cycleVars
<1>4. ASSUME RemoveByModerator \/ RestoreFromTrash PROVE TypeOK'
  BY <1>4, NullTypes DEF RemoveByModerator, RestoreFromTrash, Statuses, versionVars,
     cycleVars
<1> QED BY <1>1, <1>2, <1>3, <1>4 DEF StatusNext

LEMMA ReviewTypes == ASSUME TypeOK, ReviewNext PROVE TypeOK'
<1> USE DEF TypeOK
<1>1. ASSUME NEW s \in Slots, NEW v \in 0 .. MaxVersions, StartReview(s, v) PROVE TypeOK'
  <2>1. [Idle EXCEPT !.kind = "review", !.version = v] \in Requests
    BY NullTypes DEF Idle, Requests
  <2> QED BY <1>1, <2>1 DEF StartReview, docVars, versionVars, cycleVars
<1>2. ASSUME NEW s \in Slots, CreateReview(s) PROVE TypeOK'
  <2>1. NewReview("manual", req[s].version, FALSE) \in ReviewRows
    BY NewReviewType DEF Requests
  <2> QED BY <1>2, <2>1, NullTypes DEF CreateReview, docVars, versionVars, cycleVars
<1>3. ASSUME NEW r \in Reviews, NEW verdict \in {"IN_REVIEW", "APPROVED", "REJECTED"},
             DecideReview(r, verdict)
      PROVE  TypeOK'
  <2>1. review' \in [Reviews -> ReviewRows]
    BY <1>3, DecidedRows DEF DecideReview
  <2>2. status' \in Statuses
    BY <1>3 DEF DecideReview, Statuses
  <2>3. /\ due' \in [Versions -> {"none", "future", "past"}]
        /\ notified' \in [Versions -> BOOLEAN]
    BY <1>3 DEF DecideReview, NextCycle
  <2> QED BY <1>3, <2>1, <2>2, <2>3 DEF DecideReview, versionVars
<1> QED BY <1>1, <1>2, <1>3 DEF ReviewNext

\* The rows a scheduler transaction leaves: an annual review for each new version,
\* on a row that was free, the others as they were.
LEMMA TickRows ==
  ASSUME TypeOK, CommitTick
  PROVE  /\ review' \in [Reviews -> ReviewRows]
         /\ \A r \in Reviews : review'[r] # review[r] =>
              /\ review[r] = Free
              /\ \E v \in tick.found : ~UnderReview(v) /\ review'[r] = NewReview("annual", v, FALSE)
         /\ \A r, q \in Reviews :
              /\ review'[r] # review[r] /\ review'[q] # review[q]
              /\ review'[r].version = review'[q].version
              => r = q
<1>1. PICK row \in [tick.found -> Reviews] :
        LET new == {v \in tick.found : ~UnderReview(v)} IN
        /\ \A v \in new : review[row[v]] = Free
        /\ \A v, u \in new : row[v] = row[u] => v = u
        /\ review' = [r \in Reviews |->
                        IF \E v \in new : row[v] = r
                        THEN NewReview("annual", CHOOSE v \in new : row[v] = r, FALSE)
                        ELSE review[r]]
  BY DEF CommitTick
<1> DEFINE new == {v \in tick.found : ~UnderReview(v)}
           opened(r) == \E v \in new : row[v] = r
           subject(r) == CHOOSE v \in new : row[v] = r
<1>2. tick.found \subseteq 0 .. MaxVersions
  BY LifecycleAssumption DEF TypeOK, Ticks, Versions
<1>3. ASSUME NEW r \in Reviews, opened(r)
      PROVE  subject(r) \in new /\ row[subject(r)] = r
  BY <1>3
<1>4. \A r \in Reviews : review'[r] = IF opened(r) THEN NewReview("annual", subject(r), FALSE)
                                       ELSE review[r]
  BY <1>1
<1>5. review' \in [Reviews -> ReviewRows]
  <2>1. ASSUME NEW r \in Reviews, opened(r) PROVE NewReview("annual", subject(r), FALSE) \in ReviewRows
    BY <2>1, <1>2, <1>3, NewReviewType
  <2> HIDE DEF opened, subject
  <2> QED BY <1>1, <1>4, <2>1 DEF TypeOK
<1>6. ASSUME NEW r \in Reviews, review'[r] # review[r]
      PROVE  /\ opened(r) /\ review[r] = Free
             /\ subject(r) \in new
             /\ row[subject(r)] = r /\ review'[r] = NewReview("annual", subject(r), FALSE)
  <2>1. opened(r) /\ review'[r] = NewReview("annual", subject(r), FALSE)
    <3> HIDE DEF opened, subject
    <3> QED BY <1>4, <1>6
  <2>2. subject(r) \in new /\ row[subject(r)] = r
    BY <1>3, <2>1
  <2>3. review[r] = Free
    <3> HIDE DEF subject
    <3> QED BY <1>1, <2>2
  <2> QED BY <2>1, <2>2, <2>3
<1>7. ASSUME NEW r \in Reviews, NEW q \in Reviews,
             review'[r] # review[r], review'[q] # review[q],
             review'[r].version = review'[q].version
      PROVE  r = q
  <2>0. review'[r] = NewReview("annual", subject(r), FALSE) /\ review'[q] = NewReview("annual", subject(q), FALSE)
    BY <1>6, <1>7
  <2>1. review'[r].version = subject(r) /\ review'[q].version = subject(q)
    <3> HIDE DEF subject
    <3> QED BY <2>0 DEF NewReview
  <2>2. row[subject(r)] = r /\ row[subject(q)] = q
    BY <1>6, <1>7
  <2> QED BY <1>7, <2>1, <2>2
<1> QED BY <1>5, <1>6, <1>7

LEMMA SchedulerTypes == ASSUME TypeOK, SchedulerNext PROVE TypeOK'
<1> USE DEF TypeOK
<1>1. ASSUME StartTick PROVE TypeOK'
  <2>1. [open |-> TRUE, found |-> AnnualDue] \in Ticks
    BY DEF AnnualDue, Ticks
  <2> QED BY <1>1, <2>1 DEF StartTick, docVars, versionVars, cycleVars
<1>2. ASSUME CommitTick PROVE TypeOK'
  <2>1. review' \in [Reviews -> ReviewRows]
    BY <1>2, TickRows
  <2>2. mail' \subseteq Versions
    BY <1>2 DEF CommitTick, Ticks
  <2> QED BY <1>2, <2>1, <2>2, NullTypes DEF CommitTick, docVars, versionVars
<1>3. ASSUME NEW sent \in SUBSET tick.found, AbortTick(sent) PROVE TypeOK'
  <2>1. mail' \subseteq Versions
    BY <1>3 DEF AbortTick, Ticks
  <2> QED BY <1>3, <2>1, NullTypes DEF AbortTick, docVars, versionVars
<1>4. ASSUME NEW v \in Versions, DeliverMail(v) \/ LoseMail(v) \/ AnnualDatePasses(v)
      PROVE  TypeOK'
  BY <1>4 DEF DeliverMail, LoseMail, AnnualDatePasses, docVars, versionVars
<1> QED BY <1>1, <1>2, <1>3, <1>4 DEF SchedulerNext

LEMMA NextTypes == TypeOK /\ [Next]_vars => TypeOK'
<1> SUFFICES ASSUME TypeOK, [Next]_vars PROVE TypeOK'
  OBVIOUS
<1>1. CASE Next
  BY <1>1, VersionTypes, StatusTypes, ReviewTypes, SchedulerTypes DEF Next
<1>2. CASE UNCHANGED vars
  BY <1>2 DEF vars, TypeOK
<1> QED BY <1>1, <1>2

\* Every variable keeps its type, whatever requests, decisions and scheduler runs
\* are interleaved.
THEOREM TypeCorrect == Spec => []TypeOK
<1> QED BY InitTypes, NextTypes, PTL DEF Spec

(***************************************************************************)
(* The trash                                                               *)
(***************************************************************************)

LEMMA TrashStep == TrashIsUnpublished /\ [Next]_vars => TrashIsUnpublished'
<1> SUFFICES ASSUME TrashIsUnpublished, [Next]_vars PROVE TrashIsUnpublished'
  OBVIOUS
<1> USE DEF TrashIsUnpublished
<1>1. CASE VersionNext
  BY <1>1 DEF VersionNext, StartUpload, StartRestoreVersion, CommitUpload,
     CommitRestoreVersion, RequestFails, SetExternalLink, StatusAfterUpload, docVars
<1>2. CASE StatusNext
  BY <1>2 DEF StatusNext, StartPublish, CommitPublish, MayPublish, Unpublish, Archive,
     Restore, ChangeStatus, RemoveByModerator, RestoreFromTrash, docVars
<1>3. CASE ReviewNext
  BY <1>3 DEF ReviewNext, StartReview, CreateReview, DecideReview, docVars
<1>4. CASE SchedulerNext
  BY <1>4 DEF SchedulerNext, StartTick, CommitTick, AbortTick, DeliverMail, LoseMail,
     AnnualDatePasses, docVars
<1>5. CASE UNCHANGED vars
  BY <1>5 DEF vars
<1> QED BY <1>1, <1>2, <1>3, <1>4, <1>5 DEF Next

\* However many requests are under way when a document is deleted, none of them
\* publishes it: publishWithReview asks for a live document in the statement that
\* publishes.
THEOREM TrashHoldsNothingPublished == Spec => []TrashIsUnpublished
<1>1. Init => TrashIsUnpublished
  BY DEF Init, TrashIsUnpublished
<1> QED BY <1>1, TrashStep, PTL DEF Spec

(***************************************************************************)
(* Reviews                                                                 *)
(***************************************************************************)

\* What a step may do to a review: leave it, delete it, decide an open one, or
\* open one on a free row; and an annual one only on a version under no annual
\* review, once per version.
LEMMA ReviewStep ==
  ASSUME TypeOK, Next
  PROVE  \/ UNCHANGED review
         \/ review' = [r \in Reviews |-> Free]
         \/ \E r \in Reviews, verdict \in {"IN_REVIEW", "APPROVED", "REJECTED"} :
              IsOpen(r) /\ review' = Decided(r, verdict)
         \/ \E r \in Reviews, k \in {"manual", "publication"}, v \in 0 .. MaxVersions,
              late \in BOOLEAN :
              /\ review[r] = Free
              /\ review' = [review EXCEPT ![r] = NewReview(k, v, late)]
              /\ k = "publication" => published' /\ late = published
         \/ CommitTick
<1>1. CASE VersionNext
  BY <1>1 DEF VersionNext, StartUpload, StartRestoreVersion, CommitUpload,
     CommitRestoreVersion, RequestFails, SetExternalLink
<1>2. CASE StatusNext
  <2>1. ASSUME NEW s \in Slots, CommitPublish(s), ~UNCHANGED review
        PROVE  \E r \in Reviews, v \in 0 .. MaxVersions :
                 /\ review[r] = Free
                 /\ review' = [review EXCEPT ![r] = NewReview("publication", v, published)]
                 /\ published'
    <3>1. req[s].version \in 0 .. MaxVersions /\ req[s].first \in BOOLEAN
      BY DEF TypeOK, Requests
    <3>2. MayPublish /\ req[s].first
      BY <2>1 DEF CommitPublish, OpensReview
    <3>3. (req[s].first /\ published) = published
      BY <3>2 DEF TypeOK
    <3> QED BY <2>1, <3>1, <3>2, <3>3 DEF CommitPublish, OpensReview
  <2>2. CASE \E s \in Slots : CommitPublish(s)
    BY <2>1, <2>2 DEF TypeOK
  <2>3. CASE ~ \E s \in Slots : CommitPublish(s)
    BY <1>2, <2>3 DEF StatusNext, StartPublish, Unpublish, Archive, Restore, ChangeStatus,
       RemoveByModerator, RestoreFromTrash
  <2> QED BY <2>2, <2>3
<1>3. CASE ReviewNext
  <2>1. ASSUME NEW s \in Slots, CreateReview(s)
        PROVE  \E r \in Reviews, v \in 0 .. MaxVersions :
                 /\ review[r] = Free
                 /\ review' = [review EXCEPT ![r] = NewReview("manual", v, FALSE)]
    <3>1. req[s].version \in 0 .. MaxVersions
      BY DEF TypeOK, Requests
    <3> QED BY <2>1, <3>1 DEF CreateReview
  <2>2. ASSUME NEW s \in Slots, NEW v \in 0 .. MaxVersions, StartReview(s, v)
        PROVE  UNCHANGED review
    BY <2>2 DEF StartReview
  <2>3. ASSUME NEW r \in Reviews, NEW verdict \in {"IN_REVIEW", "APPROVED", "REJECTED"},
               DecideReview(r, verdict)
        PROVE  IsOpen(r) /\ review' = Decided(r, verdict)
    BY <2>3 DEF DecideReview, Decidable
  <2> QED BY <1>3, <2>1, <2>2, <2>3 DEF ReviewNext
<1>4. CASE SchedulerNext
  BY <1>4 DEF SchedulerNext, StartTick, AbortTick, DeliverMail, LoseMail, AnnualDatePasses
<1> QED BY <1>1, <1>2, <1>3, <1>4 DEF Next

LEMMA AnnualStep ==
  ASSUME TypeOK, OneOpenAnnualReview, [Next]_vars PROVE OneOpenAnnualReview'
<1> USE DEF OneOpenAnnualReview
<1> DEFINE OpenAnnual(row) == row.kind = "annual" /\ row.status \in Open
<1>0. \A r \in Reviews : review[r].kind = "annual" /\ IsOpen(r) <=> OpenAnnual(review[r])
  BY DEF IsOpen
<1>1. CASE UNCHANGED review
  BY <1>1 DEF IsOpen
<1>2. CASE review' = [r \in Reviews |-> Free]
  BY <1>2 DEF Free, IsOpen
<1>3. ASSUME NEW r \in Reviews, NEW verdict \in {"IN_REVIEW", "APPROVED", "REJECTED"},
             IsOpen(r), review' = Decided(r, verdict)
      PROVE  OneOpenAnnualReview'
  <2>1. \A q \in Reviews : review'[q].kind = review[q].kind
                             /\ review'[q].version = review[q].version
    BY <1>3, DecidedRows DEF TypeOK
  <2>2. \A q \in Reviews : IsOpen(q)' => IsOpen(q)
    BY <1>3, <2>1, DecidedRows DEF TypeOK, IsOpen
  <2> QED BY <2>1, <2>2
<1>4. ASSUME NEW r \in Reviews, NEW k \in {"manual", "publication"},
             NEW v \in 0 .. MaxVersions, NEW late \in BOOLEAN,
             review' = [review EXCEPT ![r] = NewReview(k, v, late)]
      PROVE  OneOpenAnnualReview'
  BY <1>4 DEF NewReview, TypeOK, IsOpen
<1>5. CASE CommitTick
  <2>1. SUFFICES ASSUME NEW r \in Reviews, NEW q \in Reviews,
                        OpenAnnual(review'[r]), OpenAnnual(review'[q]),
                        review'[r].version = review'[q].version
                 PROVE  r = q
    BY DEF IsOpen
  <2>2. ASSUME NEW a \in Reviews, NEW b \in Reviews,
               OpenAnnual(review'[a]), review'[a] = review[a], review'[b] # review[b]
        PROVE  review'[a].version # review'[b].version
    <3>1. PICK v \in tick.found : ~UnderReview(v) /\ review'[b] = NewReview("annual", v, FALSE)
      BY <1>5, <2>2, TickRows
    <3>2. review'[b].version = v
      BY <3>1 DEF NewReview
    <3> QED BY <2>2, <3>1, <3>2, <1>0 DEF UnderReview
  <2>3. CASE review'[r] = review[r] /\ review'[q] = review[q]
    BY <2>1, <2>3, <1>0
  <2>4. CASE review'[r] # review[r] /\ review'[q] # review[q]
    BY <1>5, <2>1, <2>4, TickRows
  <2>5. CASE review'[r] = review[r] /\ review'[q] # review[q]
    BY <2>1, <2>2, <2>5
  <2>6. CASE review'[r] # review[r] /\ review'[q] = review[q]
    BY <2>1, <2>2, <2>6
  <2> QED BY <2>3, <2>4, <2>5, <2>6
<1>6. CASE Next
  BY <1>1, <1>2, <1>3, <1>4, <1>5, <1>6, ReviewStep
<1>7. CASE UNCHANGED vars
  BY <1>1, <1>7 DEF vars
<1> QED BY <1>6, <1>7

\* At most one annual review of a version is open, although each scheduler run
\* reads the versions first and their reviews later, and decisions, deletions and
\* republications fall between.
THEOREM AnnualReviewsAreSingle == Spec => []OneOpenAnnualReview
<1>1. Init => OneOpenAnnualReview
  BY DEF Init, OneOpenAnnualReview, Free
<1> QED BY <1>1, InitTypes, NextTypes, AnnualStep, PTL DEF Spec

\* A closed review keeps its decision until it is deleted: recordReviewDecision
\* updates open reviews only, also when a rejection closes the others, and the
\* scheduler writes on new rows.
THEOREM DecidedReviewsStay == Spec => DecisionsAreFinal
<1> DEFINE Final == \A r \in Reviews : review[r].kind # "free" /\ review[r].status \in Closed
                       => review'[r] \in {review[r], Free}
<1>0. \A r \in Reviews : review[r].kind # "free" /\ review[r].status \in Closed
        => ~IsOpen(r) /\ review[r] # Free
  BY DEF IsOpen, Open, Closed, Free
<1>1. TypeOK /\ [Next]_vars => [Final]_vars
  <2> SUFFICES ASSUME TypeOK, Next PROVE Final
    OBVIOUS
  <2>1. CASE UNCHANGED review
    BY <2>1
  <2>2. CASE review' = [r \in Reviews |-> Free]
    BY <2>2
  <2>3. ASSUME NEW r \in Reviews, NEW verdict \in {"IN_REVIEW", "APPROVED", "REJECTED"},
               IsOpen(r), review' = Decided(r, verdict)
        PROVE  Final
    BY <1>0, <2>3, DecidedRows DEF TypeOK
  <2>4. ASSUME NEW r \in Reviews, NEW k \in {"manual", "publication"},
               NEW v \in 0 .. MaxVersions, NEW late \in BOOLEAN, review[r] = Free,
               review' = [review EXCEPT ![r] = NewReview(k, v, late)]
        PROVE  Final
    BY <1>0, <2>4 DEF TypeOK
  <2>5. CASE CommitTick
    BY <1>0, <2>5, TickRows
  <2> QED BY <2>1, <2>2, <2>3, <2>4, <2>5, ReviewStep
<1> QED BY <1>1, InitTypes, NextTypes, PTL DEF Spec, DecisionsAreFinal

(***************************************************************************)
(* Publications that overlap                                               *)
(***************************************************************************)

\* What a publication in progress read stays true: versions are only added, and keep
\* the verdict of their scan.  A document never published has no publication review.
ReadClean ==
  \A s \in Slots : Serving(s, "publish") =>
    req[s].version <= last /\ \A v \in Versions : v <= req[s].version => clean[v]

FirstReview == ~published => \A r \in Reviews : review[r].kind # "publication"

PublishInv == TypeOK /\ ReadClean /\ PublishedWasScanned /\ FirstReview /\ OnePublicationReview

\* A publication review is kept as it was, or is opened by the step that publishes.
LEMMA PublicationKinds ==
  ASSUME TypeOK, Next, NEW r \in Reviews, review'[r].kind = "publication"
  PROVE  \/ review[r].kind = "publication" /\ review'[r].late = review[r].late
         \/ /\ review[r] = Free /\ published' /\ review'[r].late = published
            /\ \A q \in Reviews \ {r} : review'[q] = review[q]
<1>1. CASE UNCHANGED review
  BY <1>1
<1>2. CASE review' = [q \in Reviews |-> Free]
  BY <1>2 DEF Free
<1>3. ASSUME NEW q \in Reviews, NEW verdict \in {"IN_REVIEW", "APPROVED", "REJECTED"},
             review' = Decided(q, verdict)
      PROVE  review[r].kind = "publication" /\ review'[r].late = review[r].late
  BY <1>3, DecidedRows DEF TypeOK
<1>4. ASSUME NEW q \in Reviews, NEW k \in {"manual", "publication"},
             NEW v \in 0 .. MaxVersions, NEW late \in BOOLEAN, review[q] = Free,
             review' = [review EXCEPT ![q] = NewReview(k, v, late)],
             k = "publication" => published' /\ late = published
      PROVE  \/ review[r].kind = "publication" /\ review'[r].late = review[r].late
             \/ /\ review[r] = Free /\ published' /\ review'[r].late = published
                /\ \A p \in Reviews \ {r} : review'[p] = review[p]
  BY <1>4 DEF TypeOK, NewReview
<1>5. CASE CommitTick
  <2>1. ASSUME review'[r] # review[r] PROVE review'[r].kind = "annual"
    BY <1>5, <2>1, TickRows DEF NewReview
  <2> QED BY <2>1
<1> QED BY <1>1, <1>2, <1>3, <1>4, <1>5, ReviewStep

\* The first publication opens the review, and what was published stays so.
LEMMA PublicationReviews ==
  ASSUME TypeOK, FirstReview, OnePublicationReview, Next
  PROVE  FirstReview' /\ OnePublicationReview'
<1>1. published => published'
  BY DEF Next, VersionNext, StatusNext, ReviewNext, SchedulerNext, StartUpload,
     StartRestoreVersion, CommitUpload, CommitRestoreVersion, RequestFails, SetExternalLink,
     StartPublish, CommitPublish, Unpublish, Archive, Restore, ChangeStatus,
     RemoveByModerator, RestoreFromTrash, StartReview, CreateReview, DecideReview, StartTick,
     CommitTick, AbortTick, DeliverMail, LoseMail, AnnualDatePasses, docVars
<1>2. FirstReview'
  BY <1>1, PublicationKinds DEF FirstReview
<1>3. OnePublicationReview'
  <2> SUFFICES ASSUME NEW r \in Reviews, NEW q \in Reviews, r # q,
                      review'[r].kind = "publication", ~review'[r].late,
                      review'[q].kind = "publication", ~review'[q].late
               PROVE  FALSE
    BY DEF OnePublicationReview
  <2>1. CASE review[r].kind = "publication" /\ review[q].kind = "publication"
    BY <2>1, PublicationKinds DEF OnePublicationReview, Free
  <2>2. ASSUME NEW a \in {r, q}, review[a].kind # "publication" PROVE FALSE
    <3>1. ~published /\ \A p \in Reviews \ {a} : review'[p] = review[p]
      BY <2>2, PublicationKinds
    <3> QED BY <3>1 DEF FirstReview
  <2> QED BY <2>1, <2>2
<1> QED BY <1>2, <1>3

\* A new version leaves the earlier ones and their scans as they were.
LEMMA AddedVersion ==
  ASSUME TypeOK, NEW ok \in BOOLEAN, AddVersion(ok)
  PROVE  last' = last + 1 /\ \A v \in Versions : v <= last => clean'[v] = clean[v]
BY LifecycleAssumption DEF TypeOK, AddVersion, Versions

\* Versions are only added, and those added by a step are not published by it.
LEMMA VersionsGrow ==
  ASSUME TypeOK, Next
  PROVE  \/ UNCHANGED <<last, clean>>
         \/ /\ last' = last + 1 /\ \A v \in Versions : v <= last => clean'[v] = clean[v]
            /\ status' # "PUBLISHED"
<1>1. ASSUME NEW s \in Slots, CommitUpload(s), ~UNCHANGED <<last, clean>>
      PROVE  AddVersion(req[s].clean) /\ req[s].clean \in BOOLEAN /\ status' # "PUBLISHED"
  BY <1>1 DEF CommitUpload, StatusAfterUpload, TypeOK, Requests
<1>2. ASSUME NEW s \in Slots, CommitRestoreVersion(s), ~UNCHANGED <<last, clean>>
      PROVE  AddVersion(TRUE) /\ status' # "PUBLISHED"
  BY <1>2 DEF CommitRestoreVersion
<1>3. CASE \E s \in Slots : CommitUpload(s) \/ CommitRestoreVersion(s)
  BY <1>1, <1>2, <1>3, AddedVersion
<1>4. CASE ~ \E s \in Slots : CommitUpload(s) \/ CommitRestoreVersion(s)
  BY <1>4 DEF Next, VersionNext, StatusNext, ReviewNext, SchedulerNext, StartUpload,
     StartRestoreVersion, RequestFails, SetExternalLink,
     StartPublish, CommitPublish, Unpublish, Archive, Restore, ChangeStatus,
     RemoveByModerator, RestoreFromTrash, StartReview, CreateReview, DecideReview, StartTick,
     CommitTick, AbortTick, DeliverMail, LoseMail, AnnualDatePasses, versionVars
<1> QED BY <1>3, <1>4

\* A publication in progress is one that was, or has just read the versions.
LEMMA PublicationsStart ==
  ASSUME TypeOK, Next, NEW s \in Slots, Serving(s, "publish")'
  PROVE  \/ Serving(s, "publish") /\ req'[s].version = req[s].version
         \/ req'[s].version = last /\ AllClean /\ UNCHANGED <<last, clean>>
<1> USE DEF TypeOK, Serving
<1>i. Idle.kind # "publish"
  BY DEF Idle
<1>k. ASSUME NEW t \in Slots, NEW x, x.kind # "publish", req' = [req EXCEPT ![t] = x]
      PROVE  Serving(s, "publish") /\ req'[s].version = req[s].version
  BY <1>k
<1>1. CASE VersionNext
  <2>1. ASSUME NEW t \in Slots, NEW ok \in BOOLEAN, StartUpload(t, ok)
        PROVE  Serving(s, "publish") /\ req'[s].version = req[s].version
    <3>1. [Idle EXCEPT !.kind = "upload", !.clean = ok, !.version = last].kind # "publish"
      BY DEF Idle
    <3> QED BY <1>k, <2>1, <3>1 DEF StartUpload
  <2>2. ASSUME NEW t \in Slots, NEW v \in Versions, StartRestoreVersion(t, v)
        PROVE  Serving(s, "publish") /\ req'[s].version = req[s].version
    <3>1. [Idle EXCEPT !.kind = "restore", !.version = v].kind # "publish"
      BY DEF Idle
    <3> QED BY <1>k, <2>2, <3>1 DEF StartRestoreVersion
  <2>3. ASSUME NEW t \in Slots, CommitUpload(t) \/ CommitRestoreVersion(t) \/ RequestFails(t)
        PROVE  Serving(s, "publish") /\ req'[s].version = req[s].version
    BY <1>i, <1>k, <2>3 DEF CommitUpload, CommitRestoreVersion, RequestFails
  <2>4. CASE SetExternalLink
    BY <2>4 DEF SetExternalLink
  <2> QED BY <1>1, <2>1, <2>2, <2>3, <2>4 DEF VersionNext
<1>2. CASE StatusNext
  <2>1. ASSUME NEW t \in Slots, StartPublish(t)
        PROVE  \/ Serving(s, "publish") /\ req'[s].version = req[s].version
               \/ req'[s].version = last /\ AllClean /\ UNCHANGED <<last, clean>>
    BY <2>1 DEF StartPublish, Publishable, Idle, versionVars
  <2>2. ASSUME NEW t \in Slots, CommitPublish(t)
        PROVE  Serving(s, "publish") /\ req'[s].version = req[s].version
    BY <1>i, <1>k, <2>2 DEF CommitPublish
  <2>3. CASE Unpublish \/ Archive \/ Restore \/ RemoveByModerator \/ RestoreFromTrash
    BY <2>3 DEF Unpublish, Archive, Restore, ChangeStatus, RemoveByModerator, RestoreFromTrash
  <2> QED BY <1>2, <2>1, <2>2, <2>3 DEF StatusNext
<1>3. CASE ReviewNext
  <2>1. ASSUME NEW t \in Slots, NEW v \in 0 .. MaxVersions, StartReview(t, v)
        PROVE  Serving(s, "publish") /\ req'[s].version = req[s].version
    <3>1. [Idle EXCEPT !.kind = "review", !.version = v].kind # "publish"
      BY DEF Idle
    <3> QED BY <1>k, <2>1, <3>1 DEF StartReview
  <2>2. ASSUME NEW t \in Slots, CreateReview(t)
        PROVE  Serving(s, "publish") /\ req'[s].version = req[s].version
    BY <1>i, <1>k, <2>2 DEF CreateReview
  <2> QED BY <1>3, <2>1, <2>2 DEF ReviewNext, DecideReview
<1>4. CASE SchedulerNext
  BY <1>4 DEF SchedulerNext, StartTick, CommitTick, AbortTick, DeliverMail, LoseMail,
     AnnualDatePasses
<1> QED BY <1>1, <1>2, <1>3, <1>4 DEF Next

LEMMA ReadStep == ASSUME TypeOK, ReadClean, Next PROVE ReadClean'
<1> SUFFICES ASSUME NEW s \in Slots, Serving(s, "publish")'
             PROVE  /\ req'[s].version <= last'
                    /\ \A v \in Versions : v <= req'[s].version => clean'[v]
  BY DEF ReadClean
<1>0. /\ last \in Nat /\ req[s].version \in Nat /\ req'[s].version \in Nat
      /\ \A v \in Versions : v \in Nat
  BY NextTypes, LifecycleAssumption DEF TypeOK, Requests, Versions
<1>1. CASE Serving(s, "publish") /\ req'[s].version = req[s].version
  <2>1. req[s].version <= last /\ \A v \in Versions : v <= req[s].version => clean[v]
    BY <1>1 DEF ReadClean
  <2>2. \A v \in Versions : v <= req[s].version => v <= last /\ clean[v]
    BY <1>0, <2>1
  <2>3. CASE UNCHANGED <<last, clean>>
    BY <1>1, <2>1, <2>3
  <2>4. CASE last' = last + 1 /\ \A v \in Versions : v <= last => clean'[v] = clean[v]
    BY <1>0, <1>1, <2>1, <2>2, <2>4
  <2> QED BY <2>3, <2>4, VersionsGrow
<1>2. CASE req'[s].version = last /\ AllClean /\ UNCHANGED <<last, clean>>
  BY <1>0, <1>2 DEF AllClean
<1> QED BY <1>1, <1>2, PublicationsStart

\* A published document was so before, or a publication just published it.
LEMMA StatusStep ==
  ASSUME TypeOK, Next, status' = "PUBLISHED"
  PROVE  \/ status = "PUBLISHED" /\ unread' = unread
         \/ \E s \in Slots :
              /\ Serving(s, "publish") /\ UNCHANGED <<last, clean>>
              /\ unread' = {v \in Versions : req[s].version < v /\ v <= last}
<1>1. CASE VersionNext
  BY <1>1 DEF VersionNext, StartUpload, StartRestoreVersion, CommitUpload,
     CommitRestoreVersion, RequestFails, SetExternalLink, StatusAfterUpload, docVars
<1>2. CASE StatusNext
  BY <1>2 DEF StatusNext, StartPublish, CommitPublish, Unpublish, Archive,
     Restore, ChangeStatus, RemoveByModerator, RestoreFromTrash, docVars, versionVars
<1>3. CASE ReviewNext
  BY <1>3 DEF ReviewNext, StartReview, CreateReview, DecideReview, docVars
<1>4. CASE SchedulerNext
  BY <1>4 DEF SchedulerNext, StartTick, CommitTick, AbortTick, DeliverMail, LoseMail,
     AnnualDatePasses, docVars
<1> QED BY <1>1, <1>2, <1>3, <1>4 DEF Next

LEMMA ScanStep ==
  ASSUME TypeOK, ReadClean, PublishedWasScanned, Next
  PROVE  PublishedWasScanned'
<1> SUFFICES ASSUME status' = "PUBLISHED", NEW v \in Versions, v <= last', ~clean'[v]
             PROVE  v \in unread'
  BY DEF PublishedWasScanned
<1>1. UNCHANGED <<last, clean>>
  BY VersionsGrow
<1>2. CASE status = "PUBLISHED" /\ unread' = unread
  BY <1>1, <1>2 DEF PublishedWasScanned
<1>3. ASSUME NEW s \in Slots, Serving(s, "publish"),
             unread' = {u \in Versions : req[s].version < u /\ u <= last}
      PROVE  v \in unread'
  <2>1. ~(v <= req[s].version)
    BY <1>1, <1>3 DEF ReadClean
  <2>2. req[s].version \in Nat /\ v \in Nat
    BY LifecycleAssumption DEF TypeOK, Requests, Versions
  <2> QED BY <1>1, <1>3, <2>1, <2>2
<1> QED BY <1>2, <1>3, StatusStep

LEMMA PublishInit == Init => PublishInv
<1> SUFFICES ASSUME Init PROVE PublishInv
  OBVIOUS
<1>1. ReadClean
  BY DEF Init, ReadClean, Serving, Idle
<1>2. PublishedWasScanned /\ FirstReview /\ OnePublicationReview
  BY DEF Init, PublishedWasScanned, FirstReview, OnePublicationReview, Free
<1> QED BY <1>1, <1>2, InitTypes DEF PublishInv

LEMMA PublishStep == PublishInv /\ [Next]_vars => PublishInv'
<1> SUFFICES ASSUME PublishInv, [Next]_vars PROVE PublishInv'
  OBVIOUS
<1>1. CASE Next
  BY <1>1, NextTypes, ReadStep, ScanStep, PublicationReviews DEF PublishInv
<1>2. CASE UNCHANGED vars
  BY <1>2 DEF vars, PublishInv, TypeOK, ReadClean, PublishedWasScanned, FirstReview,
     OnePublicationReview, Serving
<1> QED BY <1>1, <1>2

\* However many uploads, restorations and publications overlap, a version that failed
\* the scan is in a published document only if it was added between the reading of the
\* scans and the transaction of that publication; any later upload takes the document
\* out of publication.
THEOREM PublishedFilesWereScanned == Spec => []PublishedWasScanned
<1>1. PublishInv => PublishedWasScanned
  BY DEF PublishInv
<1> QED BY <1>1, PublishInit, PublishStep, PTL DEF Spec

\* However many publications overlap, a document has one publication review, and
\* further ones only from publications that had read firstPublication before the first
\* one was made.
THEOREM PublicationReviewIsSingle == Spec => []OnePublicationReview
<1>1. PublishInv => OnePublicationReview
  BY DEF PublishInv
<1> QED BY <1>1, PublishInit, PublishStep, PTL DEF Spec
=============================================================================
