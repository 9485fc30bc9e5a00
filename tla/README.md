# Verification of the ISMS portal

TLA+ models of the parts of the ISMS portal (`apps/api`, and the batch import of
`apps/web`) in which several processes share state: API requests, the worker's scheduler transaction, the
worker's tasks outside that transaction, the mail queue and crashes between any
two of their steps. TLC checks each model on small instances; TLAPS proves the
main safety properties for every value of the constants.

## 1. The system

One PostgreSQL database, one Redis (BullMQ queues), one object store, any number
of API processes and any number of worker processes.

* An **API request** is a NestJS handler. Unless it opens a Prisma
  `$transaction`, each statement commits on its own: what a handler read may have
  changed before it writes. `updateMany` with a condition is the code's
  compare-and-set; `update` by id is not conditional.
* The **scheduler tick** (`worker.ts`, every minute) is one transaction of at
  most 120 s under an advisory lock (`scheduler-lock.ts`): one worker at a time.
  Calls to Redis made inside it are not undone by a rollback.
* The **GED tasks** (`ged-worker.ts`, time-stamping) run outside it, in every
  worker at once; rows are claimed by conditional updates.
* The **mail worker** takes jobs from BullMQ, which retries failed attempts and
  gives the jobs of dead workers to others.

### Inventory

| Component | State | Operations | Hard because | What makes it correct |
|---|---|---|---|---|
| Audit journal and hash chain | `AuditEvent` rows, `AuditSeal` rows | record, purge, chain, seal, time-stamp, verify | late commits, purges that cut the chain, several workers | unique indices, order of time, no false alarm, no missed alteration, everything sealed |
| Retention and destruction | `RetentionPolicy`, approvals, documents, files, objects | save, decide, flag due, destroy, delete, trash | check-then-write requests, crash in the middle of a destruction, storage failures | two administrators, true records, no resurrection, holds released by two, completion |
| Notifications | `NotificationOutbox`, BullMQ jobs with their `accepted` list | record, dispatch, send, retry, prune | crash between an effect and its record, recomputed audience, outages | copies only after faults, "sent" is true, nothing forgotten |
| Document lifecycle and reviews | `Document.status`, versions and scans, `DocumentReview`, annual dates | upload, restore a version, publish, archive, trash, review, scheduler | files handled between check and write, mail and scheduler out of step | only scanned files published, nothing published in the trash, one review at a time, final decisions, no document outside the cycle |
| Versions, labels, receipts | `DocumentVersion`, stored files, objects, receipt ids | upload, restore, publish, move, delete, replay | latest version read before the row lock, commit without acknowledgement, storage outside the transaction | an attempt stored once, no version without file, no forgotten object, labels are names |
| Batch import (browser) | items with status and document id, pending summary | run, retry, new batch, retry summary | answers lost or late, two statements between duplicate check and insertion | no double import, announced once, a run ends |
| Content index and OCR | `DocumentVersionContent` | claim, extract, fail | claims of dead workers | every version indexed or failed |
| Sensitive approvals | `SensitiveOperationApproval` | request, decide, use | check-then-use | one use, four eyes |
| Administrator accounts | `AdminAccount`, `AdminSession` | create, login, password, second factor, disable, remove | counter read and written back, logins in flight while sessions are deleted | failures lock, changes end sessions, factors are proven |
| Authorization | rules, categories, owner, grants | evaluate, change the tree, save rules | inheritance, expiry, tree changed between check and write | nearest rule decides, the tree is a tree, nothing widens unnoticed |
| Directory synchronization | groups, sync jobs | import, search, remove stale, purge | directory changing or failing in the middle | an outage costs no rule |
| Signatures, share links, named shares | requests, entries, links with counters, `SensitiveShare`, watermarked copies | sign, cancel, open a link, share, revoke, remind, mark sensitive | two signers at once, counter at its limit, switch and marking in two statements | final decisions, limits respected, no access left behind |
| Alerts and health | alert states, cooldowns | detect, send, clear | lost sends | no storm, no silence |
| Storage, antivirus, watermark, MIP | objects | put, get, remove, scan | I/O | used through the models above |
| Metadata, risks, incidents, tools, branding, metrics, web client | rows | create, update | no shared protocol | validation |

`PROJECT.json` lists each component with its sources and why it is or is not
modelled, and under "hazards" the lines where tests hardly reach.

### How the components interact

`persistAudit` writes the audit event and the outbox row in the caller's
transaction. The tick dispatches the outbox, purges and chains the journal,
seals it, flags due retentions, opens annual reviews and queues their mails. The
mail worker writes back to the document versions (`annualReviewNotifiedAt`), which
the next tick reads. Destruction writes to the journal; the trash and the
permanent deletion change documents the retention workflow refers to. The batch
import of the browser relies on the upload receipts; a group removed by a
synchronization takes access rules with it; a publication promotes versions and
prepares the watermarked copies that sharing hands out.

## 2. Modules

| Module | Models | Size of a step |
|---|---|---|
| `AuditChain` | `audit-event.ts`, `audit.service.ts`, `audit-chain.ts`, purge of `notification-outbox.ts`, maintenance of `worker.ts` | a tick (purge, chain, seal) is one step: it is one transaction under the lock. Recording is begin and commit or abort; time-stamping is one step per seal |
| `Retention` | `saveRetention`, `retentionDecision`, the approval gate, trash, deletion, upload, `flagDueRetentions`, `executeApprovedDestructions` | handlers that check and then write take two steps in a slot; the destruction takes a step per claim, per removed object, and for the final transaction |
| `NotificationDelivery` | `dispatchOutbox`, `enqueue`, `process`, `retryDelivery`, `maintainHistory`; BullMQ and the transport are external | a step per row handed over, per message sent, per record of a send |
| `DocumentLifecycle` | upload, `restoreVersion`, `publish` with `publishWithReview`, status changes, trash, `createReview`, `recordReviewDecision`, the annual reviews of the tick and their mail | two steps for handlers that work on files between their check and their transaction, one for a conditional statement; the tick reads, then commits or is rolled back |
| `UploadOnce` | abstract: what an upload with a receipt promises its client | an attempt is stored, confirmed, or the document is discarded |
| `VersionHistory` | both `upload` handlers, `restoreVersion`, `promoteLatestToMajor`, `updateMetadata` (language), trash, `remove`; implements `UploadOnce` | checks, storage, read of the latest version, commit and cleanup are steps of their own: the transaction reads before it locks |
| `BatchImport` | `batch-import.tsx` and the API as it sees it; uses `UploadOnce` as its upload service | a step per request sent, served, answered or given up |
| `AdminAccounts` | `login`, `logout`, `createAccount` with its approval, `changePassword`, second factor, `updateAccount`, `removeAccount` | a step per statement |
| `CategoryAccess` | `permittedSpacesFor`, `resolveCategories`, categories, filing, groups, rules, grants, owner, `synchronize` | check and write of a creation, a move, a deletion and a filing are two steps; a synchronization takes one per group |
| `DocumentSharing` | `decide`, `cancel`, share links, `saveSharing`, named shares and reminders, `setSensitivity`, `stream` | a step per statement; a behaviour is about signatures, links or named shares, which share only the document |
| `MC...` | instances for TLC: symmetry sets and initial values | |
| `...Proofs` | inductive invariants, lemmas and theorems of the module they are named after; `AccessProofs` is about `AdminAccounts` and `CategoryAccess`, which it extends together (hence `AccessInit`, `AccessNext`, `Tasks` in the latter) | |

Definitions keep the names of the code. A comment `Fault:` marks an operator that
is not the code: a plausible mistake, used to show that a property can fail.

Abstractions:

* SHA-256 is ideal: a digest is the list of what was hashed into it.
* Time is a bounded clock in `AuditChain` (the settling delay, the retention and
  the seal interval are compared with it). In `Retention` and `DocumentLifecycle`
  a date is unset, future or past, and passing it is a step of its own.
* A scan is its verdict; a watermark, a required field or a lost connection is a
  request that may fail.
* The audience of a notification is any set of recipients, chosen again on every
  attempt, as `prepare` recomputes it.
* A document has one language in `DocumentLifecycle`: version numbers and the
  conflict check of an upload are per language. The scan rule of `publish` ranges
  over all versions of all languages, which one language already exercises.
* `VersionHistory` lets every file pass the scan and knows published or not
  (`DocumentLifecycle` has the rest). `BatchImport` identifies an attempt with a file
  of a batch, since an item keeps its `uploadRequestId`; its documents are new ones,
  which `VersionHistory`, with its one document, leaves to it. Which documents the user
  may edit is chosen anew for every search.
* `CategoryAccess` has one of the nine permissions, which are decided alike, and
  changes the tree before the first group comes; the decision is still taken on
  every tree and every set of rules. There is one space: the branch of
  `updateCategory` that moves a category to another space is left out. `directory` is
  the set of the groups found under a name: one without a name is passed over by the
  code and counts as absent.
* The edit lock of an upload is advisory and left out of `VersionHistory`.
* `DocumentSharing` counts the downloads of links with a limit only; the code also
  counts the others and shows the number in the list of links.
* `AdminAccounts` is about a portal with administrators beside the account it follows;
  with one active account or group in all, the gate is open and the requester passes
  alone (`sensitive-approval.service.ts:79`).
* `verifyAuditChain` looks at the newest 500 seals, the model at all of them, which are
  fewer.
* Where the code reads, then writes without a condition, the overlap of two
  requests is a step of the model, and a history variable (`raced`, `crossed`,
  `overlapped`, `blind`, `moved`, `leaked`, and `against`, `unread`, `late` on a row)
  remembers that it happened. A property that says "unless" shows that nothing else
  leads there; it does not show that the named overlap is harmless, and where the
  history is never reset (`raced`, `crossed`) it says nothing of what comes after.
  What the overlaps do is listed under Known deviations.
* A row rewritten behind the application's back (`Alter`) stands for what the
  chain is meant to detect; only the hashed columns are rewritten.

### Refinement

`VersionHistory!ExactlyOnce` is the specification of `UploadOnce` under the mapping
that counts the versions made by each attempt (`rows`) and takes permanent
deletion for `closed`. TLC checks it as a property of the run `versions`, and the
theorem `UploadsExactlyOnce` proves it for every value of the constants: however
often an attempt is repeated, overlaps itself, loses its answer or crashes, it
makes one version, and a client is told so only when it exists. `BatchImport` takes
this promise, not the handler, as its upload service.

## 3. Runs

| Run | Expect | Question |
|---|---|---|
| `audit_keep` | pass | Without retention: no false alarm, seals partition the chain, every committed row is sealed in the end |
| `audit_retention` | pass | With retention: unique indices, order of time, every rewritten row reported |
| `retention_overlap` | pass | Two requests at a time: a destruction is approved by another than the requester it was checked against, a hold ends by two, by a first save or with the document |
| `retention_workers` | pass | Two workers, two crashes or storage failures: true records, no resurrection, approved destructions end |
| `delivery` | pass | Copies only after faults, "sent" is true, nothing is forgotten |
| `lifecycle` | pass | Two requests at a time: no version is published unscanned but one added during that publication, nothing published in the trash, single reviews, final decisions |
| `lifecycle_scan` | violation | A quarantined version committed while a publication is prepared is published |
| `versions` | pass | Uploads are exactly-once, versions keep their files, files are not forgotten, labels stay names, a published document is at a major version |
| `batch_import` | pass | What may be sent again was not stored, one document per file the search can see, one announcement, runs end or wait for the reload |
| `accounts` | pass | Failures lock, a password change or a disabling leaves no session, factors are proven, accounts are approved by another |
| `access` | pass | The tree stays a tree, documents stay visible, the nearest rule decides, a failing directory removes nothing, only the last rule of a category widens |
| `sharing` | pass | Signature outcomes, download limits, revocation, one active share, one reminder, no original of a sensitive document |

A property that is a conjunction names its parts, each with its own comment in the
module. Every property of a passing run has a mutant in `PROJECT.json`, and every part
of a conjunction one: a mistake in one definition that makes TLC report it. `TypeOK` of
the five newer modules (`AccessTypeOK` in `CategoryAccess`) is not among the runs'
properties, which are kept for what could go wrong; it is proved.

### Known deviations

`lifecycle_scan` is explained under "findings". The models show these others. Where a
definition is named, it is in the module, and added to a cfg TLC prints the sequence.

* `NoFalseAlarm` with a retention period: a purge that empties the journal restarts
  the chain at index 1 (`audit-chain.ts:65`) while the old seals keep their last
  index, and verification reports a mismatch nobody caused.
* `RetentionEndRespected`: a later retention date saved after the approval leaves the
  destruction approved (`governance.controller.ts:845`); the worker destroys the
  document before that date. `docs/document-management.md:177` says it is refused.
* The update of an approved destruction names the policy by its id
  (`governance.controller.ts:927`). A request that was withdrawn and made again by the
  approver between his check and his update is approved by its author; one that was
  only withdrawn is approved without a requester. `TwoPersonDestruction` therefore
  speaks of the requester who was read, not of the one in the record.
* The gate asks for an approval only when there is a policy
  (`governance.controller.ts:824`): two overlapping first saves may set a hold and
  release it. `HoldReleasedByTwo` names them.
* An approval is marked executed after the operation it was granted for
  (`sensitive-approval.service.ts:125`): two overlapping saves, or a crash before the
  mark, use it twice. Nothing here claims that it is used once.
* A publication that read `firstPublication` before another one, which a moderator then
  withdrew, was made (`controllers.ts:4128`) opens a second publication review
  (`late` in `OnePublicationReview`).
* `PublishedInCycle`: only the first publication opens a review
  (`publication-review.ts:30`); a version published later gets no annual date.
* `AnnualReviewNotLost`: the mail of a tick that is rolled back (`worker.ts:277`), or
  one delivered after the approval of its review, marks the version as announced
  and the scheduler skips it from then on.
* Without a receipt, an upload whose commit is not acknowledged removes the object of
  the committed version (`controllers.ts:1125`); `FilesPresent` is stated for receipts.
* A category created or moved under one that is deleted between check and write
  (`controllers.ts:3286`, `3295`) stays live under a deleted parent, where the walk of
  `resolveCategories` gives nobody access; two crossing moves make a cycle.
* The search for duplicates sees live documents the user may edit
  (`controllers.ts:995`, `document-management.ts:12`): a file whose document is in the
  trash, or where the user may no longer edit, is stored again (`blind`).
* At the end of a run the page loads its list without a timer
  (`batch-import.tsx:288`, `539`): if that request is never answered the batch stays
  busy. `RunsEnd` says that nothing else holds a run up.
* The other overlaps behind `raced`, `late` and `overlapped`: two last signers, a decision
  written over a cancellation, a link created while sharing is switched off, two shares
  with one person, two uploads of one file, two wrong passwords, a login during a
  change of password. Each needs two requests between two statements of one handler,
  or a crash there.

### Bounds

* `AuditChain`: three events. Two are enough for an order and a purge of the
  chain's old end, the third makes the chain continue after a purge. The
  clock covers settling (1), retention (2), maintenance (2) and sealing (1) with
  room for a late commit; `Batch` 2 or 3 makes a tick leave rows behind or take
  all of them. `audit_keep` uses `Batch` 3 so that liveness does not depend on
  more ticks than the clock allows.
* `Retention`: one document with two files and two administrators (the smallest
  number for four eyes). `retention_overlap`: two slots, one approval row, one worker
  without faults. `retention_workers`: one slot, a third file for an upload, two workers
  (a claim and a second claim), two crashes or storage failures, no approval rows. A
  batch of one policy is not contended with one document; the proofs have any number.
* `NotificationDelivery`: one event, two recipients (one served, one not), one
  worker, two attempts, two faults: the second fault may hit the recovery from
  the first. Events do not share state, so one is enough.
* `DocumentLifecycle`: two slots, two versions (an old clean one under a new one), two
  review rows (one publication or manual review beside an annual one, or two of a
  kind), and the annual date of the first version (`Dated`). `View` merges states that
  differ only in what no later step and no property reads.
* `VersionHistory`: two slots, two languages, one numbered attempt that may be sent
  any number of times beside uploads without a number, and three UUIDs, which bound
  versions and objects together: three versions, or two and an orphan. One version
  moves to the other language, once (`MoveBound`); after a move nothing is claimed of
  the labels of the two languages.
* `BatchImport`: two files and two batches, the least for a summary of several
  documents and for a file that is sent again under a new number. Moderators change,
  remove and restore one of the documents (`Touched`).
* `AdminAccounts`: two slots, two administrators (one asks, one approves), two ids, so
  that an account is created again after its removal (perhaps with an approval that a
  crash left unused), and two failures to the lock instead of five: one below the
  limit and the one that reaches it.
* `CategoryAccess`: two categories (the smallest cycle), two groups, two rules or
  grants at a time, two tasks.
* `DocumentSharing`: two signers, two named shares of one person, links with no limit,
  one or two downloads, two slots.

Deadlock is checked everywhere but where the model really stops: once every
document is permanently deleted or the names are used up (`Retention`,
`VersionHistory`), after the last batch (`BatchImport`), and when the account is
removed and its secrets are used up (`AdminAccounts`). Symmetry is used on
slots, ids, groups, categories, signers and administrators, which no operator tells
apart, in runs without liveness properties.

### Fairness

* `AuditChain`: the timer fires every minute (`Tick`), transactions end
  (`Commit`), time passes. Nothing is assumed of time-stamping.
* `Retention`: a worker's steps go on while it is up, a crashed worker is
  restarted (the crash is bounded by `MaxFaults`), thirty minutes pass. No
  administrator is assumed to act.
* `NotificationDelivery`: the tick runs and its steps go on; delays end; stalled
  jobs are taken back; the queue is first in first out, hence strong fairness of
  taking a waiting job, which a busy worker disables again and again.
* `BatchImport`: the loop of the page goes on and its timer of 120 s fires. Nothing is
  assumed of the network or the API, and nothing of the reload, which has no timer.

## 4. Proofs

Every component has its proofs. They establish an inductive
invariant for every value of the constants (any number of slots, workers, documents,
files, events, batches and faults) and derive from it the safety properties the
runs check. The invariants were checked with TLC before they were proved.

| Theorem | For every | Argument |
|---|---|---|
| `AuditChainProofs!TypeCorrect` | all constants | the digest of a batch is a digest by the recursion over the batch's positions |
| `AlterationsAreReported` | purge, batches, seals | `RowsHashed`: a row not yet chained is unaltered, the hash of a chained row covers it as recorded; so a rewritten row fails its own check whatever surrounds it |
| `IndicesAreUnique` | purge | rows are appended above the greatest remaining index; `OpenUnchained`: rows not committed have no index |
| `ChainFollowsTime` | `MaxTx <= Settle` | `PendingAfterChained`: an open row is younger than the settling delay, a chained one older, so no later row precedes a chained one |
| `NoFalseAlarmWithoutRetention` | `RetentionAge = 0` | `ChainLinked`: without a purge every row stores the digest of the row before it and every seal that of a row. With a purge it is false (Known deviations) |
| `SealsCutTheChain` | with or without a purge | `DigestsMeasure`: a digest covers as many rows as its index says, also after a purge that emptied the chain (index and digest start over together); a seal is due only above the last one, and a time-stamp changes nothing but the token |
| `RetentionProofs!TypeCorrect` | all constants | `TypeInv`: a request in progress names what its kind needs |
| `DestructionTakesTwo` | any slots, workers, documents, faults | `TwoInv`: an approval in progress read the request of another administrator (`ApproveTwo`), and this pair of names is on every policy approved or being destroyed, in every snapshot a task holds and in every record. `WorkerCopies`: a worker writes no name, it carries those of an approved policy to its snapshot and to the record |
| `DestroyedStaysDestroyed` | any slots and workers | no writer of `deletedAt` or `destroyedAt` accepts a destroyed document |
| `RecordsStayTrue` | any slots, workers, faults | `GoneInv`: a file id belongs to one document through versions, requests, snapshots, removals and records (`OwnersApart`), so the deletion of another document unmarks none of a record's files; a task still has to remove every stored file its record will list (`LeftToRemove`); what is purged is not stored |
| `HoldsTakeTwo` | any slots, workers, faults | `GrantInv`: a granted approval is another administrator's, and the one a save carries was granted by another, to its author and for its document, even if a second save has spent it since. A first save carries none |
| `NotificationDeliveryProofs!TypeCorrect` | all constants | `Attempted`, `LostBound`: a job that may run has an attempt left, a fault hides at most two effects |
| `DuplicatesAlwaysNeedFault` | any events, recipients, workers | `Budget`: for an event and a recipient, the copies, plus one while the application does not know that it handed the event over, plus one while the job still owes the message, are at most one more than the effects that faults hid. The property alone is not inductive: it forgets what is still to come |
| `SentAlwaysMailed` | the same | `Serving`: what a mail worker has not to serve any more was mailed, and what it has still to serve is not on the list of the accepted |
| `DocumentLifecycleProofs!TypeCorrect` | all constants | one lemma per group of actions |
| `TrashHoldsNothingPublished` | any slots | inductive as it stands: the publishing statement asks for a live document |
| `AnnualReviewsAreSingle` | any slots | `ReviewStep` (what a step may do to a review) and `TickRows` (a tick writes on free rows, one per version, never for a version under review) |
| `DecidedReviewsStay` | any slots | the same two lemmas |
| `PublishedFilesWereScanned`, `PublicationReviewIsSingle` | any slots | `PublishInv`: the versions a publication in progress read are still clean (`ReadClean`), so what it publishes uncleanly was added since; a document never published has no publication review (`FirstReview`), so of two that are not late one was opened by a publication that saw the other |
| `VersionHistoryProofs!TypeCorrect` | any slots, languages, attempts, names | `RowInv`: every row has a name of its own, an object a request has stored is in no row and no other request, numbers count rows |
| `FilesAlwaysMatch` | the same | `FileInv`: what a request stored is there until the document is deleted and only the row of its own attempt uses it, so its cleanup cannot take another's file; what a deletion listed is in use |
| `LabelsAlwaysSound` | the same | `Labelled`: in a language no version left or entered, numbers have no gap, the last version has the last label, and as long as nothing followed the row a request read, no label is beyond it |
| `UploadsExactlyOnce` | the same | the refinement of `UploadOnce`, step by step: the row of an attempt carries the attempt's id, so at most one is made; a step that makes it is `Store`, an answer `Confirm`, a deletion `Discard`, all others stutter |
| `AccessProofs!TypeCorrect` | any slots, ids, tokens | a session is one of an account that is there, and there is one account |
| `ChangesAlwaysEndSessions` | the same | a login past its check knows whether password or activity changed under it; the request that changed them is still to delete |
| `LoginAlwaysGuarded` | the same | `Counting`: without a stale write the row counts at least the failures there were; a second factor that is enabled is the one the code was checked against |
| `AlwaysApprovedByAnother` | the same | `Approved`: approver and requester of a granted approval differ, and a request that passed the gate holds such a one |
| `AccessTypeCorrect` | any finite set of categories, any groups, rules, tasks | `TasksTyped`: what a request keeps from its check to its write names what its kind needs |
| `FilingAlwaysSound` | the same | `ReadsSound`: a tree change that nothing overtook still finds the tree it checked; `TreeRests`: once there is a group, no tree change is under way. `CreateBranch`, `MoveTree`, `DeleteTree`: a new category, a move not below itself and a deletion that hands the children to the parent leave every category connected to the root |
| `NearestRuleAlwaysDecides` | the same | `TreeGrounded`: no nonempty set of categories contains the parents of all its members; `HeightFalls`: so the number of live categories above one bounds its distance from the root; `WalkFindsRule`: the categories for which the walk of `resolveCategories` gives another answer than the nearest rule are such a set, hence none |
| `RemovalsAlwaysSound` | the same | `SearchSound`: every group with a connection is still to be searched, was found, is absent or was imported since the list was read, so a synchronization, which keeps what it found, removes absent and newer ones only; `WidensOnlyByInheritance`: taking rules away gives nobody a permission unless a category loses its last rule and inherits |
| `BatchImportProofs!TypeCorrect` | any files and batches | `ClientTypes`, `ServerTypes` |
| `AlwaysImportedOnce` | the same | `Shown`: the browser waits for the line the loop is at; `ServedApart`, `CheckedApart`: two requests for one file, or one and a stored document, met only if the file was sent again meanwhile, or the search could not see that document |
| `AlwaysAnnouncedOnce` | the same | `Summaries`, `Covered`: a pending summary is one that was not acknowledged or was never sent, and what is shown as published is in one of them |
| `DocumentSharingProofs!TypeCorrect` | any signers, shares, slots | `Prepared`: what a request keeps from its reads to its write |
| `SignaturesAlwaysSound` | the same | `EntryLocked`, `WritersKnow`, `CountCurrent`: a transaction is alone on its entry, and one during which no other committed still has the right outcome |
| `LinksAlwaysSound` | the same | `CountsServed`: the counter is what was served; `CreatorsKnow`: a creation under way when sharing is disabled knows it |
| `OriginalsStay` | the same | the original is opened only while the document is not sensitive |
| `SharesAlwaysSound` | the same | `SharersKnow`, `MarkersKnow`: a share or a marking that nothing overlapped found the document as it still is; `ReminderInv`: one claim holds a row and it is mailed after that claim only |
| `EndingsAreFinal` | the same | what a step does to entries, request and link, from `EntryLocked` and `WritersKnow` |

The assumptions are those named in the modules: finite sets of rows, files and names,
placeholders (`Null`, `None`, `Unset`, `NoReceipt`) that are no id, a finite set of
categories, positive batches,
`MaxTx <= Settle` (5 s and 120 s against 5 min) and a retention longer than the
settling delay. No theorem limits the requests served at the same time.

The induction theorems of the library take an operator as a parameter, which the
installed provers do not instantiate. Where a proof needs an induction it is by sets:
`LeastElement` (a nonempty set of naturals has a least member, from the
well-foundedness of `<`) shows that the recursion of the walk has a solution
(`IteratesExist`, `Walks`); the shape of the tree is stated by sets closed under
`parent` (`Branch` is the least of them), and what holds of every category is shown by
`TreeGrounded`.

Only model-checked: the liveness properties (`EventuallySealed`,
`DestructionCompletes`, `EventuallySettled`, `RunsEnd`). Liveness under fairness is
beyond this prover, as is `ENABLED`.

## 5. Plan

Done: the audit chain, retention, delivery and lifecycle modules, because they carry
the promises the portal is bought for (evidence, destruction, notification and
control of published documents); then versions and uploads with their abstract
specification, the batch import, accounts, access and sharing; then the proofs of
every safety property of these modules.

Next, in order:

1. `ContentIndex`: claims, attempts and stale claims of the extraction task
   (`ged-worker.ts`, lines 31 to 146).
2. Moderators, directory accounts and the identity cache of `auth.service.ts`.
3. Edit locks; cooldowns of health alerts; migration between storage targets.

## 6. Not modelled

Formats and layout (DER, PDF, Office, mail bodies), cryptography, LDAP and OIDC
protocols, metrics, and record keeping that is one validated statement (risks,
incidents, the statement of applicability, articles, preferences, branding). The
report of `verifyAuditChain` is evaluated in one state although the code reads it in
pages. Destruction's erasure of comments, links, subscriptions and indexed text
happens in the final transaction and is not told apart from it.

Two thirds of the repository's lines are the web client: pages that render what the
API answers (`admin/page.tsx`, `page.tsx`, `governance-panel.tsx`, `moderator/page.tsx`
and their panels), message catalogues and the help text. Apart from the batch import
they keep no state between two requests, and a model of them would say nothing of the
program. Of the API, listings, exports, searches and validation classes are
read-only; what remains to be modelled faithfully is listed in the plan.

## Running

    tlc -workers 2 -config AuditChain_keep.cfg MCAuditChain
    tlapm AuditChainProofs.tla
