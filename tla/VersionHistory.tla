--------------------------- MODULE VersionHistory ---------------------------
(***************************************************************************)
(* The versions of one document: how an upload puts a file in the storage  *)
(* and a row in the database, how a version is restored, renumbered as     *)
(* major by a publication, or moved to another language (controllers.ts,   *)
(* ged.controller.ts, upload-receipt.ts, version-label.ts).                *)
(*                                                                         *)
(* Both upload handlers have the same steps: checks, storage, transaction, *)
(* and the cleanup of a transaction that failed.  The transaction reads    *)
(* the latest version before it locks the document row, so its read and    *)
(* its write are two steps.  A transaction whose commit was acknowledged   *)
(* to nobody either took effect before the cleanup looks, or never does.   *)
(*                                                                         *)
(* The status is only published or not, and every file passes the scan:    *)
(* DocumentLifecycle models those.                                         *)
(***************************************************************************)
EXTENDS Integers, FiniteSets

CONSTANTS
  Locales,
  Attempts,      \* uploadRequestIds sent by the clients
  LocaleOf,      \* the language on the form of each attempt
  NoReceipt,     \* an upload without an uploadRequestId
  Names,         \* UUIDs the API draws for rows and objects (bounds both)
  Slots,         \* requests served at the same time
  None

ASSUME HistoryAssumption ==
  /\ LocaleOf \in [Attempts \cup {NoReceipt} -> Locales]
  /\ IsFiniteSet(Names)
  /\ NoReceipt \notin Attempts \cup Names /\ Attempts \cap Names = {}
  /\ None \notin Attempts \cup Names \cup Locales

VARIABLES
  place,      \* "live", "trash" once deletedAt is set, "gone" once deleted
  published,  \* status is PUBLISHED
  versions,   \* DocumentVersion rows with their stored file's key
  objects,    \* keys of the objects in the storage
  req,        \* the request served in each slot
  confirmed,  \* attempts answered with success (history)
  moved,      \* languages a version left or entered (history)
  leaked      \* objects left behind by a fault or a lost race (history)

docVars == <<place, published>>
history == <<confirmed, moved, leaked>>
vars == <<place, published, versions, objects, req, confirmed, moved, leaked>>

Numbers == 0 .. Cardinality(Names)
Rows == [id : Attempts \cup Names, request : Attempts \cup {NoReceipt, None},
         loc : Locales, n : Numbers, major : Numbers, minor : Numbers, key : Names]

Steps == {"idle", "checked", "stored", "read", "cleanup",
          "restore", "restoreRead", "delete"}
Idle == [step |-> "idle", att |-> None, loc |-> None, key |-> None,
         prev |-> None, n |-> 0, major |-> 0, minor |-> 0,
         files |-> {}]
At(s, step) == req[s].step = step
Failed(r) == [Idle EXCEPT !.step = "cleanup", !.att = r.att, !.key = r.key]
Goto(s, r) == req' = [req EXCEPT ![s] = r]

InUse == {v.id : v \in versions} \cup {v.key : v \in versions} \cup objects
           \cup {req[s].key : s \in Slots}
Fresh == Names \ InUse

Of(loc) == {v \in versions : v.loc = loc}
Latest(loc) == CHOOSE v \in Of(loc) : \A w \in Of(loc) : w.n <= v.n
NoRow == [id |-> None, n |-> 0, major |-> 0, minor |-> 0]
LatestOrNone(loc) == IF Of(loc) = {} THEN NoRow ELSE Latest(loc)

\* The document exists, perhaps as an external link without a file.
Init ==
  /\ place = "live" /\ published = FALSE
  /\ versions = {} /\ objects = {}
  /\ req = [s \in Slots |-> Idle]
  /\ confirmed = {} /\ moved = {} /\ leaked = {}

-----------------------------------------------------------------------------
(* Uploading a version *)

Receipt(a) == {v \in versions : v.id = a}

\* The document and the receipt are looked up: the upload of a version, by a user whom
\* no edit lock keeps out.  (The upload that makes a document is that of BatchImport.)
\* An attempt that was already stored is answered with its document.
StartUpload(s, a) ==
  /\ At(s, "idle") /\ place = "live"
  /\ IF Receipt(a) # {}
     THEN confirmed' = confirmed \cup {a} /\ UNCHANGED req
     ELSE /\ Goto(s, [Idle EXCEPT !.step = "checked", !.att = a,
                                  !.loc = LocaleOf[a]])
          /\ UNCHANGED confirmed
  /\ UNCHANGED <<versions, objects, moved, leaked>> /\ UNCHANGED docVars

\* The file is scanned, compared with the latest version and written under a new
\* key.
PutObject(s) ==
  /\ At(s, "checked")
  /\ \E k \in Fresh :
       /\ objects' = objects \cup {k}
       /\ Goto(s, [req[s] EXCEPT !.step = "stored", !.key = k,
                                 !.prev = LatestOrNone(req[s].loc).id])
  /\ UNCHANGED versions /\ UNCHANGED docVars /\ UNCHANGED history

\* The transaction reads the latest version and refuses to go on if another one
\* was uploaded since.
ReadLatest(s) ==
  /\ At(s, "stored")
  /\ LET v == LatestOrNone(req[s].loc) IN
     IF v.id # req[s].prev
     THEN Goto(s, Failed(req[s]))
     ELSE Goto(s, [req[s] EXCEPT !.step = "read", !.prev = None, !.n = v.n, !.major = v.major,
                                 !.minor = v.minor])
  /\ UNCHANGED <<versions, objects>> /\ UNCHANGED docVars /\ UNCHANGED history

\* Fault: the version is given an id of its own, like one without a receipt.
VersionId_Random(r) == r.key

VersionId(r) == IF r.att = NoReceipt THEN r.key ELSE r.att

NewVersion(r) ==
  [id |-> VersionId(r), request |-> r.att, loc |-> r.loc, n |-> r.n + 1,
   major |-> r.major, minor |-> r.minor + 1, key |-> r.key]

\* The primary key, and one number per document and language.
Insertable(v) == \A w \in versions : w.id # v.id /\ <<w.loc, w.n>> # <<v.loc, v.n>>

\* The transaction writes the document and the version.  The document may have
\* been put in the trash; a deleted one makes it fail.
CommitUpload(s, told) ==
  /\ At(s, "read")
  /\ IF place # "gone" /\ Insertable(NewVersion(req[s]))
     THEN /\ versions' = versions \cup {NewVersion(req[s])}
          /\ published' = FALSE
          /\ confirmed' = IF told THEN confirmed \cup ({req[s].att} \cap Attempts)
                                  ELSE confirmed
          /\ Goto(s, Idle)
     ELSE /\ told /\ Goto(s, Failed(req[s]))
          /\ UNCHANGED <<versions, published, confirmed>>
  /\ UNCHANGED <<place, objects, moved, leaked>>

\* Fault: the transaction commits and its acknowledgement is lost.
CommitUnacknowledged(s) ==
  /\ At(s, "read")
  /\ place # "gone" /\ Insertable(NewVersion(req[s]))
  /\ versions' = versions \cup {NewVersion(req[s])}
  /\ published' = FALSE
  /\ Goto(s, Failed(req[s]))
  /\ UNCHANGED <<place, objects>> /\ UNCHANGED history

\* The transaction fails: connection, timeout, required field.
AbortUpload(s) ==
  /\ At(s, "read")
  /\ Goto(s, Failed(req[s]))
  /\ UNCHANGED <<versions, objects>> /\ UNCHANGED docVars /\ UNCHANGED history

\* Fault: an object whose attempt was completed by another request stays.
Superfluous_Never(r) == Receipt(r.att) = {}

\* Fault: a failed transaction is taken at its word and the receipt not consulted.
Superfluous_Always(r) == TRUE

\* The object is not the one of the version the attempt made.
Superfluous(r) == \A v \in Receipt(r.att) : v.key # r.key

\* The receipt is looked up again.  For a document in the trash the lookup itself
\* is refused and the object stays; otherwise the object is removed unless the
\* attempt's version uses it.  A failed removal is ignored.
Cleanup(s, removed) ==
  /\ At(s, "cleanup")
  /\ LET k == req[s].key
         done == Receipt(req[s].att) # {} IN
     IF done /\ place # "live"
     THEN /\ ~removed
          /\ leaked' = leaked \cup ({k} \ {v.key : v \in versions})
          /\ UNCHANGED <<objects, confirmed>>
     ELSE /\ IF Superfluous(req[s])
             THEN /\ objects' = IF removed THEN objects \ {k} ELSE objects
                  /\ leaked' = IF removed THEN leaked ELSE leaked \cup {k}
             ELSE ~removed /\ UNCHANGED <<objects, leaked>>
          /\ confirmed' = IF done THEN confirmed \cup {req[s].att} ELSE confirmed
  /\ Goto(s, Idle)
  /\ UNCHANGED <<versions, moved>> /\ UNCHANGED docVars

\* The process stops, or the request fails before its transaction.
Crash(s) ==
  /\ ~At(s, "idle")
  /\ leaked' = leaked \cup ((objects \cap {req[s].key}) \ {v.key : v \in versions})
  /\ Goto(s, Idle)
  /\ UNCHANGED <<versions, objects, confirmed, moved>> /\ UNCHANGED docVars

-----------------------------------------------------------------------------
(* Restoring a version *)

\* Any version that was not purged may be restored: whether its file is still in the
\* storage is not looked at.
StartRestore(s, v) ==
  /\ At(s, "idle") /\ place = "live"
  /\ Goto(s, [Idle EXCEPT !.step = "restore", !.loc = v.loc, !.key = v.key, !.n = v.n])
  /\ UNCHANGED <<versions, objects>> /\ UNCHANGED docVars /\ UNCHANGED history

\* The transaction reads the latest version: the current one is not restored.
ReadRestore(s) ==
  /\ At(s, "restore")
  /\ LET v == LatestOrNone(req[s].loc) IN
     IF v.n = req[s].n
     THEN Goto(s, Idle)
     ELSE Goto(s, [req[s] EXCEPT !.step = "restoreRead", !.n = v.n, !.major = v.major,
                                 !.minor = v.minor])
  /\ UNCHANGED <<versions, objects>> /\ UNCHANGED docVars /\ UNCHANGED history

\* A new row shares the stored file of the restored one.
CommitRestore(s) ==
  /\ At(s, "restoreRead")
  /\ \E id \in Fresh :
       LET v == [id |-> id, request |-> None, loc |-> req[s].loc, n |-> req[s].n + 1,
                 major |-> req[s].major, minor |-> req[s].minor + 1, key |-> req[s].key]
       IN IF place # "gone" /\ Insertable(v)
          THEN /\ versions' = versions \cup {v}
               /\ published' = FALSE
               /\ Goto(s, Idle)
          ELSE Goto(s, Idle) /\ UNCHANGED <<versions, published>>
  /\ UNCHANGED <<place, objects>> /\ UNCHANGED history

-----------------------------------------------------------------------------
(* Publication, trash, deletion *)

MaxMajor(loc) == CHOOSE m \in Numbers : /\ \E v \in Of(loc) : v.major = m
                                        /\ \A v \in Of(loc) : v.major <= m

\* Fault: the major number follows the latest version's own.
NextMajor_OfLatest(loc) == Latest(loc).major + 1

NextMajor(loc) == MaxMajor(loc) + 1

\* Fault: only a language's first version is made major.
ToPromote_First(v) == v = Latest(v.loc) /\ v.n = 1 /\ v.minor # 0

ToPromote(v) == v = Latest(v.loc) /\ v.minor # 0

\* promoteLatestToMajor: the latest version of each language becomes the next
\* major one, unless it is already.
Promoted ==
  {IF ToPromote(v) THEN [v EXCEPT !.major = NextMajor(v.loc), !.minor = 0] ELSE v :
     v \in versions}

Publish ==
  /\ place = "live" /\ ~published
  /\ published' = TRUE
  /\ versions' = Promoted
  /\ UNCHANGED <<place, objects, req>> /\ UNCHANGED history

Document(p, pub) ==
  /\ place' = p /\ published' = pub
  /\ UNCHANGED <<versions, objects, req>> /\ UNCHANGED history

Unpublish == place = "live" /\ published /\ Document("live", FALSE)
RemoveByModerator == place = "live" /\ Document("trash", FALSE)
RestoreFromTrash == place = "trash" /\ Document("live", FALSE)

\* remove: the files are listed ...
StartDelete(s) ==
  /\ At(s, "idle") /\ place # "gone"
  /\ Goto(s, [Idle EXCEPT !.step = "delete", !.files = {v.key : v \in versions}])
  /\ UNCHANGED <<versions, objects>> /\ UNCHANGED docVars /\ UNCHANGED history

\* ... the rows deleted, then the listed objects, some of which may stay.
CommitDelete(s, kept) ==
  /\ At(s, "delete") /\ place # "gone"
  /\ kept \subseteq req[s].files
  /\ place' = "gone" /\ published' = FALSE /\ versions' = {}
  /\ objects' = objects \ (req[s].files \ kept)
  /\ leaked' = leaked \cup kept \cup ({v.key : v \in versions} \ req[s].files)
  /\ Goto(s, Idle)
  /\ UNCHANGED <<confirmed, moved>>

-----------------------------------------------------------------------------
(* Moving a version to another language *)

\* Bound on the moves: one, of any version to the other language.
MoveBound == moved = {}

\* updateMetadata reads the document and the versions and writes in a transaction
\* that is refused when updatedAt has changed since; every write to a version also
\* writes the document, so the whole is one step.
MoveVersion(v, loc) ==
  /\ MoveBound
  /\ place = "live" /\ v.loc # loc
  /\ \A w \in Of(loc) : w.n # v.n
  /\ versions' = (versions \ {v}) \cup {[v EXCEPT !.loc = loc]}
  /\ moved' = moved \cup {loc, v.loc}
  /\ UNCHANGED <<objects, req, confirmed, leaked>> /\ UNCHANGED docVars

-----------------------------------------------------------------------------
UploadNext ==
  \E s \in Slots :
    \/ \E a \in Attempts \cup {NoReceipt} : StartUpload(s, a)
    \/ PutObject(s) \/ ReadLatest(s) \/ CommitUnacknowledged(s) \/ AbortUpload(s)
    \/ Crash(s)
    \/ \E b \in BOOLEAN : CommitUpload(s, b) \/ Cleanup(s, b)

RestoreNext ==
  \E s \in Slots :
    \/ \E v \in versions : StartRestore(s, v)
    \/ ReadRestore(s) \/ CommitRestore(s)

DocumentNext ==
  \/ \E v \in versions, loc \in Locales : MoveVersion(v, loc)
  \/ Publish \/ Unpublish \/ RemoveByModerator \/ RestoreFromTrash
  \/ \E s \in Slots : StartDelete(s) \/ \E kept \in SUBSET req[s].files : CommitDelete(s, kept)

Next == UploadNext \/ RestoreNext \/ DocumentNext

Spec == Init /\ [][Next]_vars

-----------------------------------------------------------------------------
(* Properties *)

\* The types of the rows and of the requests.  A version number is one of the numbers
\* that the bound on names allows, never missing, in the first version of a language
\* too.
TypeOK ==
  /\ place \in {"live", "trash", "gone"} /\ published \in BOOLEAN
  /\ versions \subseteq Rows
  /\ objects \subseteq Names /\ leaked \subseteq Names
  /\ req \in [Slots -> [step : Steps, att : Attempts \cup {NoReceipt, None},
                        loc : Locales \cup {None}, key : Names \cup {None},
                        prev : Attempts \cup Names \cup {None},
                        n : Numbers, major : Numbers, minor : Numbers,
                        files : SUBSET Names]]
  /\ confirmed \subseteq Attempts /\ moved \subseteq Locales

\* The promise to the clients: the receipts make the uploads exactly-once
\* whatever is retried, duplicated, lost or crashed.
Uploads == INSTANCE UploadOnce WITH
  rows <- [a \in Attempts |-> Cardinality({v \in versions : v.request = a})],
  closed <- place = "gone"
ExactlyOnce == Uploads!Spec

\* The file of every version uploaded with a receipt is in the storage, also when
\* the acknowledgement of its transaction was lost: the cleanup of upload only
\* removes an object no version of the attempt uses.
FilesPresent == \A v \in versions : v.request # NoReceipt /\ v.id \notin Names => v.key \in objects

\* An object no version uses belongs to a request under way, or was left by a
\* crash, a failed removal, a document deleted meanwhile.
NoOrphans ==
  objects \subseteq {v.key : v \in versions} \cup {req[s].key : s \in Slots} \cup leaked

\* The label is a name: no two versions of a language share one, although an
\* upload may label its version from a row a publication has since promoted.
LabelsDistinct ==
  \A loc \in Locales \ moved : \A v, w \in Of(loc) :
    v.major = w.major /\ v.minor = w.minor => v = w

\* What readers see as current of a published document is a major version.
PublishedIsMajor ==
  published => \A loc \in Locales \ moved : Of(loc) # {} => Latest(loc).minor = 0

\* Versions and objects match: uploads, restorations and deletions, through crashes
\* and lost acknowledgements, neither lose the file of a version nor forget a file.
FilesMatchVersions == FilesPresent /\ NoOrphans

\* Labels name the versions, and readers of a published document see a major one.
LabelsSound == LabelsDistinct /\ PublishedIsMajor
=============================================================================
