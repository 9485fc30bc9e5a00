----------------------------- MODULE Retention ------------------------------
(***************************************************************************)
(* Retention policies, legal holds and the destruction of documents        *)
(* (governance.controller.ts, ged-worker.ts, sensitive-approval.service.ts *)
(* and the trash and deletion handlers of controllers.ts).                 *)
(*                                                                         *)
(* A request is served in one of Slots: it reads, checks, and writes in    *)
(* separate statements, so a request that checks a row and then updates it *)
(* takes two steps.  A handler whose writes are one conditional statement  *)
(* is one step.  Every worker runs the destruction task; its scheduler     *)
(* tick flags the policies that fell due.                                  *)
(*                                                                         *)
(* Time is two facts per policy: whether retentionUntil has passed, and    *)
(* whether updatedAt is more than thirty minutes old.                      *)
(***************************************************************************)
EXTENDS Integers, FiniteSets

CONSTANTS
  Documents, Admins, Files, Workers,
  Slots,          \* requests the API serves at the same time
  Approvals,      \* ids of SensitiveOperationApproval rows (bounds their number)
  Null,
  InitialFiles,   \* the files of each document's versions at the start
  Batch,          \* policies per destruction task ("take: 10")
  MaxFaults       \* bound on crashes and storage failures

ASSUME RetentionAssumption ==
  /\ Null \notin Documents \cup Admins \cup Files \cup Approvals
  /\ IsFiniteSet(Documents) /\ IsFiniteSet(Files)
  /\ InitialFiles \in [Documents -> SUBSET Files]
  /\ \A d, e \in Documents : d # e => InitialFiles[d] \cap InitialFiles[e] = {}
  /\ Batch \in Nat \ {0} /\ MaxFaults \in Nat

VARIABLES
  docState,   \* "live", "trash" (deletedAt), "destroyed" (destroyedAt), "absent"
  files,      \* StoredFile ids referenced by the versions of each document
  objects,    \* files whose object is in the storage
  purged,     \* StoredFile rows with purgedAt
  used,       \* file ids drawn so far (random UUIDs are never drawn twice)
  policy,     \* RetentionPolicy row of each document
  approval,   \* SensitiveOperationApproval rows (operation RETENTION_CHANGE)
  req,        \* the request being served in each slot
  due,        \* per worker: policies read by the open flagDueRetentions, or Null
  task,       \* per worker: its executeApprovedDestructions
  records,    \* "document.destroyed" audit events
  faults      \* crashes and storage failures so far

apiVars == <<approval, req>>
workerVars == <<due, task, records>>
vars == <<docState, files, objects, purged, used, policy, approval, req, due, task,
          records, faults>>

Statuses == {"NONE", "DUE", "REQUESTED", "APPROVED", "REJECTED",
             "DESTROYING", "DESTROYED"}
Until == {"none", "future", "past"}
Policies == [exists : BOOLEAN, hold : BOOLEAN, until : Until,
             status : Statuses, requestedBy : Admins \cup {Null},
             approvedBy : Admins \cup {Null}, stale : BOOLEAN,
             against : Admins \cup {Null}]   \* history: see TwoPersonDestruction
NoPolicy == [exists |-> FALSE, hold |-> FALSE, until |-> "none",
             status |-> "NONE", requestedBy |-> Null, approvedBy |-> Null,
             stale |-> FALSE, against |-> Null]

\* Every write of a row refreshes its updatedAt.
WithStatus(p, st) == [p EXCEPT !.status = st, !.stale = FALSE]

ApprovalRows == [status : {"free", "PENDING", "APPROVED", "REJECTED", "EXECUTED"},
                 doc : Documents \cup {Null}, requestedBy : Admins \cup {Null},
                 approvedBy : Admins \cup {Null}]

Requests == [kind : {"idle", "save", "execute", "decide", "remove", "clean", "upload"},
             doc : Documents \cup {Null}, by : Admins \cup {Null},
             hold : BOOLEAN, until : Until, approval : Approvals \cup {Null},
             action : {"none", "REQUEST", "APPROVE", "REJECT"},
             read : Admins \cup {Null},   \* the requester on the row a decision read
             files : SUBSET Files]
Idle == [kind |-> "idle", doc |-> Null, by |-> Null, hold |-> FALSE,
         until |-> "none", approval |-> Null, action |-> "none", read |-> Null,
         files |-> {}]

\* What the task read of a policy and its document.
Snapshots == [doc : Documents, files : SUBSET Files,
              requestedBy : Admins \cup {Null}, approvedBy : Admins \cup {Null},
              against : Admins \cup {Null}]
Tasks == [stage : {"idle", "list", "remove"}, todo : SUBSET Snapshots,
          current : Snapshots \cup {Null}, gone : SUBSET Files, left : SUBSET Files]
NoTask == [stage |-> "idle", todo |-> {}, current |-> Null, gone |-> {}, left |-> {}]
Records == [doc : Documents, requestedBy : Admins \cup {Null},
            approvedBy : Admins \cup {Null}, against : Admins \cup {Null},
            files : SUBSET Files]

Init ==
  /\ docState = [d \in Documents |-> "live"]
  /\ files = InitialFiles
  /\ objects = UNION {InitialFiles[d] : d \in Documents}
  /\ purged = {}
  /\ used = UNION {InitialFiles[d] : d \in Documents}
  /\ policy = [d \in Documents |-> NoPolicy]
  /\ approval = [i \in Approvals |-> [status |-> "free", doc |-> Null,
                                      requestedBy |-> Null, approvedBy |-> Null]]
  /\ req = [s \in Slots |-> Idle]
  /\ due = [w \in Workers |-> Null]
  /\ task = [w \in Workers |-> NoTask]
  /\ records = {}
  /\ faults = 0

-----------------------------------------------------------------------------
(* saveRetention *)

\* Rows of the gate for this administrator and document.
Gate(a, d, st) ==
  {i \in Approvals : approval[i].status = st /\ approval[i].doc = d
                       /\ approval[i].requestedBy = a}

\* The document is live and the body valid; a first policy needs no approval, a
\* change needs one this administrator was granted for this document.
StartSave(s, a, d, hold, until) ==
  /\ req[s] = Idle
  /\ docState[d] = "live"
  /\ hold \/ until # "none"
  /\ \E i \in IF policy[d].exists THEN Gate(a, d, "APPROVED") ELSE {Null} :
       req' = [req EXCEPT ![s] = [Idle EXCEPT !.kind = "save", !.doc = d, !.by = a,
                                    !.hold = hold, !.until = until, !.approval = i]]
  /\ UNCHANGED <<docState, files, objects, purged, policy, approval, faults, used>>
  /\ UNCHANGED workerVars

\* Without an approval the gate files a request, once, and refuses the change.
RequestApproval(a, d) ==
  /\ docState[d] = "live" /\ policy[d].exists
  /\ Gate(a, d, "APPROVED") = {} /\ Gate(a, d, "PENDING") = {}
  /\ \E i \in Approvals :
       /\ approval[i].status = "free"
       /\ approval' = [approval EXCEPT ![i] = [status |-> "PENDING", doc |-> d,
                                     requestedBy |-> a, approvedBy |-> Null]]
  /\ UNCHANGED <<docState, files, objects, purged, policy, req, faults, used>>
  /\ UNCHANGED workerVars

\* Fault: an administrator may decide their own request.
MayDecide_Anyone(a, i) == approval[i].status = "PENDING"

MayDecide(a, i) == approval[i].status = "PENDING" /\ approval[i].requestedBy # a

\* ApprovalsController.decide: one conditional update.
DecideApproval(a, i, verdict) ==
  /\ MayDecide(a, i)
  /\ approval' = [approval EXCEPT ![i].status = verdict, ![i].approvedBy = a]
  /\ UNCHANGED <<docState, files, objects, purged, policy, req, faults, used>>
  /\ UNCHANGED workerVars

\* The row the upsert leaves: a hold withdraws any destruction under way.
Upserted(p, r) ==
  IF p.exists /\ ~r.hold
  THEN [p EXCEPT !.hold = FALSE, !.until = r.until, !.stale = FALSE]
  ELSE [NoPolicy EXCEPT !.exists = TRUE, !.hold = r.hold, !.until = r.until]

\* The upsert; the foreign key refuses a policy for a deleted document.
WriteSave(s) ==
  LET d == req[s].doc IN
  /\ req[s].kind = "save"
  /\ IF docState[d] = "absent"
     THEN /\ req' = [req EXCEPT ![s] = Idle]
          /\ UNCHANGED policy
     ELSE /\ policy' = [policy EXCEPT ![d] = Upserted(policy[d], req[s])]
          /\ req' = [req EXCEPT ![s] = IF req[s].approval = Null THEN Idle
                                       ELSE [req[s] EXCEPT !.kind = "execute"]]
  /\ UNCHANGED <<docState, files, objects, purged, approval, faults, used>>
  /\ UNCHANGED workerVars

\* sensitiveApprovalGate.execute: the approval is spent after the change.
ExecuteApproval(s) ==
  /\ req[s].kind = "execute"
  /\ approval' = [approval EXCEPT ![req[s].approval].status = "EXECUTED"]
  /\ req' = [req EXCEPT ![s] = Idle]
  /\ UNCHANGED <<docState, files, objects, purged, policy, faults, used>>
  /\ UNCHANGED workerVars

-----------------------------------------------------------------------------
(* retentionDecision *)

\* Fault: the requester may approve.
Decidable_BySelf(p, a, action) ==
  /\ p.exists /\ ~p.hold
  /\ IF action = "REQUEST"
     THEN /\ p.status \notin {"APPROVED", "DESTROYING", "DESTROYED"}
          /\ p.until # "future"
     ELSE p.status = "REQUESTED"

\* The checks of retentionDecision on the row it read.
Decidable(p, a, action) ==
  /\ p.exists /\ ~p.hold
  /\ IF action = "REQUEST"
     THEN /\ p.status \notin {"APPROVED", "DESTROYING", "DESTROYED"}
          /\ p.until # "future"
     ELSE /\ p.status = "REQUESTED"
          /\ action = "APPROVE" => p.requestedBy # a

StartDecision(s, a, d, action) ==
  /\ req[s] = Idle
  /\ Decidable(policy[d], a, action)
  /\ req' = [req EXCEPT ![s] = [Idle EXCEPT !.kind = "decide", !.doc = d,
                                            !.by = a, !.action = action,
                                            !.read = policy[d].requestedBy]]
  /\ UNCHANGED <<docState, files, objects, purged, policy, approval, faults, used>>
  /\ UNCHANGED workerVars

\* Fault: the action's name is written as the status.
Decided_ActionAsStatus(p, r) == WithStatus(p, r.action)

\* The columns each decision writes.
Decided(p, r) ==
  CASE r.action = "REQUEST" -> [WithStatus(p, "REQUESTED") EXCEPT !.requestedBy = r.by,
                                                                  !.approvedBy = Null]
    [] r.action = "APPROVE" -> [WithStatus(p, "APPROVED") EXCEPT !.approvedBy = r.by,
                                                                 !.against = r.read]
    [] OTHER -> [WithStatus(p, "REJECTED") EXCEPT !.approvedBy = r.by]

\* The update names the row by its id alone: whatever happened since the checks.
WriteDecision(s) ==
  LET d == req[s].doc IN
  /\ req[s].kind = "decide"
  /\ policy' = IF policy[d].exists
               THEN [policy EXCEPT ![d] = Decided(policy[d], req[s])]
               ELSE policy
  /\ req' = [req EXCEPT ![s] = Idle]
  /\ UNCHANGED <<docState, files, objects, purged, approval, faults, used>>
  /\ UNCHANGED workerVars

-----------------------------------------------------------------------------
(* The trash, permanent deletion and new versions (controllers.ts) *)

\* removeByModerator: soft deletion.
RemoveByModerator(d) ==
  /\ docState[d] = "live"
  /\ docState' = [docState EXCEPT ![d] = "trash"]
  /\ UNCHANGED <<files, objects, purged, policy, faults, used>>
  /\ UNCHANGED apiVars /\ UNCHANGED workerVars

\* Fault: the restored row is only required to be deleted.
Restorable_AnyDeleted(d) == docState[d] \in {"trash", "destroyed"}

Restorable(d) == docState[d] = "trash"

\* restoreFromTrash: one conditional update.
RestoreFromTrash(d) ==
  /\ Restorable(d)
  /\ docState' = [docState EXCEPT ![d] = "live"]
  /\ UNCHANGED <<files, objects, purged, policy, faults, used>>
  /\ UNCHANGED apiVars /\ UNCHANGED workerVars

\* remove reads the document with its policy and files, and refuses it under a
\* hold or before the end of its retention.
StartRemove(s, d) ==
  /\ req[s] = Idle
  /\ docState[d] # "absent"
  /\ ~policy[d].hold /\ policy[d].until # "future"
  /\ req' = [req EXCEPT ![s] = [Idle EXCEPT !.kind = "remove", !.doc = d,
                                            !.files = files[d]]]
  /\ UNCHANGED <<docState, files, objects, purged, policy, approval, faults, used>>
  /\ UNCHANGED workerVars

\* Its transaction; the policy row goes with the document (onDelete: Cascade).
DeleteDocument(s) ==
  LET d == req[s].doc IN
  /\ req[s].kind = "remove"
  /\ IF docState[d] = "absent"
     THEN /\ req' = [req EXCEPT ![s] = Idle]
          /\ UNCHANGED <<docState, files, purged, policy>>
     ELSE /\ docState' = [docState EXCEPT ![d] = "absent"]
          /\ files' = [files EXCEPT ![d] = {}]
          /\ purged' = purged \ req[s].files
          /\ policy' = [policy EXCEPT ![d] = NoPolicy]
          /\ req' = [req EXCEPT ![s].kind = "clean"]
  /\ UNCHANGED <<objects, approval, faults, used>>
  /\ UNCHANGED workerVars

\* Its object cleanup: failures are counted in the audit event and dropped.
CleanObjects(s, failed) ==
  /\ req[s].kind = "clean"
  /\ failed = {} \/ faults < MaxFaults
  /\ objects' = objects \ (req[s].files \ failed)
  /\ req' = [req EXCEPT ![s] = Idle]
  /\ faults' = IF failed = {} THEN faults ELSE faults + 1
  /\ UNCHANGED <<docState, files, purged, policy, approval, used>>
  /\ UNCHANGED workerVars

\* A version uploaded to an existing document: its row is read first, then the
\* object is stored ...
StartUpload(s, d, f) ==
  /\ req[s] = Idle
  /\ docState[d] = "live"
  /\ f \notin used
  /\ used' = used \cup {f}
  /\ objects' = objects \cup {f}
  /\ req' = [req EXCEPT ![s] = [Idle EXCEPT !.kind = "upload", !.doc = d, !.files = {f}]]
  /\ UNCHANGED <<docState, files, purged, policy, approval, faults>>
  /\ UNCHANGED workerVars

\* ... and the version recorded, or the object removed when the row is gone.
CommitUpload(s) ==
  LET d == req[s].doc IN
  /\ req[s].kind = "upload"
  /\ IF docState[d] = "absent"
     THEN /\ objects' = objects \ req[s].files
          /\ UNCHANGED files
     ELSE /\ files' = [files EXCEPT ![d] = @ \cup req[s].files]
          /\ UNCHANGED objects
  /\ req' = [req EXCEPT ![s] = Idle]
  /\ UNCHANGED <<docState, purged, policy, approval, faults, used>>
  /\ UNCHANGED workerVars

\* The API process or its database connection fails between two statements.
RequestFails(s) ==
  /\ req[s] # Idle
  /\ faults < MaxFaults
  /\ faults' = faults + 1
  /\ req' = [req EXCEPT ![s] = Idle]
  /\ UNCHANGED <<docState, files, objects, purged, policy, approval, used>>
  /\ UNCHANGED workerVars

-----------------------------------------------------------------------------
(* The worker: flagDueRetentions in its scheduler tick *)

FallsDue(d) ==
  /\ policy[d].exists /\ ~policy[d].hold
  /\ policy[d].status = "NONE" /\ policy[d].until = "past"
  /\ docState[d] # "destroyed"

\* The tick is exclusive: an advisory lock admits one worker.
FindDue(w) ==
  /\ \A v \in Workers : due[v] = Null
  /\ {d \in Documents : FallsDue(d)} # {}
  /\ due' = [due EXCEPT ![w] = {d \in Documents : FallsDue(d)}]
  /\ UNCHANGED <<docState, files, objects, purged, policy, task, records, faults, used>>
  /\ UNCHANGED apiVars

\* The rows are updated by id; a row deleted meanwhile aborts the transaction.
FlagDue(w) ==
  /\ due[w] # Null
  /\ policy' = IF \A d \in due[w] : policy[d].exists
               THEN [d \in Documents |-> IF d \in due[w]
                       THEN WithStatus(policy[d], "DUE")
                       ELSE policy[d]]
               ELSE policy
  /\ due' = [due EXCEPT ![w] = Null]
  /\ UNCHANGED <<docState, files, objects, purged, task, records, faults, used>>
  /\ UNCHANGED apiVars

-----------------------------------------------------------------------------
(* The worker: executeApprovedDestructions *)

\* Fault: interrupted destructions are never retried.
Unstuck_Never(p) == p

\* Destructions interrupted half an hour ago go back to APPROVED.
Unstuck(p) ==
  IF p.status = "DESTROYING" /\ p.stale
  THEN WithStatus(p, "APPROVED") ELSE p

Snapshot(d) == [doc |-> d, files |-> files[d], requestedBy |-> policy[d].requestedBy,
                approvedBy |-> policy[d].approvedBy, against |-> policy[d].against]

\* One task per worker, started at the end of a tick: reset, then findMany.
StartTask(w) ==
  LET unstuck == [d \in Documents |-> Unstuck(policy[d])]
      ready == {d \in Documents : unstuck[d].status = "APPROVED" /\ ~unstuck[d].hold}
  IN
  /\ task[w].stage = "idle" /\ due[w] = Null
  /\ ready # {} \/ unstuck # policy
  /\ policy' = unstuck
  /\ \E found \in SUBSET ready :
       /\ Cardinality(found) = IF Cardinality(ready) < Batch THEN Cardinality(ready)
                               ELSE Batch
       /\ task' = [task EXCEPT ![w] = IF found = {} THEN NoTask
                     ELSE [NoTask EXCEPT !.stage = "list",
                                         !.todo = {Snapshot(d) : d \in found}]]
  /\ UNCHANGED <<docState, files, objects, purged, due, records, faults, used>>
  /\ UNCHANGED apiVars

Claimable(d) == policy[d].exists /\ policy[d].status = "APPROVED" /\ ~policy[d].hold

\* Files some other document's version uses stay.
SharedFiles(d) == UNION {files[e] : e \in Documents \ {d}}

\* The next policy is claimed by a conditional update, or skipped.
Claim(w, snap) ==
  LET d == snap.doc
      gone == snap.files \ SharedFiles(d) IN
  /\ task[w].stage = "list"
  /\ snap \in task[w].todo
  /\ IF Claimable(d)
     THEN /\ policy' = [policy EXCEPT ![d] = WithStatus(@, "DESTROYING")]
          /\ task' = [task EXCEPT ![w] = [stage |-> "remove", todo |-> @.todo \ {snap},
                          current |-> snap, gone |-> gone, left |-> gone \ purged]]
     ELSE /\ task' = [task EXCEPT ![w].todo = @ \ {snap}]
          /\ UNCHANGED policy
  /\ UNCHANGED <<docState, files, objects, purged, due, records, faults, used>>
  /\ UNCHANGED apiVars

\* storage.removeObject, file by file.
RemoveObject(w, f) ==
  /\ task[w].stage = "remove" /\ f \in task[w].left
  /\ objects' = objects \ {f}
  /\ task' = [task EXCEPT ![w].left = @ \ {f}]
  /\ UNCHANGED <<docState, files, purged, policy, due, records, faults, used>>
  /\ UNCHANGED apiVars

\* A storage error ends the task, and the policy stays DESTROYING.
RemoveFails(w) ==
  /\ task[w].stage = "remove" /\ task[w].left # {}
  /\ faults < MaxFaults
  /\ faults' = faults + 1
  /\ task' = [task EXCEPT ![w] = NoTask]
  /\ UNCHANGED <<docState, files, objects, purged, policy, due, records, used>>
  /\ UNCHANGED apiVars

\* Fault: the transaction does not wait for the removals (a missing await).
FinishReady_NoAwait(t) == TRUE

FinishReady(t) == t.left = {}

\* The tombstone transaction once every object is removed; it names document and
\* policy by id, and a deleted row aborts it and the task.
Finish(w) ==
  LET snap == task[w].current
      d == snap.doc IN
  /\ task[w].stage = "remove" /\ FinishReady(task[w])
  /\ IF docState[d] = "absent" \/ ~policy[d].exists
     THEN /\ task' = [task EXCEPT ![w] = NoTask]
          /\ UNCHANGED <<docState, purged, policy, records>>
     ELSE /\ purged' = purged \cup task[w].gone
          /\ docState' = [docState EXCEPT ![d] = "destroyed"]
          /\ policy' = [policy EXCEPT ![d] = WithStatus(@, "DESTROYED")]
          /\ records' = records \cup {[doc |-> d, requestedBy |-> snap.requestedBy,
                               approvedBy |-> snap.approvedBy, against |-> snap.against,
                               files |-> task[w].gone]}
          /\ task' = [task EXCEPT ![w] = [NoTask EXCEPT !.stage = "list", !.todo = task[w].todo]]
  /\ UNCHANGED <<files, objects, due, faults, used>>
  /\ UNCHANGED apiVars

EndTask(w) ==
  /\ task[w].stage = "list" /\ task[w].todo = {}
  /\ task' = [task EXCEPT ![w] = NoTask]
  /\ UNCHANGED <<docState, files, objects, purged, policy, due, records, faults, used>>
  /\ UNCHANGED apiVars

\* The worker process dies and is restarted.
Crash(w) ==
  /\ task[w] # NoTask \/ due[w] # Null
  /\ faults < MaxFaults
  /\ faults' = faults + 1
  /\ task' = [task EXCEPT ![w] = NoTask]
  /\ due' = [due EXCEPT ![w] = Null]
  /\ UNCHANGED <<docState, files, objects, purged, policy, records, used>>
  /\ UNCHANGED apiVars

-----------------------------------------------------------------------------
(* Time *)

RetentionEnds(d) ==
  /\ policy[d].until = "future"
  /\ policy' = [policy EXCEPT ![d].until = "past"]
  /\ UNCHANGED <<docState, files, objects, purged, faults, used>>
  /\ UNCHANGED apiVars /\ UNCHANGED workerVars

\* Half an hour passes, whether the task that set DESTROYING died or is slow.
BecomesStale(d) ==
  /\ policy[d].status = "DESTROYING" /\ ~policy[d].stale
  /\ policy' = [policy EXCEPT ![d].stale = TRUE]
  /\ UNCHANGED <<docState, files, objects, purged, faults, used>>
  /\ UNCHANGED apiVars /\ UNCHANGED workerVars

-----------------------------------------------------------------------------
SaveNext ==
  \/ \E s \in Slots, a \in Admins, d \in Documents, hold \in BOOLEAN, until \in Until :
       StartSave(s, a, d, hold, until)
  \/ \E a \in Admins, d \in Documents : RequestApproval(a, d)
  \/ \E a \in Admins, i \in Approvals, v \in {"APPROVED", "REJECTED"} : DecideApproval(a, i, v)
  \/ \E s \in Slots : WriteSave(s) \/ ExecuteApproval(s)

DecisionNext ==
  \/ \E s \in Slots, a \in Admins, d \in Documents, x \in {"REQUEST", "APPROVE", "REJECT"} :
       StartDecision(s, a, d, x)
  \/ \E s \in Slots : WriteDecision(s)

DocumentNext ==
  \/ \E d \in Documents : RemoveByModerator(d) \/ RestoreFromTrash(d)
  \/ \E s \in Slots, d \in Documents : StartRemove(s, d)
  \/ \E s \in Slots : DeleteDocument(s)
  \/ \E s \in Slots : \E failed \in SUBSET req[s].files : CleanObjects(s, failed)
  \/ \E s \in Slots, d \in Documents, f \in Files : StartUpload(s, d, f)
  \/ \E s \in Slots : CommitUpload(s) \/ RequestFails(s)

WorkerNext ==
  \E w \in Workers :
    \/ FindDue(w) \/ FlagDue(w)
    \/ StartTask(w)
    \/ \E snap \in task[w].todo : Claim(w, snap)
    \/ \E f \in Files : RemoveObject(w, f)
    \/ RemoveFails(w) \/ Finish(w) \/ EndTask(w) \/ Crash(w)

TimeNext == \E d \in Documents : RetentionEnds(d) \/ BecomesStale(d)

Next == SaveNext \/ DecisionNext \/ DocumentNext \/ WorkerNext \/ TimeNext

Spec == Init /\ [][Next]_vars

\* The worker is restarted when it dies, ticks every minute, and its task goes
\* on as long as the storage and the database answer; time passes.
WorkerStep(w) ==
  \/ FlagDue(w) \/ StartTask(w)
  \/ \E snap \in task[w].todo : Claim(w, snap)
  \/ \E f \in Files : RemoveObject(w, f)
  \/ Finish(w) \/ EndTask(w)

Fairness ==
  /\ \A w \in Workers : WF_vars(WorkerStep(w))
  /\ \A d \in Documents : WF_vars(BecomesStale(d))

LiveSpec == Spec /\ Fairness

-----------------------------------------------------------------------------
(* Properties *)

TypeOK ==
  /\ docState \in [Documents -> {"live", "trash", "destroyed", "absent"}]
  /\ files \in [Documents -> SUBSET Files]
  /\ objects \subseteq Files /\ purged \subseteq Files /\ used \subseteq Files
  /\ policy \in [Documents -> Policies]
  /\ approval \in [Approvals -> ApprovalRows]
  /\ req \in [Slots -> Requests]
  /\ due \in [Workers -> (SUBSET Documents) \cup {Null}]
  /\ task \in [Workers -> Tasks]
  /\ records \subseteq Records
  /\ faults \in 0 .. MaxFaults

\* However requests overlap, a destruction took two administrators: the one recorded
\* as its approver is not the one whose request the approval had read and checked
\* (retentionDecision), whatever holds, renewals, rejections, retries and snapshots
\* came between.  The requester column may say otherwise: the update names the row by
\* its id, so a request renewed or withdrawn after the check leaves its own name, or
\* none, beside the approval (README, Known deviations).
TwoPersonDestruction ==
  \A r \in records : /\ r.against \in Admins /\ r.approvedBy \in Admins
                     /\ r.against # r.approvedBy

\* The record is true: no file it lists as removed is still in the storage, and
\* each is marked purged unless the tombstone itself was deleted since.
RecordedFilesGone ==
  \A r \in records : /\ r.files \cap objects = {}
                     /\ docState[r.doc] # "absent" => r.files \subseteq purged

\* A destroyed document never comes back, whatever the trash does.
NoResurrection ==
  [][\A d \in Documents : docState[d] = "destroyed" =>
       docState'[d] \in {"destroyed", "absent"}]_vars

\* The saves that may release the hold of d: one with an approval that another
\* administrator granted for this very document, or a first save, which found no
\* policy when it was checked.
Releases(s, d) ==
  /\ req[s].kind = "save" /\ req[s].doc = d
  /\ \/ req[s].approval = Null
     \/ /\ approval[req[s].approval].doc = d
        /\ approval[req[s].approval].approvedBy \in Admins \ {req[s].by}

\* However requests overlap, a hold in force ends only with the document (whose
\* deletion it forbids when checked) or with such a save: no decision, flag, claim,
\* retry or tombstone ends it, and no administrator ends it with an approval of his
\* own or of another document (saveRetention, ApprovalsController.decide).
HoldReleasedByTwo ==
  [][\A d \in Documents : policy[d].hold /\ ~policy'[d].hold =>
       ~policy'[d].exists \/ \E s \in Slots : Releases(s, d)]_vars

\* An approved destruction is carried out, or withdrawn by an administrator:
\* crashes and storage failures only delay it.
DestructionCompletes ==
  \A d \in Documents : policy[d].status \in {"APPROVED", "DESTROYING"}
                         ~> policy[d].status \notin {"APPROVED", "DESTROYING"}

Ended(d) == docState[d] \in {"destroyed", "absent"}

\* No document is destroyed or deleted before the end of its retention.  The code does
\* not keep this one when the end is moved after the approval (README, Known
\* deviations).
RetentionEndRespected ==
  [][\A d \in Documents : ~Ended(d) /\ Ended(d)' => policy[d].until # "future"]_vars
=============================================================================
