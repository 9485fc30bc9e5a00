-------------------------- MODULE RetentionProofs ---------------------------
(***************************************************************************)
(* Proofs about the retention workflow, for every number of documents,     *)
(* files, workers, approvals and faults.                                   *)
(***************************************************************************)
EXTENDS Retention, TLAPS

(***************************************************************************)
(* The helpers on rows keep their types.                                   *)
(***************************************************************************)

\* A status change leaves a policy.
LEMMA WithStatusType ==
  ASSUME NEW p \in Policies, NEW st \in Statuses
  PROVE  WithStatus(p, st) \in Policies
BY DEF WithStatus, Policies

\* The row an upsert leaves is a policy (saveRetention).
LEMMA UpsertedType ==
  ASSUME NEW p \in Policies, NEW r \in Requests
  PROVE  Upserted(p, r) \in Policies
BY DEF Upserted, Policies, Requests, NoPolicy, Until, Statuses

\* The row a decision leaves is a policy (retentionDecision).
LEMMA DecidedType ==
  ASSUME NEW p \in Policies, NEW r \in Requests, r.by \in Admins
  PROVE  Decided(p, r) \in Policies
BY DEF Decided, WithStatus, Policies, Requests, Statuses

\* The reset of interrupted destructions leaves a policy.
LEMMA UnstuckType ==
  ASSUME NEW p \in Policies
  PROVE  Unstuck(p) \in Policies
BY WithStatusType DEF Unstuck, Statuses

\* A deletion that goes on to clean the storage is a request.
LEMMA CleanType ==
  ASSUME NEW r \in Requests
  PROVE  [r EXCEPT !.kind = "clean"] \in Requests
BY DEF Requests

\* A task goes on with a shorter list, or with fewer objects to remove.
LEMMA TaskTypes ==
  ASSUME NEW t \in Tasks, NEW S
  PROVE  /\ [t EXCEPT !.todo = @ \ S] \in Tasks
         /\ [t EXCEPT !.left = @ \ S] \in Tasks
<1> HIDE DEF Snapshots
<1>1. [t EXCEPT !.todo = @ \ S] \in Tasks
  BY DEF Tasks
<1>2. [t EXCEPT !.left = @ \ S] \in Tasks
  BY DEF Tasks
<1> QED BY <1>1, <1>2

\* A request in progress names its document, its administrator and its approval.
ReqShape ==
  \A s \in Slots :
    /\ req[s].kind # "idle" => req[s].doc \in Documents
    /\ req[s].kind \in {"save", "execute", "decide"} => req[s].by \in Admins
    /\ req[s].kind = "execute" => req[s].approval \in Approvals
    /\ req[s].kind = "decide" => req[s].action # "none"

\* A task that removes objects has claimed a snapshot.
TaskShape ==
  \A w \in Workers : task[w].stage = "remove" => task[w].current \in Snapshots

TypeInv == TypeOK /\ ReqShape /\ TaskShape

LEMMA InitTypes == Init => TypeInv
<1> SUFFICES ASSUME Init PROVE TypeInv
  OBVIOUS
<1> USE RetentionAssumption DEF Init
<1>1. policy \in [Documents -> Policies]
  BY DEF NoPolicy, Policies, Until, Statuses
<1>2. approval \in [Approvals -> ApprovalRows]
  BY DEF ApprovalRows
<1>3. req \in [Slots -> Requests] /\ ReqShape
  BY DEF Requests, Idle, Until, ReqShape
<1>4. task \in [Workers -> Tasks] /\ TaskShape
  BY DEF Tasks, NoTask, TaskShape
<1>5. objects \subseteq Files /\ used \subseteq Files /\ purged \subseteq Files
  OBVIOUS
<1>6. docState \in [Documents -> {"live", "trash", "destroyed", "absent"}]
  OBVIOUS
<1>7. due \in [Workers -> (SUBSET Documents) \cup {Null}]
  OBVIOUS
<1>8. faults \in 0 .. MaxFaults
  OBVIOUS
<1>9. files \in [Documents -> SUBSET Files] /\ records \subseteq Records
  OBVIOUS
<1> QED BY <1>1, <1>2, <1>3, <1>4, <1>5, <1>6, <1>7, <1>8, <1>9 DEF TypeInv, TypeOK

LEMMA SaveTypes == ASSUME TypeInv, SaveNext PROVE TypeInv'
<1> USE DEF TypeInv, TypeOK, apiVars, workerVars
<1>1. ASSUME NEW s \in Slots, NEW a \in Admins, NEW d \in Documents,
             NEW hold \in BOOLEAN, NEW until \in Until, StartSave(s, a, d, hold, until)
      PROVE  TypeInv'
  <2>1. PICK i \in Approvals \cup {Null} :
          req' = [req EXCEPT ![s] = [Idle EXCEPT !.kind = "save", !.doc = d, !.by = a,
                                       !.hold = hold, !.until = until, !.approval = i]]
    BY <1>1 DEF StartSave, Gate
  <2>2. req' \in [Slots -> Requests] /\ ReqShape'
    BY <2>1 DEF Requests, Idle, ReqShape
  <2> QED BY <1>1, <2>2 DEF StartSave, TaskShape
<1>2. ASSUME NEW a \in Admins, NEW d \in Documents, RequestApproval(a, d)
      PROVE  TypeInv'
  <2>1. approval' \in [Approvals -> ApprovalRows]
    BY <1>2 DEF RequestApproval, ApprovalRows
  <2> QED BY <1>2, <2>1 DEF RequestApproval, ReqShape, TaskShape
<1>3. ASSUME NEW a \in Admins, NEW i \in Approvals, NEW v \in {"APPROVED", "REJECTED"},
             DecideApproval(a, i, v)
      PROVE  TypeInv'
  <2>1. approval' \in [Approvals -> ApprovalRows]
    <3>1. [approval[i] EXCEPT !.status = v, !.approvedBy = a] \in ApprovalRows
      BY DEF ApprovalRows
    <3>2. approval' = [approval EXCEPT ![i] = [approval[i] EXCEPT !.status = v,
                                                                  !.approvedBy = a]]
      BY <1>3 DEF DecideApproval
    <3> QED BY <3>1, <3>2
  <2> QED BY <1>3, <2>1 DEF DecideApproval, ReqShape, TaskShape
<1>4. ASSUME NEW s \in Slots, WriteSave(s) PROVE TypeInv'
  <2> DEFINE d == req[s].doc
  <2>1. d \in Documents /\ req[s] \in Requests
    BY <1>4 DEF WriteSave, ReqShape
  <2>2. policy' \in [Documents -> Policies]
    BY <1>4, <2>1, UpsertedType DEF WriteSave
  <2>3. req' \in [Slots -> Requests] /\ ReqShape'
    <3>1. CASE req' = [req EXCEPT ![s] = Idle]
      BY <3>1 DEF Idle, Requests, ReqShape, Until
    <3>2. CASE req' = [req EXCEPT ![s] = [req[s] EXCEPT !.kind = "execute"]] /\ req[s].approval # Null
      BY <1>4, <2>1, <3>2 DEF WriteSave, Requests, ReqShape
    <3> QED BY <1>4, <3>1, <3>2 DEF WriteSave
  <2> QED BY <1>4, <2>2, <2>3 DEF WriteSave, TaskShape
<1>5. ASSUME NEW s \in Slots, ExecuteApproval(s) PROVE TypeInv'
  <2>1. approval' \in [Approvals -> ApprovalRows]
    <3> DEFINE i == req[s].approval
    <3>1. i \in Approvals
      BY <1>5 DEF ExecuteApproval, ReqShape
    <3>4. approval' = [approval EXCEPT ![i] = [approval[i] EXCEPT !.status = "EXECUTED"]]
      BY <1>5 DEF ExecuteApproval
    <3> HIDE DEF i
    <3>2. [approval[i] EXCEPT !.status = "EXECUTED"] \in ApprovalRows
      BY <3>1 DEF ApprovalRows
    <3> QED BY <3>1, <3>2, <3>4
  <2>2. req' \in [Slots -> Requests] /\ ReqShape'
    BY <1>5 DEF ExecuteApproval, Requests, Idle, ReqShape, Until
  <2> QED BY <1>5, <2>1, <2>2 DEF ExecuteApproval, TaskShape
<1> QED BY <1>1, <1>2, <1>3, <1>4, <1>5 DEF SaveNext

LEMMA DecisionTypes == ASSUME TypeInv, DecisionNext PROVE TypeInv'
<1> USE DEF TypeInv, TypeOK, apiVars, workerVars
<1>1. ASSUME NEW s \in Slots, NEW a \in Admins, NEW d \in Documents,
             NEW x \in {"REQUEST", "APPROVE", "REJECT"}, StartDecision(s, a, d, x)
      PROVE  TypeInv'
  <2>1. policy[d].requestedBy \in Admins \cup {Null}
    BY DEF Policies
  <2>2. req' \in [Slots -> Requests] /\ ReqShape'
    <3> HIDE DEF TypeInv, TypeOK
    <3>1. req' = [req EXCEPT ![s] = [Idle EXCEPT !.kind = "decide", !.doc = d, !.by = a,
                    !.action = x, !.read = policy[d].requestedBy]]
      BY <1>1 DEF StartDecision
    <3>2. req \in [Slots -> Requests] /\ ReqShape
      BY DEF TypeInv, TypeOK
    <3> QED BY <2>1, <3>1, <3>2 DEF Requests, Idle, ReqShape, Until
  <2> QED BY <1>1, <2>2 DEF StartDecision, TaskShape
<1>2. ASSUME NEW s \in Slots, WriteDecision(s) PROVE TypeInv'
  <2>1. policy' \in [Documents -> Policies]
    BY <1>2, DecidedType DEF WriteDecision, ReqShape
  <2>2. req' \in [Slots -> Requests] /\ ReqShape'
    BY <1>2 DEF WriteDecision, Requests, Idle, ReqShape, Until
  <2> QED BY <1>2, <2>1, <2>2 DEF WriteDecision, TaskShape
<1> QED BY <1>1, <1>2 DEF DecisionNext

LEMMA DocumentTypes == ASSUME TypeInv, DocumentNext PROVE TypeInv'
<1> USE RetentionAssumption DEF TypeInv, TypeOK, apiVars, workerVars
<1>1. ASSUME NEW d \in Documents, RemoveByModerator(d) PROVE TypeInv'
  BY <1>1 DEF RemoveByModerator, ReqShape, TaskShape
<1>2. ASSUME NEW d \in Documents, RestoreFromTrash(d) PROVE TypeInv'
  BY <1>2 DEF RestoreFromTrash, ReqShape, TaskShape
<1>3. ASSUME NEW s \in Slots, NEW d \in Documents, StartRemove(s, d) PROVE TypeInv'
  <2>1. req' \in [Slots -> Requests] /\ ReqShape'
    BY <1>3 DEF StartRemove, Requests, Idle, ReqShape, Until
  <2> QED BY <1>3, <2>1 DEF StartRemove, TaskShape
<1>4. ASSUME NEW s \in Slots, DeleteDocument(s) PROVE TypeInv'
  <2>1. req' \in [Slots -> Requests] /\ ReqShape'
    <3>1. CASE req' = [req EXCEPT ![s] = Idle]
      BY <3>1 DEF Requests, Idle, ReqShape, Until
    <3>2. CASE req' = [req EXCEPT ![s] = [req[s] EXCEPT !.kind = "clean"]]
      <4>1. [req[s] EXCEPT !.kind = "clean"] \in Requests
        BY CleanType
      <4> QED BY <1>4, <3>2, <4>1 DEF DeleteDocument, ReqShape, Requests
    <3> QED BY <1>4, <3>1, <3>2 DEF DeleteDocument
  <2>2. policy' \in [Documents -> Policies]
    <3>1. NoPolicy \in Policies
      BY DEF NoPolicy, Policies, Until, Statuses
    <3> QED BY <1>4, <3>1 DEF DeleteDocument
  <2>3. docState' \in [Documents -> {"live", "trash", "destroyed", "absent"}]
    BY <1>4 DEF DeleteDocument
  <2>4. files' \in [Documents -> SUBSET Files] /\ purged' \subseteq Files
    BY <1>4 DEF DeleteDocument
  <2> QED BY <1>4, <2>1, <2>2, <2>3, <2>4 DEF DeleteDocument, TaskShape
<1>5. ASSUME NEW s \in Slots, NEW failed \in SUBSET req[s].files, CleanObjects(s, failed)
      PROVE  TypeInv'
  <2>1. req' \in [Slots -> Requests] /\ ReqShape'
    BY <1>5 DEF CleanObjects, Requests, Idle, ReqShape, Until
  <2>2. faults' \in 0 .. MaxFaults /\ objects' \subseteq Files
    BY <1>5 DEF CleanObjects
  <2> QED BY <1>5, <2>1, <2>2 DEF CleanObjects, TaskShape
<1>6. ASSUME NEW s \in Slots, NEW d \in Documents, NEW f \in Files, StartUpload(s, d, f)
      PROVE  TypeInv'
  <2>1. req' \in [Slots -> Requests] /\ ReqShape'
    BY <1>6 DEF StartUpload, Requests, Idle, ReqShape, Until
  <2> QED BY <1>6, <2>1 DEF StartUpload, TaskShape
<1>7. ASSUME NEW s \in Slots, CommitUpload(s) PROVE TypeInv'
  <2>1. req' \in [Slots -> Requests] /\ ReqShape'
    BY <1>7 DEF CommitUpload, Requests, Idle, ReqShape, Until
  <2>2. files' \in [Documents -> SUBSET Files] /\ objects' \subseteq Files
    BY <1>7 DEF CommitUpload, Requests
  <2> QED BY <1>7, <2>1, <2>2 DEF CommitUpload, TaskShape
<1>8. ASSUME NEW s \in Slots, RequestFails(s) PROVE TypeInv'
  <2>1. req' \in [Slots -> Requests] /\ ReqShape'
    BY <1>8 DEF RequestFails, Requests, Idle, ReqShape, Until
  <2> QED BY <1>8, <2>1 DEF RequestFails, TaskShape
<1> QED BY <1>1, <1>2, <1>3, <1>4, <1>5, <1>6, <1>7, <1>8 DEF DocumentNext

LEMMA WorkerTypes == ASSUME TypeInv, WorkerNext PROVE TypeInv'
<1> USE RetentionAssumption DEF TypeInv, TypeOK, apiVars, workerVars
<1>0. PICK w \in Workers :
        \/ FindDue(w) \/ FlagDue(w) \/ StartTask(w)
        \/ \E snap \in task[w].todo : Claim(w, snap)
        \/ \E f \in Files : RemoveObject(w, f)
        \/ RemoveFails(w) \/ Finish(w) \/ EndTask(w) \/ Crash(w)
  BY DEF WorkerNext
<1>n. NoTask \in Tasks
  BY DEF NoTask, Tasks
<1>1. CASE FindDue(w)
  <2>1. due' \in [Workers -> (SUBSET Documents) \cup {Null}]
    BY <1>1 DEF FindDue
  <2> QED BY <1>1, <2>1 DEF FindDue, ReqShape, TaskShape
<1>2. CASE FlagDue(w)
  <2>1. policy' \in [Documents -> Policies]
    BY <1>2, WithStatusType DEF FlagDue, Statuses
  <2>2. due' \in [Workers -> (SUBSET Documents) \cup {Null}]
    BY <1>2 DEF FlagDue
  <2> QED BY <1>2, <2>1, <2>2 DEF FlagDue, ReqShape, TaskShape
<1>3. CASE StartTask(w)
  <2>1. policy' \in [Documents -> Policies]
    BY <1>3, UnstuckType DEF StartTask
  <2>2. PICK found \in SUBSET Documents :
          task' = [task EXCEPT ![w] = IF found = {} THEN NoTask
                     ELSE [NoTask EXCEPT !.stage = "list",
                                         !.todo = {Snapshot(d) : d \in found}]]
    BY <1>3 DEF StartTask
  <2>3. \A d \in Documents : Snapshot(d) \in Snapshots
    BY DEF Snapshot, Snapshots, Policies
  <2>4. task' \in [Workers -> Tasks] /\ TaskShape'
    <3> DEFINE new == [NoTask EXCEPT !.stage = "list", !.todo = {Snapshot(d) : d \in found}]
    <3>1. new \in Tasks /\ new.stage = "list"
      <4>1. {Snapshot(d) : d \in found} \subseteq Snapshots
        BY <2>3
      <4> HIDE DEF Snapshots
      <4> QED BY <4>1 DEF NoTask, Tasks
    <3>2. NoTask.stage = "idle"
      BY DEF NoTask
    <3>3. \E t \in Tasks : t.stage # "remove" /\ task' = [task EXCEPT ![w] = t]
      BY <1>n, <2>2, <3>1, <3>2
    <3> HIDE DEF new
    <3> QED BY <3>3 DEF TaskShape
  <2> QED BY <1>3, <2>1, <2>4 DEF StartTask, ReqShape
<1>4. CASE \E snap \in task[w].todo : Claim(w, snap)
  <2>1. PICK snap \in Snapshots : snap \in task[w].todo /\ Claim(w, snap)
    BY <1>4 DEF Tasks
  <2>2. policy' \in [Documents -> Policies]
    BY <2>1, WithStatusType DEF Claim, Statuses, Snapshots
  <2>3. task' \in [Workers -> Tasks] /\ TaskShape'
    <3>1. CASE Claimable(snap.doc)
      <4> DEFINE gone == snap.files \ SharedFiles(snap.doc)
                 new == [stage |-> "remove", todo |-> task[w].todo \ {snap},
                         current |-> snap, gone |-> gone, left |-> gone \ purged]
      <4>1. task' = [task EXCEPT ![w] = new]
        BY <2>1, <3>1 DEF Claim
      <4>2. gone \subseteq Files
        BY DEF Snapshots
      <4>3. new \in Tasks
        <5> HIDE DEF gone
        <5> QED BY <4>2 DEF Tasks
      <4>4. new.current = snap
        OBVIOUS
      <4> HIDE DEF new
      <4> QED BY <4>1, <4>3, <4>4 DEF TaskShape
    <3>2. CASE ~Claimable(snap.doc)
      <4>1. [task[w] EXCEPT !.todo = @ \ {snap}] \in Tasks
        BY TaskTypes
      <4>2. task' = [task EXCEPT ![w] = [task[w] EXCEPT !.todo = @ \ {snap}]]
        BY <2>1, <3>2 DEF Claim
      <4>3. [task[w] EXCEPT !.todo = @ \ {snap}].stage = "list"
        BY <2>1 DEF Claim, Tasks
      <4> QED BY <4>1, <4>2, <4>3 DEF TaskShape
    <3> QED BY <3>1, <3>2
  <2> QED BY <2>1, <2>2, <2>3 DEF Claim, ReqShape
<1>5. CASE \E f \in Files : RemoveObject(w, f)
  <2>1. task' \in [Workers -> Tasks] /\ TaskShape'
    <3>1. PICK f \in Files : RemoveObject(w, f)
      BY <1>5
    <3> DEFINE new == [task[w] EXCEPT !.left = @ \ {f}]
    <3>2. new \in Tasks /\ new.current = task[w].current
      <4>1. new \in Tasks
        BY TaskTypes
      <4>2. task[w] \in Tasks
        OBVIOUS
      <4> QED BY <4>1, <4>2 DEF Tasks
    <3>3. task' = [task EXCEPT ![w] = new] /\ task[w].stage = "remove"
      BY <3>1 DEF RemoveObject
    <3> HIDE DEF new
    <3> QED BY <3>2, <3>3 DEF TaskShape
  <2> QED BY <1>5, <2>1 DEF RemoveObject, ReqShape
<1>6. CASE RemoveFails(w)
  <2>1. task' \in [Workers -> Tasks] /\ TaskShape'
    BY <1>6, <1>n DEF RemoveFails, TaskShape, NoTask
  <2> QED BY <1>6, <2>1 DEF RemoveFails, ReqShape
<1>7. CASE Finish(w)
  <2> DEFINE snap == task[w].current
             d == snap.doc
  <2>0. snap \in Snapshots /\ task[w] \in Tasks
    BY <1>7 DEF Finish, TaskShape
  <2>1. task' \in [Workers -> Tasks] /\ TaskShape'
    <3>1. CASE task' = [task EXCEPT ![w] = NoTask]
      BY <1>n, <3>1 DEF TaskShape, NoTask
    <3>2. CASE task' = [task EXCEPT ![w] = [NoTask EXCEPT !.stage = "list", !.todo = task[w].todo]]
      BY <2>0, <3>2 DEF TaskShape, NoTask, Tasks
    <3> QED BY <1>7, <3>1, <3>2 DEF Finish
  <2>2. policy' \in [Documents -> Policies]
    BY <1>7, <2>0, WithStatusType DEF Finish, Statuses, Snapshots
  <2>3. records' \subseteq Records
    BY <1>7, <2>0 DEF Finish, Records, Snapshots, Tasks
  <2>4. purged' \subseteq Files
    BY <1>7, <2>0 DEF Finish, Tasks
  <2>5. docState' \in [Documents -> {"live", "trash", "destroyed", "absent"}]
    BY <1>7, <2>0 DEF Finish, Snapshots
  <2> QED BY <1>7, <2>1, <2>2, <2>3, <2>4, <2>5 DEF Finish, ReqShape
<1>8. CASE EndTask(w)
  BY <1>8, <1>n DEF EndTask, ReqShape, TaskShape, NoTask
<1>9. CASE Crash(w)
  <2>1. task' \in [Workers -> Tasks] /\ TaskShape'
    BY <1>9, <1>n DEF Crash, TaskShape, NoTask
  <2>2. due' \in [Workers -> (SUBSET Documents) \cup {Null}]
    BY <1>9 DEF Crash
  <2>3. faults' \in 0 .. MaxFaults
    BY <1>9 DEF Crash
  <2> QED BY <1>9, <2>1, <2>2, <2>3 DEF Crash, ReqShape
<1> QED BY <1>0, <1>1, <1>2, <1>3, <1>4, <1>5, <1>6, <1>7, <1>8, <1>9

LEMMA TimeTypes == ASSUME TypeInv, TimeNext PROVE TypeInv'
<1> USE DEF TypeInv, TypeOK, apiVars, workerVars
<1>1. policy' \in [Documents -> Policies]
  <2>1. PICK d \in Documents : RetentionEnds(d) \/ BecomesStale(d)
    BY DEF TimeNext
  <2>2. [policy[d] EXCEPT !.until = "past"] \in Policies
    BY DEF Policies, Until
  <2>4. [policy[d] EXCEPT !.stale = TRUE] \in Policies
    BY DEF Policies
  <2>3. \/ policy' = [policy EXCEPT ![d] = [policy[d] EXCEPT !.until = "past"]]
        \/ policy' = [policy EXCEPT ![d] = [policy[d] EXCEPT !.stale = TRUE]]
    BY <2>1 DEF RetentionEnds, BecomesStale
  <2> QED BY <2>2, <2>3, <2>4
<1> QED BY <1>1 DEF TimeNext, RetentionEnds, BecomesStale, ReqShape, TaskShape

LEMMA TypeStep == TypeInv /\ [Next]_vars => TypeInv'
<1> SUFFICES ASSUME TypeInv, [Next]_vars PROVE TypeInv'
  OBVIOUS
<1>1. CASE UNCHANGED vars
  BY <1>1 DEF vars, TypeInv, TypeOK, ReqShape, TaskShape
<1>2. CASE Next
  BY <1>2, SaveTypes, DecisionTypes, DocumentTypes, WorkerTypes, TimeTypes DEF Next
<1> QED BY <1>1, <1>2

\* Every variable of the retention workflow keeps its type, and a request or a
\* task in progress names existing ids: the requests of governance.controller.ts
\* and the tasks of ged-worker.ts never use a field they did not fill.
THEOREM TypeCorrect == Spec => []TypeOK
<1>1. TypeInv => TypeOK
  BY DEF TypeInv
<1> QED BY InitTypes, TypeStep, <1>1, PTL DEF Spec

-----------------------------------------------------------------------------
(***************************************************************************)
(* Destruction takes two administrators.  A record copies what the task    *)
(* read of the policy, so the invariant follows the pair of names (the     *)
(* approver, and the requester the approval was checked against) from the  *)
(* request to the policy row, the snapshot and the record.                 *)
(***************************************************************************)
Two(x) == /\ x.against \in Admins /\ x.approvedBy \in Admins
          /\ x.against # x.approvedBy

PolicyTwo ==
  \A d \in Documents :
    /\ policy[d].status \in {"APPROVED", "DESTROYING"} => Two(policy[d])
    /\ policy[d].status = "REQUESTED" => policy[d].requestedBy \in Admins

\* An approval under way read the request of another administrator.
ApproveTwo ==
  \A s \in Slots : req[s].kind = "decide" /\ req[s].action = "APPROVE" =>
    req[s].read \in Admins \ {req[s].by}

TaskTwo ==
  \A w \in Workers : /\ \A snap \in task[w].todo : Two(snap)
                     /\ task[w].stage = "remove" => Two(task[w].current)

RecordsTwo == \A r \in records : Two(r)

TwoInv == PolicyTwo /\ ApproveTwo /\ TaskTwo /\ RecordsTwo

\* A status change keeps the names and the existence of the row.
LEMMA WithStatusFields ==
  ASSUME NEW p \in Policies, NEW st \in Statuses
  PROVE  /\ WithStatus(p, st).status = st
         /\ WithStatus(p, st).requestedBy = p.requestedBy
         /\ WithStatus(p, st).approvedBy = p.approvedBy
         /\ WithStatus(p, st).against = p.against
         /\ WithStatus(p, st).exists = p.exists
BY DEF WithStatus, Policies

\* A step of one request that leaves it other than an approval.
LEMMA ApproveTwoKept ==
  ASSUME ApproveTwo, NEW s \in Slots, \A t \in Slots \ {s} : req'[t] = req[t],
         req'[s].kind # "decide"
  PROVE  ApproveTwo'
BY DEF ApproveTwo

LEMMA TwoInit == Init => TwoInv
<1> SUFFICES ASSUME Init PROVE TwoInv
  OBVIOUS
<1>1. PolicyTwo
  BY DEF Init, NoPolicy, PolicyTwo
<1>2. ApproveTwo
  BY DEF Init, Idle, ApproveTwo
<1>3. TaskTwo
  BY DEF Init, NoTask, TaskTwo
<1> QED BY <1>1, <1>2, <1>3 DEF Init, TwoInv, RecordsTwo

LEMMA SaveTwo == ASSUME TypeInv, TwoInv, SaveNext PROVE TwoInv'
<1> USE DEF TwoInv, apiVars, workerVars
<1>1. ASSUME NEW s \in Slots, NEW a \in Admins, NEW d \in Documents,
             NEW hold \in BOOLEAN, NEW until \in Until, StartSave(s, a, d, hold, until)
      PROVE  TwoInv'
  <2>1. req'[s].kind = "save" /\ \A t \in Slots \ {s} : req'[t] = req[t]
    BY <1>1 DEF StartSave, Idle, TypeInv, TypeOK
  <2>2. ApproveTwo'
    BY <2>1, ApproveTwoKept
  <2> QED BY <1>1, <2>2 DEF StartSave, PolicyTwo, TaskTwo, RecordsTwo
<1>2. ASSUME NEW a \in Admins, NEW d \in Documents, RequestApproval(a, d) PROVE TwoInv'
  BY <1>2 DEF RequestApproval, PolicyTwo, ApproveTwo, TaskTwo, RecordsTwo
<1>3. ASSUME NEW a \in Admins, NEW i \in Approvals, NEW v \in {"APPROVED", "REJECTED"},
             DecideApproval(a, i, v)
      PROVE  TwoInv'
  BY <1>3 DEF DecideApproval, PolicyTwo, ApproveTwo, TaskTwo, RecordsTwo
<1>4. ASSUME NEW s \in Slots, WriteSave(s) PROVE TwoInv'
  <2>1. req'[s].kind \in {"idle", "execute"} /\ \A t \in Slots \ {s} : req'[t] = req[t]
    BY <1>4 DEF WriteSave, Idle, TypeInv, TypeOK, Requests
  <2>2. ApproveTwo'
    BY <2>1, ApproveTwoKept
  <2>3. PolicyTwo'
    <3>1. ASSUME NEW p \in Policies, NEW r \in Requests
          PROVE  \/ Upserted(p, r).status = "NONE"
                 \/ /\ Upserted(p, r).status = p.status
                    /\ Upserted(p, r).requestedBy = p.requestedBy
                    /\ Upserted(p, r).approvedBy = p.approvedBy
                    /\ Upserted(p, r).against = p.against
      BY DEF Upserted, Policies, NoPolicy
    <3>2. policy[req[s].doc] \in Policies /\ req[s] \in Requests /\ req[s].doc \in Documents
      BY <1>4 DEF WriteSave, TypeInv, TypeOK, ReqShape
    <3>3. \/ policy' = policy
          \/ policy' = [policy EXCEPT ![req[s].doc] = Upserted(policy[req[s].doc], req[s])]
      BY <1>4 DEF WriteSave
    <3> QED BY <3>1, <3>2, <3>3 DEF PolicyTwo, Two, TypeInv, TypeOK
  <2> QED BY <1>4, <2>2, <2>3 DEF WriteSave, TaskTwo, RecordsTwo
<1>5. ASSUME NEW s \in Slots, ExecuteApproval(s) PROVE TwoInv'
  <2>1. req'[s].kind = "idle" /\ \A t \in Slots \ {s} : req'[t] = req[t]
    BY <1>5 DEF ExecuteApproval, Idle, TypeInv, TypeOK
  <2>2. ApproveTwo'
    BY <2>1, ApproveTwoKept
  <2> QED BY <1>5, <2>2 DEF ExecuteApproval, PolicyTwo, TaskTwo, RecordsTwo
<1> QED BY <1>1, <1>2, <1>3, <1>4, <1>5 DEF SaveNext

LEMMA DecisionTwo == ASSUME TypeInv, TwoInv, DecisionNext PROVE TwoInv'
<1> USE DEF TwoInv, apiVars, workerVars
<1>1. ASSUME NEW s \in Slots, NEW a \in Admins, NEW d \in Documents,
             NEW x \in {"REQUEST", "APPROVE", "REJECT"}, StartDecision(s, a, d, x)
      PROVE  TwoInv'
  <2>1. /\ req'[s].by = a /\ req'[s].action = x /\ req'[s].read = policy[d].requestedBy
        /\ \A t \in Slots \ {s} : req'[t] = req[t]
    BY <1>1 DEF StartDecision, Idle, TypeInv, TypeOK
  <2>2. x = "APPROVE" => policy[d].requestedBy \in Admins \ {a}
    BY <1>1 DEF StartDecision, Decidable, PolicyTwo
  <2>3. ApproveTwo'
    BY <2>1, <2>2 DEF ApproveTwo
  <2> QED BY <1>1, <2>3 DEF StartDecision, PolicyTwo, TaskTwo, RecordsTwo
<1>2. ASSUME NEW s \in Slots, WriteDecision(s) PROVE TwoInv'
  <2>1. req'[s].kind = "idle" /\ \A t \in Slots \ {s} : req'[t] = req[t]
    BY <1>2 DEF WriteDecision, Idle, TypeInv, TypeOK
  <2>2. ApproveTwo'
    BY <2>1, ApproveTwoKept
  <2>3. PolicyTwo'
    <3> DEFINE d == req[s].doc
               p == policy[d]
               r == req[s]
    <3>1. /\ d \in Documents /\ p \in Policies /\ r.by \in Admins
          /\ r.action \in {"REQUEST", "APPROVE", "REJECT"}
      BY <1>2 DEF WriteDecision, TypeInv, TypeOK, ReqShape, Requests
    <3>2. CASE p.exists
      <4>1. policy' = [policy EXCEPT ![d] = Decided(p, r)]
        BY <1>2, <3>2 DEF WriteDecision
      <4>2. r.action = "APPROVE" => r.read \in Admins \ {r.by}
        BY <1>2 DEF WriteDecision, ApproveTwo
      <4>3. ASSUME NEW q \in Policies, NEW t \in Requests
            PROVE  /\ t.action = "REQUEST" => /\ Decided(q, t).status = "REQUESTED"
                                             /\ Decided(q, t).requestedBy = t.by
                   /\ t.action = "APPROVE" => /\ Decided(q, t).status = "APPROVED"
                                             /\ Decided(q, t).against = t.read
                                             /\ Decided(q, t).approvedBy = t.by
                   /\ t.action = "REJECT" => Decided(q, t).status = "REJECTED"
        BY DEF Decided, WithStatus, Policies
      <4>4. r \in Requests
        BY DEF TypeInv, TypeOK
      <4>5. /\ Decided(p, r).status \in {"APPROVED", "DESTROYING"} => Two(Decided(p, r))
            /\ Decided(p, r).status = "REQUESTED" => Decided(p, r).requestedBy \in Admins
        <5> HIDE DEF p, r, d
        <5> QED BY <3>1, <4>2, <4>3, <4>4 DEF Two
      <4> HIDE DEF p, r, d
      <4> QED BY <3>1, <4>1, <4>5 DEF PolicyTwo, TypeInv, TypeOK
    <3>3. CASE ~p.exists
      BY <1>2, <3>3 DEF WriteDecision, PolicyTwo
    <3> QED BY <3>2, <3>3
  <2> QED BY <1>2, <2>2, <2>3 DEF WriteDecision, TaskTwo, RecordsTwo
<1> QED BY <1>1, <1>2 DEF DecisionNext

LEMMA DocumentTwo == ASSUME TypeInv, TwoInv, DocumentNext PROVE TwoInv'
<1> USE DEF TwoInv, apiVars, workerVars
<1>1. ASSUME NEW d \in Documents, RemoveByModerator(d) \/ RestoreFromTrash(d) PROVE TwoInv'
  BY <1>1 DEF RemoveByModerator, RestoreFromTrash, PolicyTwo, ApproveTwo, TaskTwo, RecordsTwo
<1>2. ASSUME NEW s \in Slots, req'[s].kind # "decide", policy' = policy,
             \A t \in Slots \ {s} : req'[t] = req[t], task' = task, records' = records
      PROVE  TwoInv'
  <2>1. ApproveTwo'
    BY <1>2, ApproveTwoKept
  <2> QED BY <1>2, <2>1 DEF PolicyTwo, TaskTwo, RecordsTwo
<1>3. ASSUME NEW s \in Slots, NEW d \in Documents, StartRemove(s, d) PROVE TwoInv'
  <2>1. req'[s].kind = "remove" /\ \A t \in Slots \ {s} : req'[t] = req[t]
    BY <1>3 DEF StartRemove, Idle, TypeInv, TypeOK
  <2> QED BY <1>2, <1>3, <2>1 DEF StartRemove
<1>4. ASSUME NEW s \in Slots, DeleteDocument(s) PROVE TwoInv'
  <2>1. req'[s].kind \in {"idle", "clean"} /\ \A t \in Slots \ {s} : req'[t] = req[t]
    BY <1>4 DEF DeleteDocument, Idle, TypeInv, TypeOK, Requests
  <2>2. ApproveTwo'
    BY <2>1, ApproveTwoKept
  <2>3. PolicyTwo'
    <3>1. policy' = policy \/ policy' = [policy EXCEPT ![req[s].doc] = NoPolicy]
      BY <1>4 DEF DeleteDocument
    <3>2. NoPolicy.status = "NONE"
      BY DEF NoPolicy
    <3> QED BY <3>1, <3>2 DEF PolicyTwo, TypeInv, TypeOK
  <2> QED BY <1>4, <2>2, <2>3 DEF DeleteDocument, TaskTwo, RecordsTwo
<1>5. ASSUME NEW s \in Slots, NEW failed \in SUBSET req[s].files, CleanObjects(s, failed)
      PROVE  TwoInv'
  <2>1. req'[s].kind = "idle" /\ \A t \in Slots \ {s} : req'[t] = req[t]
    BY <1>5 DEF CleanObjects, Idle, TypeInv, TypeOK
  <2> QED BY <1>2, <1>5, <2>1 DEF CleanObjects
<1>6. ASSUME NEW s \in Slots, NEW d \in Documents, NEW f \in Files, StartUpload(s, d, f)
      PROVE  TwoInv'
  <2>1. req'[s].kind = "upload" /\ \A t \in Slots \ {s} : req'[t] = req[t]
    BY <1>6 DEF StartUpload, Idle, TypeInv, TypeOK
  <2> QED BY <1>2, <1>6, <2>1 DEF StartUpload
<1>7. ASSUME NEW s \in Slots, CommitUpload(s) \/ RequestFails(s) PROVE TwoInv'
  <2>1. req'[s].kind = "idle" /\ \A t \in Slots \ {s} : req'[t] = req[t]
    BY <1>7 DEF CommitUpload, RequestFails, Idle, TypeInv, TypeOK
  <2> QED BY <1>2, <1>7, <2>1 DEF CommitUpload, RequestFails
<1> QED BY <1>1, <1>3, <1>4, <1>5, <1>6, <1>7 DEF DocumentNext

\* Destruction has been approved, or is under way.
Going(p) == p.status \in {"APPROVED", "DESTROYING"}

SameNames(x, y) == /\ x.requestedBy = y.requestedBy /\ x.approvedBy = y.approvedBy
                   /\ x.against = y.against

\* What a worker or the clock leaves of the names on policies, snapshots and records.
PolicyCopies ==
  \A d \in Documents : /\ SameNames(policy'[d], policy[d])
                       /\ policy'[d].exists = policy[d].exists
                       /\ Going(policy'[d]) => Going(policy[d])
                       /\ policy'[d].status = "REQUESTED" => policy[d].status = "REQUESTED"

TaskCopies ==
  \A w \in Workers :
    /\ \A snap \in task'[w].todo :
         \/ snap \in task[w].todo
         \/ \E d \in Documents : Going(policy[d]) /\ SameNames(snap, policy[d])
    /\ task'[w].stage = "remove" =>
         \/ task'[w].current \in task[w].todo
         \/ task[w].stage = "remove" /\ task'[w].current = task[w].current

RecordCopies ==
  \A r \in records' :
    \/ r \in records
    \/ \E w \in Workers : task[w].stage = "remove" /\ SameNames(r, task[w].current)

\* A worker writes no name: it carries those of a policy whose destruction is approved
\* to its snapshot and from there to the record (executeApprovedDestructions).
LEMMA WorkerCopies ==
  ASSUME TypeInv, WorkerNext \/ TimeNext
  PROVE  PolicyCopies /\ TaskCopies /\ RecordCopies /\ UNCHANGED apiVars
<1> USE DEF SameNames, Going
<1>s. /\ policy \in [Documents -> Policies] /\ task \in [Workers -> Tasks]
      /\ {"DUE", "APPROVED", "DESTROYING", "DESTROYED"} \subseteq Statuses
  BY DEF TypeInv, TypeOK, Statuses
<1>p. policy' = policy => PolicyCopies
  BY DEF PolicyCopies
<1>c. task' = task => TaskCopies
  BY DEF TaskCopies
<1>r. records' = records => RecordCopies
  BY DEF RecordCopies
<1>1. CASE TimeNext
  <2>1. PICK d \in Documents : RetentionEnds(d) \/ BecomesStale(d)
    BY <1>1 DEF TimeNext
  <2>2. PolicyCopies
    BY <1>s, <2>1 DEF RetentionEnds, BecomesStale, PolicyCopies, Policies
  <2> QED BY <1>c, <1>r, <2>1, <2>2 DEF RetentionEnds, BecomesStale, workerVars
<1>2. CASE WorkerNext
  <2>0. PICK w \in Workers :
          \/ FindDue(w) \/ FlagDue(w) \/ StartTask(w)
          \/ \E snap \in task[w].todo : Claim(w, snap)
          \/ \E f \in Files : RemoveObject(w, f)
          \/ RemoveFails(w) \/ Finish(w) \/ EndTask(w) \/ Crash(w)
    BY <1>2 DEF WorkerNext
  <2>n. ASSUME task' = [task EXCEPT ![w] = NoTask] PROVE TaskCopies
    BY <1>s, <2>n DEF TaskCopies, NoTask
  <2>1. CASE FindDue(w)
    BY <1>p, <1>c, <1>r, <2>1 DEF FindDue
  <2>2. CASE FlagDue(w)
    <3>1. \A d \in Documents : \/ policy'[d] = policy[d]
                               \/ policy'[d] = WithStatus(policy[d], "DUE")
      BY <2>2 DEF FlagDue
    <3>2. PolicyCopies
      BY <1>s, <3>1, WithStatusFields DEF PolicyCopies
    <3> QED BY <1>c, <1>r, <2>2, <3>2 DEF FlagDue
  <2>3. CASE StartTask(w)
    <3>1. \A d \in Documents : policy'[d] = Unstuck(policy[d])
      BY <2>3 DEF StartTask
    <3>2. PolicyCopies
      BY <1>s, <3>1, WithStatusFields DEF Unstuck, PolicyCopies
    <3>3. PICK found \in SUBSET Documents :
            /\ \A d \in found : policy'[d].status = "APPROVED"
            /\ task' = [task EXCEPT ![w] = IF found = {} THEN NoTask
                     ELSE [NoTask EXCEPT !.stage = "list",
                                         !.todo = {Snapshot(d) : d \in found}]]
      BY <2>3 DEF StartTask
    <3> DEFINE todo == {Snapshot(d) : d \in found}
    <3>4. \A snap \in todo : \E d \in Documents : Going(policy[d]) /\ SameNames(snap, policy[d])
      BY <3>2, <3>3 DEF Snapshot, PolicyCopies
    <3>5. \/ task'[w] = NoTask
          \/ task'[w] = [NoTask EXCEPT !.stage = "list", !.todo = todo]
      BY <1>s, <3>3
    <3> HIDE DEF todo
    <3>6. task'[w].stage # "remove" /\ (task'[w].todo = {} \/ task'[w].todo = todo)
      <4>1. CASE task'[w] = NoTask
        BY <4>1 DEF NoTask
      <4>2. CASE task'[w] = [NoTask EXCEPT !.stage = "list", !.todo = todo]
        BY <4>2 DEF NoTask
      <4> QED BY <3>5, <4>1, <4>2
    <3>7. \A v \in Workers \ {w} : task'[v] = task[v]
      BY <1>s, <3>3
    <3>8. TaskCopies
      <4>1. \A snap \in task'[w].todo : \E d \in Documents : Going(policy[d]) /\ SameNames(snap, policy[d])
        BY <3>4, <3>6
      <4> QED BY <3>6, <3>7, <4>1 DEF TaskCopies
    <3> QED BY <1>r, <2>3, <3>2, <3>8 DEF StartTask
  <2>4. ASSUME NEW snap \in task[w].todo, Claim(w, snap)
        PROVE  PolicyCopies /\ TaskCopies /\ RecordCopies /\ UNCHANGED apiVars
    <3>1. snap.doc \in Documents
      BY <1>s DEF Tasks, Snapshots
    <3>2. \A d \in Documents : \/ policy'[d] = policy[d]
                               \/ /\ policy[d].status = "APPROVED"
                                  /\ policy'[d] = WithStatus(policy[d], "DESTROYING")
      <4>1. CASE Claimable(snap.doc)
        <5>1. policy' = [policy EXCEPT ![snap.doc] = WithStatus(policy[snap.doc], "DESTROYING")]
          BY <2>4, <4>1 DEF Claim
        <5> QED BY <1>s, <3>1, <4>1, <5>1 DEF Claimable
      <4>2. CASE ~Claimable(snap.doc)
        BY <2>4, <4>2 DEF Claim
      <4> QED BY <4>1, <4>2
    <3>3. PolicyCopies
      BY <1>s, <3>2, WithStatusFields DEF PolicyCopies
    <3>4. \A v \in Workers \ {w} : task'[v] = task[v]
      BY <1>s, <2>4 DEF Claim
    <3>5. /\ task'[w].todo = task[w].todo \ {snap}
          /\ task'[w].stage = "remove" => task'[w].current = snap
      BY <1>s, <2>4 DEF Claim, Tasks
    <3>6. TaskCopies
      BY <2>4, <3>4, <3>5 DEF TaskCopies
    <3> QED BY <1>r, <2>4, <3>3, <3>6 DEF Claim
  <2>5. ASSUME NEW f \in Files, RemoveObject(w, f)
        PROVE  PolicyCopies /\ TaskCopies /\ RecordCopies /\ UNCHANGED apiVars
    <3>1. \A v \in Workers : /\ task'[v].todo = task[v].todo
                             /\ task'[v].stage = task[v].stage
                             /\ task'[v].current = task[v].current
      BY <1>s, <2>5 DEF RemoveObject, Tasks
    <3> QED BY <1>p, <1>r, <2>5, <3>1 DEF RemoveObject, TaskCopies
  <2>6. CASE RemoveFails(w) \/ EndTask(w) \/ Crash(w)
    BY <1>p, <1>r, <2>n, <2>6 DEF RemoveFails, EndTask, Crash
  <2>7. CASE Finish(w)
    <3> DEFINE snap == task[w].current
    <3>1. snap.doc \in Documents /\ task[w].stage = "remove"
      BY <2>7 DEF Finish, TypeInv, TaskShape, Snapshots
    <3>2. \A d \in Documents : \/ policy'[d] = policy[d]
                               \/ policy'[d] = WithStatus(policy[d], "DESTROYED")
      BY <1>s, <2>7, <3>1 DEF Finish
    <3>3. PolicyCopies
      BY <1>s, <3>2, WithStatusFields DEF PolicyCopies
    <3>4. TaskCopies
      <4>1. CASE task' = [task EXCEPT ![w] = NoTask]
        BY <2>n, <4>1
      <4>2. CASE task' = [task EXCEPT ![w] = [NoTask EXCEPT !.stage = "list", !.todo = task[w].todo]]
        BY <1>s, <4>2 DEF TaskCopies, NoTask
      <4> QED BY <2>7, <4>1, <4>2 DEF Finish
    <3>5. RecordCopies
      BY <2>7, <3>1 DEF Finish, RecordCopies
    <3> QED BY <2>7, <3>3, <3>4, <3>5 DEF Finish
  <2> QED BY <2>0, <2>1, <2>2, <2>3, <2>4, <2>5, <2>6, <2>7
<1> QED BY <1>1, <1>2

LEMMA WorkerTwo == ASSUME TypeInv, TwoInv, WorkerNext \/ TimeNext PROVE TwoInv'
<1> USE DEF TwoInv, SameNames, Going
<1>1. PolicyCopies /\ TaskCopies /\ RecordCopies /\ UNCHANGED apiVars
  BY WorkerCopies
<1>2. PolicyTwo'
  BY <1>1 DEF PolicyTwo, PolicyCopies, Two
<1>3. ApproveTwo'
  BY <1>1 DEF ApproveTwo, apiVars
<1>4. TaskTwo'
  <2>1. \A w \in Workers : \A snap \in task'[w].todo : Two(snap)
    BY <1>1 DEF TaskTwo, TaskCopies, PolicyTwo, Two
  <2>2. \A w \in Workers : task'[w].stage = "remove" => Two(task'[w].current)
    BY <1>1 DEF TaskTwo, TaskCopies
  <2> QED BY <2>1, <2>2 DEF TaskTwo
<1>5. RecordsTwo'
  BY <1>1 DEF RecordsTwo, RecordCopies, TaskTwo, Two
<1> QED BY <1>2, <1>3, <1>4, <1>5

\* However many requests the API serves at once, every destruction record was approved
\* by an administrator other than the one whose request the approval had read,
\* whatever the workers, crashes, holds, renewals and deletions in between
\* (retentionDecision and executeApprovedDestructions).
THEOREM DestructionTakesTwo == Spec => []TwoPersonDestruction
<1>1. Init => TypeInv /\ TwoInv
  BY InitTypes, TwoInit
<1>2. TypeInv /\ TwoInv /\ [Next]_vars => TypeInv' /\ TwoInv'
  <2> SUFFICES ASSUME TypeInv, TwoInv, [Next]_vars PROVE TypeInv' /\ TwoInv'
    OBVIOUS
  <2>1. TypeInv'
    BY TypeStep
  <2>2. CASE UNCHANGED vars
    BY <2>1, <2>2 DEF vars, TwoInv, PolicyTwo, ApproveTwo, TaskTwo, RecordsTwo
  <2>3. CASE Next
    BY <2>1, <2>3, SaveTwo, DecisionTwo, DocumentTwo, WorkerTwo DEF Next
  <2> QED BY <2>2, <2>3
<1>3. TwoInv => TwoPersonDestruction
  BY DEF TwoInv, RecordsTwo, Two, TwoPersonDestruction
<1> QED BY <1>1, <1>2, <1>3, PTL DEF Spec

\* A destroyed document stays destroyed, or its tombstone is deleted for good:
\* restoreFromTrash, removeByModerator, uploads and the worker cannot bring it
\* back, with any number of concurrent requests and workers.
THEOREM DestroyedStaysDestroyed == Spec => NoResurrection
<1> DEFINE Step == \A d \in Documents : docState[d] = "destroyed" =>
                     docState'[d] \in {"destroyed", "absent"}
<1>1. TypeInv /\ [Next]_vars => [Step]_vars
  <2> SUFFICES ASSUME TypeInv, Next PROVE Step
    BY DEF vars
  <2> USE DEF TypeInv, TypeOK, apiVars, workerVars
  <2>1. CASE SaveNext
    <3>1. ASSUME NEW s, NEW a, NEW d, NEW hold, NEW until, StartSave(s, a, d, hold, until)
          PROVE  docState' = docState
      BY <3>1 DEF StartSave
    <3>2. ASSUME NEW a, NEW d, RequestApproval(a, d) PROVE docState' = docState
      BY <3>2 DEF RequestApproval
    <3>3. ASSUME NEW a, NEW i, NEW v, DecideApproval(a, i, v) PROVE docState' = docState
      BY <3>3 DEF DecideApproval
    <3>4. ASSUME NEW s, WriteSave(s) \/ ExecuteApproval(s) PROVE docState' = docState
      BY <3>4 DEF WriteSave, ExecuteApproval
    <3> QED BY <2>1, <3>1, <3>2, <3>3, <3>4 DEF SaveNext
  <2>2. CASE DecisionNext
    <3>1. ASSUME NEW s, NEW a, NEW d, NEW x, StartDecision(s, a, d, x)
          PROVE  docState' = docState
      BY <3>1 DEF StartDecision
    <3>2. ASSUME NEW s, WriteDecision(s) PROVE docState' = docState
      BY <3>2 DEF WriteDecision
    <3> QED BY <2>2, <3>1, <3>2 DEF DecisionNext
  <2>3. CASE DocumentNext
    <3>1. ASSUME NEW d \in Documents, RemoveByModerator(d) \/ RestoreFromTrash(d) PROVE Step
      BY <3>1 DEF RemoveByModerator, RestoreFromTrash, Restorable
    <3>2. ASSUME NEW s \in Slots, DeleteDocument(s) PROVE Step
      BY <3>2 DEF DeleteDocument
    <3>3. ASSUME docState' = docState PROVE Step
      BY <3>3
    <3>4. ASSUME NEW s \in Slots, NEW d \in Documents, StartRemove(s, d) PROVE Step
      BY <3>3, <3>4 DEF StartRemove
    <3>5. ASSUME NEW s \in Slots, NEW failed, CleanObjects(s, failed) PROVE Step
      BY <3>3, <3>5 DEF CleanObjects
    <3>6. ASSUME NEW s \in Slots, NEW d \in Documents, NEW f \in Files, StartUpload(s, d, f)
          PROVE  Step
      BY <3>3, <3>6 DEF StartUpload
    <3>7. ASSUME NEW s \in Slots, CommitUpload(s) \/ RequestFails(s) PROVE Step
      BY <3>3, <3>7 DEF CommitUpload, RequestFails
    <3> HIDE DEF Step
    <3> QED BY <2>3, <3>1, <3>2, <3>4, <3>5, <3>6, <3>7 DEF DocumentNext
  <2>4. CASE WorkerNext
    <3>1. ASSUME NEW w \in Workers, Finish(w) PROVE Step
      BY <3>1 DEF Finish
    <3>2. ASSUME NEW w \in Workers, NEW snap, Claim(w, snap) PROVE docState' = docState
      BY <3>2 DEF Claim
    <3>3. ASSUME NEW w \in Workers, NEW f \in Files, RemoveObject(w, f)
          PROVE  docState' = docState
      BY <3>3 DEF RemoveObject
    <3>4. ASSUME NEW w \in Workers, \/ FindDue(w) \/ FlagDue(w) \/ StartTask(w)
                                   \/ RemoveFails(w) \/ EndTask(w) \/ Crash(w)
          PROVE  docState' = docState
      BY <3>4 DEF FindDue, FlagDue, StartTask, RemoveFails, EndTask, Crash
    <3>5. docState' = docState => Step
      OBVIOUS
    <3> HIDE DEF Step
    <3> QED BY <2>4, <3>1, <3>2, <3>3, <3>4, <3>5 DEF WorkerNext
  <2>5. CASE TimeNext
    BY <2>5 DEF TimeNext, RetentionEnds, BecomesStale
  <2> QED BY <2>1, <2>2, <2>3, <2>4, <2>5 DEF Next
<1> QED BY InitTypes, TypeStep, <1>1, PTL DEF Spec, NoResurrection
-----------------------------------------------------------------------------
(***************************************************************************)
(* A destruction record stays true.  Its files were removed before it was  *)
(* written; they stay out of the storage because a file id is drawn once,  *)
(* and stay marked because no other document ever refers to them.          *)
(***************************************************************************)
\* f belongs to d: a version of d, a request about d, a snapshot of d, the
\* removal of d's files or a record of d's destruction refers to f.
Holds(d, f) ==
  \/ f \in files[d]
  \/ \E s \in Slots : req[s].doc = d /\ f \in req[s].files
  \/ \E w \in Workers : \E snap \in task[w].todo : snap.doc = d /\ f \in snap.files
  \/ \E w \in Workers : /\ task[w].stage = "remove" /\ task[w].current.doc = d
                        /\ f \in task[w].gone
  \/ \E r \in records : r.doc = d /\ f \in r.files

\* A file in use was drawn, and belongs to one document.
OwnersApart ==
  \A d \in Documents : \A f \in Files : Holds(d, f) =>
    /\ f \in used
    /\ \A e \in Documents : Holds(e, f) => e = d

\* A purged file was drawn and is not in the storage.
PurgedGone == purged \subseteq used /\ purged \cap objects = {}

\* A task that removes objects still has to remove every file in the storage
\* among those its record will list.
LeftToRemove ==
  \A w \in Workers : task[w].stage = "remove" => task[w].gone \cap objects \subseteq task[w].left

GoneInv == OwnersApart /\ PurgedGone /\ LeftToRemove /\ RecordedFilesGone

\* What a step must respect for no document to gain a file: versions gain files
\* of requests, requests those of versions, snapshots those of versions,
\* removals those of a snapshot, and records those of a removal.
FilesFrom ==
  \A d \in Documents : \A f \in files'[d] :
    f \in files[d] \/ \E s \in Slots : req[s].doc = d /\ f \in req[s].files

RequestsFrom ==
  \A s \in Slots :
    \/ req'[s].files = {}
    \/ req'[s].doc = req[s].doc /\ req'[s].files = req[s].files
    \/ req'[s].doc \in Documents /\ req'[s].files = files[req'[s].doc]

TodoFrom ==
  \A w \in Workers : \A snap \in task'[w].todo :
    snap \in task[w].todo \/ snap.files = files[snap.doc]

RemovalFrom ==
  \A w \in Workers : task'[w].stage = "remove" =>
    \/ /\ task[w].stage = "remove"
       /\ task'[w].current = task[w].current /\ task'[w].gone = task[w].gone
    \/ task'[w].current \in task[w].todo /\ task'[w].gone \subseteq task'[w].current.files

RecordsFrom ==
  \A r \in records' : r \in records \/ \E w \in Workers :
    /\ task[w].stage = "remove"
    /\ r.doc = task[w].current.doc /\ r.files = task[w].gone

\* Such a step leaves every file with its owner.
LEMMA OwnersKept ==
  ASSUME OwnersApart, used' = used,
         FilesFrom, RequestsFrom, TodoFrom, RemovalFrom, RecordsFrom
  PROVE  OwnersApart'
<1>1. ASSUME NEW d \in Documents, NEW f \in Files, Holds(d, f)'
      PROVE  Holds(d, f)
  <2>1. CASE f \in files'[d]
    BY <2>1 DEF FilesFrom, Holds
  <2>2. ASSUME NEW s \in Slots, req'[s].doc = d /\ f \in req'[s].files
        PROVE  Holds(d, f)
    BY <2>2 DEF RequestsFrom, Holds
  <2>3. ASSUME NEW w \in Workers, NEW snap \in task'[w].todo,
               snap.doc = d /\ f \in snap.files
        PROVE  Holds(d, f)
    BY <2>3 DEF TodoFrom, Holds
  <2>4. ASSUME NEW w \in Workers, task'[w].stage = "remove", task'[w].current.doc = d,
               f \in task'[w].gone
        PROVE  Holds(d, f)
    BY <2>4 DEF RemovalFrom, Holds
  <2>5. ASSUME NEW r \in records', r.doc = d /\ f \in r.files
        PROVE  Holds(d, f)
    BY <2>5 DEF RecordsFrom, Holds
  <2> QED BY <1>1, <2>1, <2>2, <2>3, <2>4, <2>5 DEF Holds
<1> QED BY <1>1 DEF OwnersApart

\* A step that stores, purges and records nothing, deletes no mark, and leaves
\* the removals under way alone keeps the records true.
LEMMA GoneKept ==
  ASSUME TypeInv, GoneInv, OwnersApart', used' = used, purged' = purged,
         records' = records, objects' \subseteq objects,
         \A d \in Documents : docState[d] = "absent" => docState'[d] = "absent",
         \A w \in Workers : task'[w].stage = "remove" =>
            /\ task[w].stage = "remove"
            /\ task'[w].gone = task[w].gone /\ task'[w].left = task[w].left
  PROVE  GoneInv'
<1>1. PurgedGone'
  BY DEF GoneInv, PurgedGone
<1>2. LeftToRemove'
  BY DEF GoneInv, LeftToRemove
<1>3. RecordedFilesGone'
  BY DEF GoneInv, RecordedFilesGone, TypeInv, TypeOK, Records
<1> QED BY <1>1, <1>2, <1>3 DEF GoneInv

LEMMA GoneInit == Init => GoneInv
<1> SUFFICES ASSUME Init PROVE GoneInv
  OBVIOUS
<1>1. \A d \in Documents, f \in Files : Holds(d, f) <=> f \in InitialFiles[d]
  BY DEF Init, Holds, Idle, NoTask
<1>2. OwnersApart
  BY <1>1, RetentionAssumption DEF Init, OwnersApart
<1>3. PurgedGone /\ RecordedFilesGone
  BY DEF Init, PurgedGone, RecordedFilesGone
<1>4. LeftToRemove
  BY DEF Init, LeftToRemove, NoTask
<1> QED BY <1>2, <1>3, <1>4 DEF GoneInv

\* A step of the API alone: only requests, approvals, policies and the trash
\* change, and no request gains files.
LEMMA QuietGone ==
  ASSUME TypeInv, GoneInv, used' = used, purged' = purged, UNCHANGED workerVars,
         files' = files, objects' \subseteq objects, RequestsFrom,
         \A d \in Documents : docState[d] = "absent" => docState'[d] = "absent"
  PROVE  GoneInv'
<1>1. FilesFrom
  BY DEF FilesFrom
<1>2. TodoFrom
  BY DEF TodoFrom, workerVars
<1>3. RemovalFrom
  BY DEF RemovalFrom, workerVars
<1>4. RecordsFrom
  BY DEF RecordsFrom, workerVars
<1>5. OwnersApart'
  BY <1>1, <1>2, <1>3, <1>4, OwnersKept DEF GoneInv
<1> QED BY <1>5, GoneKept DEF workerVars

LEMMA SaveGone == ASSUME TypeInv, GoneInv, SaveNext PROVE GoneInv'
<1> USE DEF TypeInv, TypeOK
<1>1. ASSUME NEW s \in Slots, NEW a \in Admins, NEW d \in Documents,
             NEW hold \in BOOLEAN, NEW until \in Until, StartSave(s, a, d, hold, until)
      PROVE  GoneInv'
  <2>1. RequestsFrom
    BY <1>1 DEF StartSave, Idle, RequestsFrom
  <2> QED BY <1>1, <2>1, QuietGone DEF StartSave
<1>2. ASSUME NEW a \in Admins, NEW d \in Documents, RequestApproval(a, d)
      PROVE  GoneInv'
  BY <1>2, QuietGone DEF RequestApproval, RequestsFrom
<1>3. ASSUME NEW a \in Admins, NEW i \in Approvals, NEW v \in {"APPROVED", "REJECTED"},
             DecideApproval(a, i, v)
      PROVE  GoneInv'
  BY <1>3, QuietGone DEF DecideApproval, RequestsFrom
<1>4. ASSUME NEW s \in Slots, WriteSave(s) PROVE GoneInv'
  <2>1. RequestsFrom
    BY <1>4 DEF WriteSave, Idle, RequestsFrom, Requests
  <2> QED BY <1>4, <2>1, QuietGone DEF WriteSave
<1>5. ASSUME NEW s \in Slots, ExecuteApproval(s) PROVE GoneInv'
  <2>1. RequestsFrom
    BY <1>5 DEF ExecuteApproval, Idle, RequestsFrom
  <2> QED BY <1>5, <2>1, QuietGone DEF ExecuteApproval
<1> QED BY <1>1, <1>2, <1>3, <1>4, <1>5 DEF SaveNext

LEMMA DecisionGone == ASSUME TypeInv, GoneInv, DecisionNext PROVE GoneInv'
<1> USE DEF TypeInv, TypeOK
<1>1. ASSUME NEW s \in Slots, NEW a \in Admins, NEW d \in Documents,
             NEW x \in {"REQUEST", "APPROVE", "REJECT"}, StartDecision(s, a, d, x)
      PROVE  GoneInv'
  <2>1. RequestsFrom
    BY <1>1 DEF StartDecision, Idle, RequestsFrom
  <2> QED BY <1>1, <2>1, QuietGone DEF StartDecision
<1>2. ASSUME NEW s \in Slots, WriteDecision(s) PROVE GoneInv'
  <2>1. RequestsFrom
    BY <1>2 DEF WriteDecision, Idle, RequestsFrom
  <2> QED BY <1>2, <2>1, QuietGone DEF WriteDecision
<1> QED BY <1>1, <1>2 DEF DecisionNext

\* Deleting a document unmarks its files only, and its records then claim nothing.
LEMMA DeleteGone == ASSUME TypeInv, GoneInv, NEW s \in Slots, DeleteDocument(s) PROVE GoneInv'
<1> USE DEF TypeInv, TypeOK
<1>1. PICK d \in Documents : d = req[s].doc
  BY DEF DeleteDocument, ReqShape
<1>2. RequestsFrom
  BY DEF DeleteDocument, Idle, RequestsFrom, Requests
<1>3. CASE docState[d] = "absent"
  BY <1>1, <1>2, <1>3, QuietGone DEF DeleteDocument
<1>4. CASE docState[d] # "absent"
  <2>1. /\ docState' = [docState EXCEPT ![d] = "absent"]
        /\ files' = [files EXCEPT ![d] = {}]
        /\ purged' = purged \ req[s].files
        /\ UNCHANGED <<objects, used, due, task, records>>
    BY <1>1, <1>4 DEF DeleteDocument, workerVars
  <2>2. FilesFrom /\ TodoFrom /\ RemovalFrom /\ RecordsFrom
    BY <2>1 DEF FilesFrom, TodoFrom, RemovalFrom, RecordsFrom
  <2>3. OwnersApart'
    BY <1>2, <2>1, <2>2, OwnersKept DEF GoneInv
  <2>4. PurgedGone' /\ LeftToRemove'
    BY <2>1 DEF GoneInv, PurgedGone, LeftToRemove
  <2>5. ASSUME NEW r \in records, docState'[r.doc] # "absent"
        PROVE  r.files \subseteq purged'
    <3>1. r.doc \in Documents /\ r.files \subseteq Files
      BY DEF Records
    <3>2. r.doc # d /\ docState[r.doc] # "absent"
      BY <2>1, <2>5, <3>1
    <3>3. r.files \subseteq purged
      BY <3>2 DEF GoneInv, RecordedFilesGone
    <3>4. ASSUME NEW f \in r.files, f \in req[s].files PROVE FALSE
      <4>1. Holds(r.doc, f) /\ Holds(d, f)
        BY <1>1, <3>4 DEF Holds
      <4> QED BY <3>1, <3>2, <4>1 DEF GoneInv, OwnersApart
    <3> QED BY <2>1, <3>3, <3>4
  <2>6. RecordedFilesGone'
    BY <2>1, <2>5 DEF GoneInv, RecordedFilesGone
  <2> QED BY <2>3, <2>4, <2>6 DEF GoneInv
<1> QED BY <1>3, <1>4

\* A file id drawn for an upload belongs to no record and to no document yet.
LEMMA UploadGone ==
  ASSUME TypeInv, GoneInv, NEW s \in Slots, NEW d \in Documents, NEW f \in Files,
         StartUpload(s, d, f)
  PROVE  GoneInv'
<1> USE DEF TypeInv, TypeOK
<1>1. /\ f \notin used /\ used' = used \cup {f} /\ objects' = objects \cup {f}
      /\ UNCHANGED <<docState, files, purged, due, task, records>>
  BY DEF StartUpload, workerVars
<1>2. \A t \in Slots : \/ req'[t] = req[t]
                       \/ req'[t].doc = d /\ req'[t].files = {f}
  BY DEF StartUpload, Idle
<1>3. ASSUME NEW e \in Documents, NEW g \in Files, Holds(e, g)'
      PROVE  Holds(e, g) \/ (e = d /\ g = f)
  BY <1>1, <1>2, <1>3 DEF Holds
<1>4. \A e \in Documents : ~Holds(e, f)
  BY <1>1 DEF GoneInv, OwnersApart
<1>5. OwnersApart'
  BY <1>1, <1>3, <1>4 DEF GoneInv, OwnersApart
<1>6. PurgedGone'
  BY <1>1 DEF GoneInv, PurgedGone
<1>7. LeftToRemove'
  <2> SUFFICES ASSUME NEW w \in Workers, task[w].stage = "remove"
               PROVE  task[w].gone \cap objects' \subseteq task[w].left
    BY <1>1 DEF LeftToRemove
  <2>1. task[w].current.doc \in Documents
    BY DEF TaskShape, Snapshots
  <2>2. f \notin task[w].gone
    BY <1>4, <2>1 DEF Holds
  <2> QED BY <1>1, <2>2 DEF GoneInv, LeftToRemove
<1>8. RecordedFilesGone'
  <2> SUFFICES ASSUME NEW r \in records PROVE r.files \cap objects' = {}
    BY <1>1 DEF GoneInv, RecordedFilesGone
  <2>1. r.doc \in Documents
    BY DEF Records
  <2>2. f \notin r.files
    BY <1>4, <2>1 DEF Holds
  <2> QED BY <1>1, <2>2 DEF GoneInv, RecordedFilesGone
<1> QED BY <1>5, <1>6, <1>7, <1>8 DEF GoneInv

LEMMA DocumentGone == ASSUME TypeInv, GoneInv, DocumentNext PROVE GoneInv'
<1> USE DEF TypeInv, TypeOK
<1>1. ASSUME NEW d \in Documents, RemoveByModerator(d) \/ RestoreFromTrash(d) PROVE GoneInv'
  <2>1. RequestsFrom
    BY <1>1 DEF RemoveByModerator, RestoreFromTrash, RequestsFrom, apiVars
  <2>2. \A e \in Documents : docState[e] = "absent" => docState'[e] = "absent"
    BY <1>1 DEF RemoveByModerator, RestoreFromTrash, Restorable
  <2> QED BY <1>1, <2>1, <2>2, QuietGone DEF RemoveByModerator, RestoreFromTrash
<1>3. ASSUME NEW s \in Slots, NEW d \in Documents, StartRemove(s, d) PROVE GoneInv'
  <2>1. RequestsFrom
    BY <1>3 DEF StartRemove, Idle, RequestsFrom
  <2> QED BY <1>3, <2>1, QuietGone DEF StartRemove
<1>4. ASSUME NEW s \in Slots, DeleteDocument(s) PROVE GoneInv'
  BY <1>4, DeleteGone
<1>5. ASSUME NEW s \in Slots, NEW failed \in SUBSET req[s].files, CleanObjects(s, failed)
      PROVE  GoneInv'
  <2>1. RequestsFrom
    BY <1>5 DEF CleanObjects, Idle, RequestsFrom
  <2> QED BY <1>5, <2>1, QuietGone DEF CleanObjects
<1>6. ASSUME NEW s \in Slots, NEW d \in Documents, NEW f \in Files, StartUpload(s, d, f)
      PROVE  GoneInv'
  BY <1>6, UploadGone
<1>7. ASSUME NEW s \in Slots, CommitUpload(s) PROVE GoneInv'
  <2>1. RequestsFrom
    BY <1>7 DEF CommitUpload, Idle, RequestsFrom
  <2>2. FilesFrom
    BY <1>7 DEF CommitUpload, FilesFrom
  <2>3. TodoFrom /\ RemovalFrom /\ RecordsFrom
    BY <1>7 DEF CommitUpload, TodoFrom, RemovalFrom, RecordsFrom, workerVars
  <2>4. OwnersApart'
    BY <1>7, <2>1, <2>2, <2>3, OwnersKept DEF GoneInv, CommitUpload
  <2> QED BY <1>7, <2>4, GoneKept DEF CommitUpload, workerVars
<1>8. ASSUME NEW s \in Slots, RequestFails(s) PROVE GoneInv'
  <2>1. RequestsFrom
    BY <1>8 DEF RequestFails, Idle, RequestsFrom
  <2> QED BY <1>8, <2>1, QuietGone DEF RequestFails
<1> QED BY <1>1, <1>3, <1>4, <1>5, <1>6, <1>7, <1>8 DEF DocumentNext

\* A worker's step other than claiming, removing and recording: its own task ends
\* or lists snapshots of the versions as they are.
LEMMA ListingGone ==
  ASSUME TypeInv, GoneInv, NEW w \in Workers, NEW t,
         UNCHANGED <<docState, files, objects, purged, used, records, req>>,
         task' = [task EXCEPT ![w] = t], t.stage # "remove",
         \A snap \in t.todo : snap.files = files[snap.doc]
  PROVE  GoneInv'
<1>1. task \in [Workers -> Tasks]
  BY DEF TypeInv, TypeOK
<1>2. FilesFrom /\ RequestsFrom /\ RecordsFrom
  BY DEF FilesFrom, RequestsFrom, RecordsFrom
<1>3. TodoFrom /\ RemovalFrom
  BY <1>1 DEF TodoFrom, RemovalFrom
<1>4. OwnersApart'
  BY <1>2, <1>3, OwnersKept DEF GoneInv
<1> QED BY <1>1, <1>4, GoneKept

LEMMA WorkerGone == ASSUME TypeInv, GoneInv, WorkerNext PROVE GoneInv'
<1> USE DEF TypeInv, TypeOK, apiVars
<1>0. PICK w \in Workers :
        \/ FindDue(w) \/ FlagDue(w) \/ StartTask(w)
        \/ \E snap \in task[w].todo : Claim(w, snap)
        \/ \E f \in Files : RemoveObject(w, f)
        \/ RemoveFails(w) \/ Finish(w) \/ EndTask(w) \/ Crash(w)
  BY DEF WorkerNext
<1>n. NoTask.stage = "idle" /\ NoTask.todo = {}
  BY DEF NoTask
<1>1. CASE FindDue(w) \/ FlagDue(w)
  <2>1. UNCHANGED <<docState, files, objects, purged, used, records, req, task>>
    BY <1>1 DEF FindDue, FlagDue
  <2>2. FilesFrom /\ RequestsFrom /\ RecordsFrom /\ TodoFrom /\ RemovalFrom
    BY <2>1 DEF FilesFrom, RequestsFrom, RecordsFrom, TodoFrom, RemovalFrom
  <2>3. OwnersApart'
    BY <2>1, <2>2, OwnersKept DEF GoneInv
  <2> QED BY <2>1, <2>3, GoneKept
<1>3. CASE StartTask(w)
  <2>1. PICK found \in SUBSET Documents :
          task' = [task EXCEPT ![w] = IF found = {} THEN NoTask
                     ELSE [NoTask EXCEPT !.stage = "list",
                                         !.todo = {Snapshot(d) : d \in found}]]
    BY <1>3 DEF StartTask
  <2> DEFINE todo == {Snapshot(d) : d \in found}
             t == IF found = {} THEN NoTask
                  ELSE [NoTask EXCEPT !.stage = "list", !.todo = todo]
  <2>2. \A snap \in todo : snap.files = files[snap.doc]
    BY DEF Snapshot
  <2>3. task' = [task EXCEPT ![w] = t]
    BY <2>1
  <2> HIDE DEF todo
  <2>4. t.stage # "remove" /\ (t.todo = {} \/ t.todo = todo)
    BY DEF NoTask
  <2> HIDE DEF t
  <2>5. \A snap \in t.todo : snap.files = files[snap.doc]
    BY <2>2, <2>4
  <2>6. UNCHANGED <<docState, files, objects, purged, used, records, req>>
    BY <1>3 DEF StartTask
  <2> QED BY <2>3, <2>4, <2>5, <2>6, ListingGone
<1>4. ASSUME NEW snap \in task[w].todo, Claim(w, snap) PROVE GoneInv'
  <2>1. snap \in Snapshots
    BY DEF Tasks
  <2>2. UNCHANGED <<docState, files, objects, purged, used, records, req>>
    BY <1>4 DEF Claim
  <2>3. FilesFrom /\ RequestsFrom /\ RecordsFrom
    BY <2>2 DEF FilesFrom, RequestsFrom, RecordsFrom
  <2> DEFINE gone == snap.files \ SharedFiles(snap.doc)
  <2>4. \A v \in Workers \ {w} : task'[v] = task[v]
    BY <1>4 DEF Claim
  <2>5. /\ task'[w].todo \subseteq task[w].todo
        /\ task'[w].stage = "remove" => /\ task'[w].current = snap
                                        /\ task'[w].gone = gone
                                        /\ task'[w].left = gone \ purged
    <3>1. CASE Claimable(snap.doc)
      BY <1>4, <3>1 DEF Claim
    <3>2. CASE ~Claimable(snap.doc)
      <4>1. task'[w] = [task[w] EXCEPT !.todo = @ \ {snap}] /\ task[w].stage = "list"
        BY <1>4, <3>2 DEF Claim
      <4> QED BY <4>1 DEF Tasks
    <3> QED BY <3>1, <3>2
  <2>6. TodoFrom
    BY <2>4, <2>5 DEF TodoFrom
  <2>7. RemovalFrom
    BY <2>4, <2>5 DEF RemovalFrom
  <2>8. OwnersApart'
    BY <2>2, <2>3, <2>6, <2>7, OwnersKept DEF GoneInv
  <2>9. LeftToRemove'
    BY <2>2, <2>4, <2>5 DEF GoneInv, LeftToRemove, PurgedGone
  <2>10. PurgedGone' /\ RecordedFilesGone'
    BY <2>2 DEF GoneInv, PurgedGone, RecordedFilesGone
  <2> QED BY <2>8, <2>9, <2>10 DEF GoneInv
<1>5. ASSUME NEW f \in Files, RemoveObject(w, f) PROVE GoneInv'
  <2>1. UNCHANGED <<docState, files, purged, used, records, req>> /\ objects' = objects \ {f}
    BY <1>5 DEF RemoveObject
  <2>2. \A v \in Workers : /\ task'[v].todo = task[v].todo
                           /\ task'[v].stage = task[v].stage
                           /\ task'[v].current = task[v].current
                           /\ task'[v].gone = task[v].gone
                           /\ task[v].left \ {f} \subseteq task'[v].left
    BY <1>5 DEF RemoveObject, Tasks
  <2>3. FilesFrom /\ RequestsFrom /\ RecordsFrom
    BY <2>1 DEF FilesFrom, RequestsFrom, RecordsFrom
  <2>4. TodoFrom /\ RemovalFrom
    BY <2>2 DEF TodoFrom, RemovalFrom
  <2>5. OwnersApart'
    BY <2>1, <2>3, <2>4, OwnersKept DEF GoneInv
  <2>6. LeftToRemove'
    BY <2>1, <2>2 DEF GoneInv, LeftToRemove
  <2>7. PurgedGone' /\ RecordedFilesGone'
    BY <2>1 DEF GoneInv, PurgedGone, RecordedFilesGone
  <2> QED BY <2>5, <2>6, <2>7 DEF GoneInv
<1>6. CASE RemoveFails(w) \/ EndTask(w) \/ Crash(w)
  <2>1. /\ UNCHANGED <<docState, files, objects, purged, used, records, req>>
        /\ task' = [task EXCEPT ![w] = NoTask]
    BY <1>6 DEF RemoveFails, EndTask, Crash
  <2> QED BY <1>n, <2>1, ListingGone
<1>7. CASE Finish(w)
  <2>1. PICK snap \in Snapshots : snap = task[w].current
    BY <1>7 DEF Finish, TaskShape
  <2>2. PICK d \in Documents : d = snap.doc
    BY DEF Snapshots
  <2>3. PICK gone \in SUBSET Files : gone = task[w].gone
    BY DEF Tasks
  <2>4. CASE docState[d] = "absent" \/ ~policy[d].exists
    <3>1. /\ UNCHANGED <<docState, files, objects, purged, used, records, req>>
          /\ task' = [task EXCEPT ![w] = NoTask]
      BY <1>7, <2>1, <2>2, <2>4 DEF Finish
    <3> QED BY <1>n, <3>1, ListingGone
  <2>5. CASE ~(docState[d] = "absent" \/ ~policy[d].exists)
    <3> DEFINE rec == [doc |-> d, requestedBy |-> snap.requestedBy,
                       approvedBy |-> snap.approvedBy, against |-> snap.against,
                       files |-> gone]
               t == [NoTask EXCEPT !.stage = "list", !.todo = task[w].todo]
    <3>1. /\ UNCHANGED <<files, objects, used, req>>
          /\ purged' = purged \cup gone
          /\ docState' = [docState EXCEPT ![d] = "destroyed"]
          /\ records' = records \cup {rec}
          /\ task' = [task EXCEPT ![w] = t]
          /\ task[w].stage = "remove" /\ task[w].left = {}
      BY <1>7, <2>1, <2>2, <2>3, <2>5 DEF Finish, FinishReady
    <3>2. rec.doc = d /\ rec.files = gone /\ t.stage = "list" /\ t.todo = task[w].todo
      BY DEF NoTask
    <3> HIDE DEF rec, t
    <3>3. FilesFrom /\ RequestsFrom
      BY <3>1 DEF FilesFrom, RequestsFrom
    <3>4. RecordsFrom
      BY <2>1, <2>2, <2>3, <3>1, <3>2 DEF RecordsFrom
    <3>5. \A v \in Workers : /\ v # w => task'[v] = task[v]
                             /\ v = w => task'[v] = t
      BY <3>1
    <3>6. TodoFrom /\ RemovalFrom
      BY <3>2, <3>5 DEF TodoFrom, RemovalFrom
    <3>7. OwnersApart'
      BY <3>1, <3>3, <3>4, <3>6, OwnersKept DEF GoneInv
    <3>8. gone \cap objects = {}
      BY <2>3, <3>1 DEF GoneInv, LeftToRemove
    <3>9. gone \subseteq used
      <4> SUFFICES ASSUME NEW f \in gone PROVE f \in used
        OBVIOUS
      <4>1. Holds(d, f)
        BY <2>1, <2>2, <2>3, <3>1 DEF Holds
      <4> QED BY <4>1 DEF GoneInv, OwnersApart
    <3>10. PurgedGone'
      BY <3>1, <3>8, <3>9 DEF GoneInv, PurgedGone
    <3>11. LeftToRemove'
      BY <3>1, <3>2, <3>5 DEF GoneInv, LeftToRemove
    <3>12. RecordedFilesGone'
      <4>1. ASSUME NEW r \in records, docState'[r.doc] # "absent"
            PROVE  r.files \subseteq purged'
        <5>1. docState[r.doc] # "absent"
          BY <2>5, <3>1, <4>1 DEF Records
        <5> QED BY <3>1, <5>1 DEF GoneInv, RecordedFilesGone
      <4>2. \A r \in records : r.files \cap objects' = {}
        BY <3>1 DEF GoneInv, RecordedFilesGone
      <4> QED BY <3>1, <3>2, <3>8, <4>1, <4>2 DEF RecordedFilesGone
    <3> QED BY <3>7, <3>10, <3>11, <3>12 DEF GoneInv
  <2> QED BY <2>4, <2>5
<1> QED BY <1>0, <1>1, <1>3, <1>4, <1>5, <1>6, <1>7

LEMMA TimeGone == ASSUME TypeInv, GoneInv, TimeNext PROVE GoneInv'
BY QuietGone DEF TimeNext, RetentionEnds, BecomesStale, RequestsFrom, apiVars

\* A "document.destroyed" record is true when it is written and stays true: none
\* of its files is in the storage again, and each is marked purged unless the
\* tombstone was deleted, with any number of concurrent requests, workers taking
\* the same policy, crashes between removals and deletions of other documents.
THEOREM RecordsStayTrue == Spec => []RecordedFilesGone
<1>1. Init => TypeInv /\ GoneInv
  BY InitTypes, GoneInit
<1>2. TypeInv /\ GoneInv /\ [Next]_vars => TypeInv' /\ GoneInv'
  <2> SUFFICES ASSUME TypeInv, GoneInv, [Next]_vars PROVE TypeInv' /\ GoneInv'
    OBVIOUS
  <2>1. TypeInv'
    BY TypeStep
  <2>2. CASE UNCHANGED vars
    BY <2>1, <2>2, QuietGone DEF vars, workerVars, RequestsFrom
  <2>3. CASE Next
    BY <2>1, <2>3, SaveGone, DecisionGone, DocumentGone, WorkerGone, TimeGone DEF Next
  <2> QED BY <2>2, <2>3
<1>3. GoneInv => RecordedFilesGone
  BY DEF GoneInv
<1> QED BY <1>1, <1>2, <1>3, PTL DEF Spec
-----------------------------------------------------------------------------
(***************************************************************************)
(* Releasing a hold takes two administrators.  The invariant follows the   *)
(* grant from the approval row to the save that carries its id; an         *)
(* approval that another save has spent meanwhile is still one somebody    *)
(* else granted for this document.                                         *)
(***************************************************************************)
\* A step that rewrites a policy without touching its hold and its existence.
HoldsSame ==
  \A d \in Documents : /\ policy'[d].hold = policy[d].hold
                       /\ policy'[d].exists = policy[d].exists

\* A status change keeps the hold.
LEMMA WithStatusHold ==
  ASSUME NEW p \in Policies, NEW st \in Statuses
  PROVE  /\ WithStatus(p, st).hold = p.hold
         /\ WithStatus(p, st).exists = p.exists
BY DEF WithStatus, Policies

\* A decision keeps the hold.
LEMMA DecidedHold ==
  ASSUME NEW p \in Policies, NEW r \in Requests
  PROVE  Decided(p, r).hold = p.hold /\ Decided(p, r).exists = p.exists
BY DEF Decided, WithStatus, Policies

\* No step of a worker and no passing of time changes a hold.
LEMMA WorkerHolds == ASSUME TypeInv, WorkerNext \/ TimeNext PROVE HoldsSame /\ UNCHANGED apiVars
<1>s. /\ policy \in [Documents -> Policies] /\ task \in [Workers -> Tasks]
      /\ {"DUE", "APPROVED", "DESTROYING", "DESTROYED"} \subseteq Statuses
  BY DEF TypeInv, TypeOK, Statuses
<1>1. CASE WorkerNext
  <2>0. PICK w \in Workers :
          \/ FindDue(w) \/ FlagDue(w) \/ StartTask(w)
          \/ \E snap \in task[w].todo : Claim(w, snap)
          \/ \E f \in Files : RemoveObject(w, f)
          \/ RemoveFails(w) \/ Finish(w) \/ EndTask(w) \/ Crash(w)
    BY <1>1 DEF WorkerNext
  <2>1. CASE FlagDue(w)
    <3>1. \A d \in Documents : policy'[d] \in {policy[d], WithStatus(policy[d], "DUE")}
      BY <2>1 DEF FlagDue
    <3> QED BY <1>s, <2>1, <3>1, WithStatusHold DEF HoldsSame, FlagDue
  <2>2. CASE StartTask(w)
    <3>1. \A d \in Documents : policy'[d] \in {policy[d], WithStatus(policy[d], "APPROVED")}
      BY <2>2 DEF StartTask, Unstuck
    <3> QED BY <1>s, <2>2, <3>1, WithStatusHold DEF HoldsSame, StartTask
  <2>3. ASSUME NEW snap \in task[w].todo, Claim(w, snap)
        PROVE  HoldsSame /\ UNCHANGED apiVars
    <3>1. snap.doc \in Documents
      BY <1>s DEF Tasks, Snapshots
    <3>2. \A d \in Documents : policy'[d] \in {policy[d], WithStatus(policy[d], "DESTROYING")}
      BY <1>s, <2>3, <3>1 DEF Claim
    <3> QED BY <1>s, <2>3, <3>2, WithStatusHold DEF HoldsSame, Claim
  <2>4. CASE Finish(w)
    <3>1. PICK d \in Documents : d = task[w].current.doc
      BY <2>4 DEF Finish, TypeInv, TaskShape, Snapshots
    <3>2. \A e \in Documents : policy'[e] \in {policy[e], WithStatus(policy[e], "DESTROYED")}
      BY <1>s, <2>4, <3>1 DEF Finish
    <3> QED BY <1>s, <2>4, <3>2, WithStatusHold DEF HoldsSame, Finish
  <2>5. CASE \/ FindDue(w) \/ \E f \in Files : RemoveObject(w, f)
             \/ RemoveFails(w) \/ EndTask(w) \/ Crash(w)
    BY <2>5 DEF FindDue, RemoveObject, RemoveFails, EndTask, Crash, HoldsSame
  <2> QED BY <2>0, <2>1, <2>2, <2>3, <2>4, <2>5
<1>2. CASE TimeNext
  <2>1. PICK d \in Documents : RetentionEnds(d) \/ BecomesStale(d)
    BY <1>2 DEF TimeNext
  <2>2. HoldsSame
    BY <1>s, <2>1 DEF RetentionEnds, BecomesStale, HoldsSame, Policies
  <2> QED BY <2>1, <2>2 DEF RetentionEnds, BecomesStale
<1> QED BY <1>1, <1>2

\* A granted approval, spent or not, is that of another administrator.
Granted(i) ==
  /\ approval[i].status \in {"APPROVED", "EXECUTED"}
  /\ approval[i].approvedBy \in Admins \ {approval[i].requestedBy}

GrantsByOther ==
  \A i \in Approvals : approval[i].status \in {"APPROVED", "EXECUTED"} => Granted(i)

\* A save that carries an approval carries one granted to its administrator for its
\* document, even if another request has spent it since.
SavesGranted ==
  \A s \in Slots : req[s].kind \in {"save", "execute"} /\ req[s].approval # Null =>
    /\ Granted(req[s].approval)
    /\ approval[req[s].approval].requestedBy = req[s].by
    /\ approval[req[s].approval].doc = req[s].doc

GrantInv == GrantsByOther /\ SavesGranted

\* What a step may do to a hold.
GrantStep ==
  \A d \in Documents : policy[d].hold /\ ~policy'[d].hold =>
    ~policy'[d].exists \/ \E s \in Slots : Releases(s, d)

LEMMA GrantInit == Init => GrantInv
BY DEF Init, Idle, GrantInv, GrantsByOther, SavesGranted

LEMMA WorkerGrants ==
  ASSUME TypeInv, GrantInv, WorkerNext \/ TimeNext
  PROVE  GrantInv' /\ GrantStep
<1>1. HoldsSame /\ UNCHANGED apiVars
  BY WorkerHolds
<1>2. GrantsByOther' /\ SavesGranted'
  BY <1>1 DEF GrantInv, GrantsByOther, SavesGranted, Granted, apiVars
<1> QED BY <1>1, <1>2 DEF GrantInv, GrantStep, HoldsSame

\* A step of one request that leaves the approvals alone.
LEMMA RequestGrants ==
  ASSUME GrantInv, NEW s \in Slots, approval' = approval,
         \A t \in Slots \ {s} : req'[t] = req[t],
         \/ req'[s].kind \notin {"save", "execute"}
         \/ req'[s].approval = Null
         \/ /\ Granted(req'[s].approval)
            /\ approval[req'[s].approval].requestedBy = req'[s].by
            /\ approval[req'[s].approval].doc = req'[s].doc
  PROVE  GrantInv'
<1>2. GrantsByOther'
  BY DEF GrantInv, GrantsByOther, Granted
<1>3. SavesGranted'
  <2> SUFFICES ASSUME NEW t \in Slots, req'[t].kind \in {"save", "execute"}, req'[t].approval # Null
               PROVE  /\ Granted(req'[t].approval)
                      /\ approval[req'[t].approval].requestedBy = req'[t].by
                      /\ approval[req'[t].approval].doc = req'[t].doc
    BY DEF SavesGranted, Granted
  <2>1. CASE t = s
    BY <2>1
  <2>2. CASE t # s
    BY <2>2 DEF GrantInv, SavesGranted
  <2> QED BY <2>1, <2>2
<1> QED BY <1>2, <1>3 DEF GrantInv

\* A step of the approval row i that loses no grant.
LEMMA RowGrants ==
  ASSUME TypeInv, GrantInv, NEW i \in Approvals, req' = req,
         \A j \in Approvals \ {i} : approval'[j] = approval[j],
         approval'[i].status \in {"APPROVED", "EXECUTED"} => Granted(i)',
         approval[i].status \notin {"APPROVED", "EXECUTED"}
  PROVE  GrantInv'
<1>2. GrantsByOther'
  BY DEF GrantInv, GrantsByOther, Granted
<1>3. SavesGranted'
  <2>1. ASSUME NEW s \in Slots, req[s].kind \in {"save", "execute"}, req[s].approval # Null
        PROVE  approval'[req[s].approval] = approval[req[s].approval]
    <3>1. req[s].approval \in Approvals /\ req[s].approval # i
      BY <2>1 DEF GrantInv, SavesGranted, Granted, TypeInv, TypeOK, Requests
    <3> QED BY <3>1
  <2> QED BY <2>1 DEF GrantInv, SavesGranted, Granted
<1> QED BY <1>2, <1>3 DEF GrantInv

LEMMA SaveGrants == ASSUME TypeInv, GrantInv, SaveNext PROVE GrantInv' /\ GrantStep
<1> USE DEF TypeInv, TypeOK
<1>1. ASSUME NEW s \in Slots, NEW a \in Admins, NEW d \in Documents,
             NEW hold \in BOOLEAN, NEW until \in Until, StartSave(s, a, d, hold, until)
      PROVE  GrantInv' /\ GrantStep
  <2>1. policy' = policy /\ approval' = approval
    BY <1>1 DEF StartSave
  <2>2. PICK i \in IF policy[d].exists THEN Gate(a, d, "APPROVED") ELSE {Null} :
          req' = [req EXCEPT ![s] = [Idle EXCEPT !.kind = "save", !.doc = d, !.by = a,
                                       !.hold = hold, !.until = until, !.approval = i]]
    BY <1>1 DEF StartSave
  <2>3. /\ req'[s].doc = d /\ req'[s].by = a /\ req'[s].approval = i
        /\ \A t \in Slots \ {s} : req'[t] = req[t]
    BY <2>2 DEF Idle
  <2>4. \/ i = Null
        \/ Granted(i) /\ approval[i].requestedBy = a /\ approval[i].doc = d
    BY <2>2 DEF Gate, GrantInv, GrantsByOther
  <2>6. GrantInv'
    BY <2>1, <2>3, <2>4, RequestGrants
  <2> QED BY <2>1, <2>6 DEF GrantStep
<1>2. ASSUME NEW a \in Admins, NEW d \in Documents, RequestApproval(a, d)
      PROVE  GrantInv' /\ GrantStep
  <2>1. PICK i \in Approvals :
          /\ approval[i].status = "free"
          /\ approval' = [approval EXCEPT ![i] = [status |-> "PENDING", doc |-> d,
                                     requestedBy |-> a, approvedBy |-> Null]]
    BY <1>2 DEF RequestApproval
  <2>2. /\ approval'[i].status = "PENDING"
        /\ \A j \in Approvals \ {i} : approval'[j] = approval[j]
    BY <2>1
  <2>3. UNCHANGED <<policy, req>> /\ UNCHANGED workerVars
    BY <1>2 DEF RequestApproval
  <2>4. GrantInv'
    BY <2>1, <2>2, <2>3, RowGrants
  <2> QED BY <2>3, <2>4 DEF GrantStep
<1>3. ASSUME NEW a \in Admins, NEW i \in Approvals, NEW v \in {"APPROVED", "REJECTED"},
             DecideApproval(a, i, v)
      PROVE  GrantInv' /\ GrantStep
  <2>1. /\ approval[i].status = "PENDING" /\ approval[i].requestedBy # a
        /\ approval' = [approval EXCEPT ![i] = [approval[i] EXCEPT !.status = v,
                                                                   !.approvedBy = a]]
    BY <1>3 DEF DecideApproval, MayDecide
  <2>2. /\ approval'[i].status = v /\ approval'[i].approvedBy = a
        /\ approval'[i].requestedBy = approval[i].requestedBy
        /\ \A j \in Approvals \ {i} : approval'[j] = approval[j]
    BY <2>1 DEF ApprovalRows
  <2>3. UNCHANGED <<policy, req>> /\ UNCHANGED workerVars
    BY <1>3 DEF DecideApproval
  <2>4. approval'[i].status \in {"APPROVED", "EXECUTED"} => Granted(i)'
    BY <2>1, <2>2 DEF Granted
  <2>5. GrantInv'
    BY <2>1, <2>2, <2>3, <2>4, RowGrants
  <2> QED BY <2>3, <2>5 DEF GrantStep
<1>4. ASSUME NEW s \in Slots, WriteSave(s) PROVE GrantInv' /\ GrantStep
  <2>1. PICK d \in Documents : d = req[s].doc
    BY <1>4 DEF WriteSave, ReqShape
  <2>2. req[s].kind = "save" /\ approval' = approval 
    BY <1>4 DEF WriteSave
  <2>3. /\ \A t \in Slots \ {s} : req'[t] = req[t]
        /\ \/ req'[s] = Idle
           \/ req[s].approval # Null /\ req'[s] = [req[s] EXCEPT !.kind = "execute"]
    BY <1>4 DEF WriteSave
  <2>4. \/ policy' = policy
        \/ policy' = [policy EXCEPT ![d] = Upserted(policy[d], req[s])]
    BY <1>4, <2>1 DEF WriteSave
  <2>7. \/ req'[s].kind \notin {"save", "execute"}
        \/ /\ req[s].approval # Null /\ req'[s].approval = req[s].approval
           /\ req'[s].by = req[s].by /\ req'[s].doc = req[s].doc
    BY <2>3 DEF Idle, Requests
  <2>8. GrantInv'
    <3>1. req[s].approval # Null => /\ Granted(req[s].approval)
                                    /\ approval[req[s].approval].requestedBy = req[s].by
                                    /\ approval[req[s].approval].doc = req[s].doc
      BY <2>2 DEF GrantInv, SavesGranted
    <3> QED BY <2>2, <2>3, <2>7, <3>1, RequestGrants
  <2>9. GrantStep
    <3> SUFFICES ASSUME NEW e \in Documents, policy[e].hold, ~policy'[e].hold
                 PROVE  Releases(s, e)
      BY DEF GrantStep
    <3>1. e = d
      BY <2>4
    <3>2. \/ req[s].approval = Null
          \/ /\ approval[req[s].approval].doc = d
             /\ approval[req[s].approval].approvedBy \in Admins \ {req[s].by}
      BY <2>1, <2>2 DEF GrantInv, SavesGranted, Granted
    <3> QED BY <2>1, <2>2, <3>1, <3>2 DEF Releases
  <2> QED BY <2>8, <2>9
<1>5. ASSUME NEW s \in Slots, ExecuteApproval(s) PROVE GrantInv' /\ GrantStep
  <2>1. PICK i \in Approvals : i = req[s].approval
    BY <1>5 DEF ExecuteApproval, ReqShape
  <2>2. Granted(i)
    BY <1>5, <2>1, RetentionAssumption DEF ExecuteApproval, GrantInv, SavesGranted
  <2>3. /\ approval'[i].status = "EXECUTED" /\ approval'[i].doc = approval[i].doc
        /\ approval'[i].approvedBy = approval[i].approvedBy
        /\ approval'[i].requestedBy = approval[i].requestedBy
        /\ \A j \in Approvals \ {i} : approval'[j] = approval[j]
    BY <1>5, <2>1 DEF ExecuteApproval, ApprovalRows
  <2>4. \A j \in Approvals : /\ Granted(j) => Granted(j)'
                             /\ approval'[j].status \in {"APPROVED", "EXECUTED"} => Granted(j)'
                             /\ approval'[j].requestedBy = approval[j].requestedBy
                             /\ approval'[j].doc = approval[j].doc
    BY <2>2, <2>3 DEF Granted, GrantInv, GrantsByOther
  <2>5. /\ policy' = policy
        /\ req'[s].kind = "idle" /\ \A t \in Slots \ {s} : req'[t] = req[t]
    BY <1>5 DEF ExecuteApproval, Idle
  <2>7. GrantsByOther'
    BY <2>4 DEF GrantsByOther
  <2>8. SavesGranted'
    <3> SUFFICES ASSUME NEW t \in Slots, req'[t].kind \in {"save", "execute"}, req'[t].approval # Null
                 PROVE  /\ Granted(req[t].approval)'
                        /\ approval'[req'[t].approval].requestedBy = req'[t].by
                        /\ approval'[req'[t].approval].doc = req'[t].doc
      BY DEF SavesGranted, Granted
    <3>1. t # s /\ req'[t] = req[t] /\ req[t].approval \in Approvals
      BY <2>5 DEF Requests
    <3>2. /\ Granted(req[t].approval)
          /\ approval[req[t].approval].requestedBy = req[t].by
          /\ approval[req[t].approval].doc = req[t].doc
      BY <3>1 DEF GrantInv, SavesGranted
    <3> QED BY <2>4, <3>1, <3>2 DEF Granted
  <2> QED BY <2>5, <2>7, <2>8 DEF GrantInv, GrantStep
<1> QED BY <1>1, <1>2, <1>3, <1>4, <1>5 DEF SaveNext

LEMMA DecisionGrants == ASSUME TypeInv, GrantInv, DecisionNext PROVE GrantInv' /\ GrantStep
<1> USE DEF TypeInv, TypeOK
<1>1. ASSUME NEW s \in Slots, NEW a \in Admins, NEW d \in Documents,
             NEW x \in {"REQUEST", "APPROVE", "REJECT"}, StartDecision(s, a, d, x)
      PROVE  GrantInv' /\ GrantStep
  <2>1. /\ req'[s].kind = "decide" /\ \A t \in Slots \ {s} : req'[t] = req[t]
        /\ policy' = policy /\ approval' = approval
    BY <1>1 DEF StartDecision, Idle
  <2>3. GrantInv'
    BY <2>1, RequestGrants
  <2> QED BY <2>1, <2>3 DEF GrantStep
<1>2. ASSUME NEW s \in Slots, WriteDecision(s) PROVE GrantInv' /\ GrantStep
  <2>1. PICK d \in Documents : d = req[s].doc
    BY <1>2 DEF WriteDecision, ReqShape
  <2>2. /\ req'[s].kind = "idle" /\ \A t \in Slots \ {s} : req'[t] = req[t]
        /\ approval' = approval
    BY <1>2 DEF WriteDecision, Idle
  <2>3. \A e \in Documents : policy'[e] \in {policy[e], Decided(policy[e], req[s])}
    BY <1>2, <2>1 DEF WriteDecision
  <2>7. GrantInv'
    BY <2>2, RequestGrants
  <2>8. HoldsSame
    BY <2>3, DecidedHold DEF HoldsSame
  <2> QED BY <2>7, <2>8 DEF GrantStep, HoldsSame
<1> QED BY <1>1, <1>2 DEF DecisionNext

LEMMA DocumentGrants == ASSUME TypeInv, GrantInv, DocumentNext PROVE GrantInv' /\ GrantStep
<1> USE DEF TypeInv, TypeOK
<1>1. ASSUME NEW d \in Documents, RemoveByModerator(d) \/ RestoreFromTrash(d)
      PROVE  GrantInv' /\ GrantStep
  <2>1. policy' = policy /\ UNCHANGED apiVars
    BY <1>1 DEF RemoveByModerator, RestoreFromTrash
  <2> QED BY <2>1 DEF GrantInv, GrantsByOther, SavesGranted, Granted, GrantStep, apiVars
<1>2. ASSUME NEW s \in Slots, req'[s].kind \notin {"save", "execute"},
             \A t \in Slots \ {s} : req'[t] = req[t],
             \A d \in Documents : policy'[d] \in {policy[d], NoPolicy},
             approval' = approval
      PROVE  GrantInv' /\ GrantStep
  <2>1. ~NoPolicy.exists
    BY DEF NoPolicy
  <2>3. GrantStep
    BY <1>2, <2>1 DEF GrantStep
  <2> QED BY <1>2, <2>3, RequestGrants
<1>3. ASSUME NEW s \in Slots, NEW d \in Documents, StartRemove(s, d)
      PROVE  GrantInv' /\ GrantStep
  <2>1. req'[s].kind = "remove" /\ \A t \in Slots \ {s} : req'[t] = req[t]
    BY <1>3 DEF StartRemove, Idle
  <2> QED BY <1>2, <1>3, <2>1 DEF StartRemove
<1>4. ASSUME NEW s \in Slots, DeleteDocument(s) PROVE GrantInv' /\ GrantStep
  <2>1. req'[s].kind \in {"idle", "clean"} /\ \A t \in Slots \ {s} : req'[t] = req[t]
    BY <1>4 DEF DeleteDocument, Idle, Requests
  <2>2. \A d \in Documents : policy'[d] \in {policy[d], NoPolicy}
    BY <1>4 DEF DeleteDocument
  <2> QED BY <1>2, <1>4, <2>1, <2>2 DEF DeleteDocument
<1>5. ASSUME NEW s \in Slots, NEW failed \in SUBSET req[s].files, CleanObjects(s, failed)
      PROVE  GrantInv' /\ GrantStep
  <2>1. req'[s].kind = "idle" /\ \A t \in Slots \ {s} : req'[t] = req[t]
    BY <1>5 DEF CleanObjects, Idle
  <2> QED BY <1>2, <1>5, <2>1 DEF CleanObjects
<1>6. ASSUME NEW s \in Slots, NEW d \in Documents, NEW f \in Files, StartUpload(s, d, f)
      PROVE  GrantInv' /\ GrantStep
  <2>1. req'[s].kind = "upload" /\ \A t \in Slots \ {s} : req'[t] = req[t]
    BY <1>6 DEF StartUpload, Idle
  <2> QED BY <1>2, <1>6, <2>1 DEF StartUpload
<1>7. ASSUME NEW s \in Slots, CommitUpload(s) \/ RequestFails(s)
      PROVE  GrantInv' /\ GrantStep
  <2>1. req'[s].kind = "idle" /\ \A t \in Slots \ {s} : req'[t] = req[t]
    BY <1>7 DEF CommitUpload, RequestFails, Idle
  <2> QED BY <1>2, <1>7, <2>1 DEF CommitUpload, RequestFails
<1> QED BY <1>1, <1>3, <1>4, <1>5, <1>6, <1>7 DEF DocumentNext

LEMMA GrantsKept ==
  TypeInv /\ GrantInv /\ [Next]_vars => TypeInv' /\ GrantInv' /\ [GrantStep]_vars
<1> SUFFICES ASSUME TypeInv, GrantInv, [Next]_vars
             PROVE  TypeInv' /\ GrantInv' /\ [GrantStep]_vars
  OBVIOUS
<1>1. TypeInv'
  BY TypeStep
<1>2. CASE UNCHANGED vars
  <2>1. GrantInv'
    BY <1>2 DEF vars, GrantInv, GrantsByOther, SavesGranted, Granted
  <2> QED BY <1>1, <1>2, <2>1
<1>3. CASE Next
  BY <1>1, <1>3, SaveGrants, DecisionGrants, DocumentGrants, WorkerGrants DEF Next
<1> QED BY <1>2, <1>3

\* However requests overlap, a legal hold in force ends only with the document, with a
\* save for which another administrator granted an approval of this very document, or
\* with a first save, which found no policy when it was checked (saveRetention with
\* the gate of sensitive-approval.service.ts).
THEOREM HoldsTakeTwo == Spec => HoldReleasedByTwo
<1>1. Init => TypeInv /\ GrantInv
  BY InitTypes, GrantInit
<1> QED BY <1>1, GrantsKept, PTL DEF Spec, HoldReleasedByTwo, GrantStep
=============================================================================
