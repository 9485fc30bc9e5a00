---------------------------- MODULE AccessProofs ----------------------------
(***************************************************************************)
(* Proofs about the access to the portal: first a local account of the     *)
(* administration, for every number of administrators, passwords, sessions *)
(* and overlapping requests (AdminAccounts), then the categories of a      *)
(* space and who may read them, for every number of categories, groups and *)
(* overlapping requests (CategoryAccess).                                  *)
(***************************************************************************)
EXTENDS AdminAccounts, CategoryAccess, FiniteSetTheorems, WellFoundedInduction, TLAPS


(***************************************************************************)
(* The inductive invariant                                                 *)
(***************************************************************************)

Typed == Passwords \cup Admins \cup {None}
SessionType == [id : Ids \cup {None}, password : Typed, late : BOOLEAN]
ApprovalType == [status : {"none", "PENDING", "APPROVED", "REJECTED", "EXECUTED"},
                 by : Admins \cup {None}, approver : Admins \cup {None}]
ReqType == [step : Steps, id : Ids \cup {None}, valid : BOOLEAN, typed : Typed,
            failed : 0 .. MaxFailures - 1, mfa : BOOLEAN, secret : Secrets \cup {None},
            by : Admins \cup {None}]

Types ==
  /\ row \in [Ids -> RowType] /\ sessions \in [Tokens -> SessionType]
  /\ approval \in ApprovalType /\ req \in [Slots -> ReqType]
  /\ drawn \subseteq Secrets /\ proven \subseteq drawn
  /\ guesses \in 0 .. MaxFailures /\ raced \in BOOLEAN /\ blind \subseteq Ids

\* What a request carries from one statement to the next, when the secrets in P
\* are the proven ones.
Ready(r, P) ==
  /\ r.step \notin {"idle", "gate", "created"} => r.id \in Ids
  /\ r.step = "gate" => r.by \in Admins /\ r.typed \in Admins \ {r.by}
  /\ r.step = "confirm" => r.secret \in P
AllReady == \A s \in Slots : Ready(req[s], proven)

\* A session is one of an account that is there, and there is one account.
Rooted ==
  \A t \in Tokens : sessions[t] # NoSession => sessions[t].id \in Ids /\ There(sessions[t].id)
OneAccount == \A i, j \in Current : i = j

\* An approval is another's; secrets in use were drawn.
Approved ==
  approval.status = "APPROVED" => approval.approver \in Admins \ {approval.by}
SecretsDrawn == \A i \in Ids : row[i].secret \in drawn \cup {None}

\* Without a stale write, the count in the row is at least the failures there were.
Counting ==
  raced \/ (guesses < MaxFailures /\ \A i \in Current : guesses <= row[i].failed)

Inv ==
  /\ Types /\ AllReady /\ Rooted /\ OneAccount /\ Approved /\ SecretsDrawn /\ Counting
  /\ ChangesEndSessions /\ FactorProven /\ ApprovedByAnother

(***************************************************************************)
(* Steps of a request, and edits of the account's row                      *)
(***************************************************************************)

Ending == {"passwordSet", "disabled"}

LEMMA IdleIs ==
  /\ Idle \in ReqType /\ Idle.step = "idle" /\ \A P : Ready(Idle, P)
  /\ MaxFailures \in Nat /\ MaxFailures >= 1
BY AccountsAssumption DEF Idle, ReqType, Steps, Typed, Ready

LEMMA NoSessionIs == NoSession \in SessionType /\ NoSession.id = None /\ None \notin Ids
BY AccountsAssumption DEF NoSession, SessionType, Typed

LEMMA NoRowIs == NoRow \in RowType /\ NoRow.state = "none" /\ NoRow.secret = None
BY IdleIs DEF NoRow, RowType

\* A slot goes on with request r.
LEMMA Slot ==
  ASSUME Types, AllReady, NEW s \in Slots, NEW r \in ReqType, Goto(s, r),
         Ready(r, proven'), proven \subseteq proven'
  PROVE  /\ req' \in [Slots -> ReqType] /\ AllReady'
         /\ req'[s] = r /\ \A u \in Slots \ {s} : req'[u] = req[u]
         /\ r.step \in Ending => Deleting(r.id)'
         /\ req[s].step \notin Ending => \A i : Deleting(i) => Deleting(i)'
<1>1. req' \in [Slots -> ReqType] /\ req'[s] = r /\ \A u \in Slots \ {s} : req'[u] = req[u]
  BY DEF Types, Goto
<1>2. AllReady'
  BY <1>1 DEF AllReady, Ready
<1>3. r.step \in Ending => Deleting(r.id)'
  BY <1>1 DEF Ending, Deleting
<1>4. req[s].step \notin Ending => \A i : Deleting(i) => Deleting(i)'
  BY <1>1 DEF Ending, Deleting
<1> QED BY <1>1, <1>2, <1>3, <1>4

LEMMA SlotsKept ==
  ASSUME Types, AllReady, req' = req, proven' = proven
  PROVE  /\ req' \in [Slots -> ReqType] /\ AllReady'
         /\ \A i : Deleting(i) => Deleting(i)'
BY DEF Types, AllReady, Deleting

\* Neither the account nor its sessions change.
LEMMA RequestKept ==
  ASSUME Inv, UNCHANGED <<row, sessions, drawn, guesses, raced, blind>>,
         req' \in [Slots -> ReqType], AllReady', \A i : Deleting(i) => Deleting(i)',
         approval' \in ApprovalType, Approved',
         proven \subseteq proven', proven' \subseteq drawn
  PROVE  Inv'
<1>1. Types'
  BY DEF Inv, Types
<1>2. Current' = Current /\ \A i : There(i)' <=> There(i)
  BY DEF Current, There
<1>3. Rooted' /\ OneAccount' /\ SecretsDrawn' /\ Counting'
  BY <1>2 DEF Inv, Rooted, OneAccount, SecretsDrawn, Counting
<1>4. ChangesEndSessions'
  BY DEF Inv, ChangesEndSessions, NewPasswordEndsSessions, DisabledKeepsNoSession
<1>5. FactorProven' /\ ApprovedByAnother'
  BY <1>2 DEF Inv, FactorProven, ApprovedByAnother
<1> QED BY <1>1, <1>3, <1>4, <1>5 DEF Inv

\* The row of the account that is there becomes r.
LEMMA EditKept ==
  ASSUME Inv, NEW i \in Ids, There(i), NEW r \in RowType, row' = [row EXCEPT ![i] = r],
         r.state = "there", r.by = row[i].by, r.approver = row[i].approver,
         UNCHANGED <<sessions, approval, proven>>,
         req' \in [Slots -> ReqType], AllReady', \A j : Deleting(j) => Deleting(j)',
         drawn \subseteq drawn', drawn' \subseteq Secrets, r.secret \in drawn' \cup {None},
         r.password = row[i].password \/ Deleting(i)',
         (row[i].active => r.active) \/ Deleting(i)',
         r.mfa => r.secret \in proven \/ i \in blind',
         blind' \in SUBSET Ids,
         guesses' \in 0 .. MaxFailures, raced' \in BOOLEAN,
         raced' \/ (guesses' < MaxFailures /\ guesses' <= r.failed)
  PROVE  Inv'
<1>1. row' \in [Ids -> RowType] /\ row'[i] = r /\ \A j \in Ids \ {i} : row'[j] = row[j]
  BY DEF Inv, Types
<1>2. Types'
  BY <1>1 DEF Inv, Types
<1>3. \A j \in Ids : There(j)' <=> There(j)
  BY <1>1 DEF There
<1>4. Current = {i} /\ Current' = {i}
  BY <1>3 DEF Current, Inv, OneAccount
<1>5. Rooted' /\ OneAccount' /\ Approved'
  BY <1>3, <1>4 DEF Inv, Rooted, OneAccount, Approved
<1>6. SecretsDrawn'
  BY <1>1 DEF Inv, SecretsDrawn
<1>7. Counting'
  BY <1>1, <1>4 DEF Counting
<1>8. NewPasswordEndsSessions'
  BY <1>1 DEF Inv, Rooted, ChangesEndSessions, NewPasswordEndsSessions
<1>9. DisabledKeepsNoSession'
  BY <1>1 DEF Inv, Rooted, ChangesEndSessions, DisabledKeepsNoSession
<1>10. FactorProven'
  BY <1>1, <1>4 DEF FactorProven
<1>11. ApprovedByAnother'
  BY <1>1, <1>4 DEF Inv, ApprovedByAnother
<1> QED BY <1>2, <1>5, <1>6, <1>7, <1>8, <1>9, <1>10, <1>11 DEF Inv, ChangesEndSessions

LEMMA InitInv == Init => Inv
<1> SUFFICES ASSUME Init PROVE Inv
  OBVIOUS
<1>1. NoRow \in RowType /\ NoRow.state = "none" /\ NoRow.secret = None
  BY NoRowIs
<1>2. Types
  <2>1. row \in [Ids -> RowType] /\ sessions \in [Tokens -> SessionType]
          /\ req \in [Slots -> ReqType]
    BY <1>1, IdleIs, NoSessionIs DEF Init
  <2>2. approval \in ApprovalType
    BY DEF Init, NoApproval, ApprovalType
  <2>3. guesses \in 0 .. MaxFailures
    <3>1. guesses = 0
      BY DEF Init
    <3> QED BY <3>1, IdleIs
  <2>4. raced \in BOOLEAN
    BY DEF Init
  <2> QED BY <2>1, <2>2, <2>3, <2>4 DEF Init, Types
<1>3. Current = {}
  BY <1>1 DEF Init, Current, There
<1>4. AllReady /\ Rooted /\ OneAccount /\ Approved
  BY <1>3, IdleIs DEF Init, AllReady, Rooted, OneAccount, Approved, NoApproval
<1>5. SecretsDrawn /\ Counting
  BY <1>1, <1>3, IdleIs DEF Init, SecretsDrawn, Counting
<1>6. ChangesEndSessions /\ FactorProven /\ ApprovedByAnother
  BY <1>3 DEF Init, ChangesEndSessions, NewPasswordEndsSessions, DisabledKeepsNoSession,
              FactorProven, ApprovedByAnother
<1> QED BY <1>2, <1>4, <1>5, <1>6 DEF Inv

(***************************************************************************)
(* Creating the account                                                    *)
(***************************************************************************)

LEMMA ApproveKept ==
  ASSUME Inv, \/ \E s \in Slots, a \in Admins : Create(s, a)
              \/ \E a \in Admins, v \in {"APPROVED", "REJECTED"} : Decide(a, v)
              \/ \E s \in Slots : Execute(s)
  PROVE  Inv'
<1>1. Types /\ AllReady /\ Approved /\ approval \in ApprovalType
  BY DEF Inv, Types
<1>2. UNCHANGED <<row, sessions, drawn, proven, guesses, raced, blind>>
  BY DEF Create, Decide, Execute, history
<1>3. ASSUME NEW s \in Slots, NEW a \in Admins, Create(s, a) PROVE Inv'
  <2>1. req[s].step \notin Ending
    BY <1>3 DEF Create, At, Ending
  <2>2. CASE /\ approval.status = "APPROVED" /\ approval.by = a /\ approval' = approval
             /\ Goto(s, [Idle EXCEPT !.step = "gate", !.by = a, !.typed = approval.approver])
    <3> DEFINE r == [Idle EXCEPT !.step = "gate", !.by = a, !.typed = approval.approver]
    <3>1. approval.approver \in Admins \ {a}
      BY <1>1, <2>2 DEF Approved
    <3>2. r \in ReqType /\ r.step = "gate" /\ r.by = a /\ r.typed = approval.approver
      BY <3>1, IdleIs DEF Idle, ReqType, Steps, Typed
    <3>3. Goto(s, r)
      BY <2>2
    <3> HIDE DEF r
    <3>4. Ready(r, proven')
      BY <3>1, <3>2 DEF Ready
    <3>5. Approved'
      BY <1>1, <2>2 DEF Approved
    <3> QED BY <1>1, <1>2, <2>1, <2>2, <3>2, <3>3, <3>4, <3>5, Slot, RequestKept
              DEF Inv, Types
  <2>3. CASE approval' = [status |-> "PENDING", by |-> a, approver |-> None] /\ req' = req
    <3>1. approval' \in ApprovalType /\ approval'.status = "PENDING"
      BY <2>3 DEF ApprovalType
    <3>2. Approved'
      BY <3>1 DEF Approved
    <3> QED BY <1>1, <1>2, <2>3, <3>1, <3>2, SlotsKept, RequestKept DEF Inv, Types
  <2> QED BY <1>3, <2>2, <2>3 DEF Create
<1>4. ASSUME NEW a \in Admins, NEW v \in {"APPROVED", "REJECTED"}, Decide(a, v) PROVE Inv'
  <2>1. /\ approval' = [approval EXCEPT !.status = v, !.approver = a]
        /\ approval.by # a /\ req' = req
    BY <1>4 DEF Decide, Decidable
  <2>2. approval' \in ApprovalType /\ approval'.approver = a /\ approval'.by = approval.by
    BY <1>1, <2>1 DEF ApprovalType
  <2>3. Approved'
    BY <2>1, <2>2 DEF Approved
  <2> QED BY <1>1, <1>2, <2>1, <2>2, <2>3, SlotsKept, RequestKept DEF Inv, Types
<1>5. ASSUME NEW s \in Slots, Execute(s) PROVE Inv'
  <2>1. /\ approval' = [approval EXCEPT !.status = "EXECUTED"] /\ Goto(s, Idle)
        /\ req[s].step \notin Ending
    BY <1>5 DEF Execute, At, Ending
  <2>2. approval' \in ApprovalType /\ approval'.status = "EXECUTED"
    BY <1>1, <2>1 DEF ApprovalType
  <2>3. Approved'
    BY <2>2 DEF Approved
  <2> QED BY <1>1, <1>2, <2>1, <2>2, <2>3, IdleIs, Slot, RequestKept DEF Inv, Types
<1> QED BY <1>3, <1>4, <1>5

LEMMA InsertKept ==
  ASSUME Inv, NEW s \in Slots, InsertAccount(s)
  PROVE  Inv'
<1>1. Types /\ AllReady /\ Approved
  BY DEF Inv
<1>2. UNCHANGED <<sessions, approval, drawn, proven, blind>> /\ req[s].step = "gate"
  BY DEF InsertAccount, At
<1>3. Approved'
  BY <1>1, <1>2 DEF Approved
<1>4. CASE Goto(s, Idle) /\ UNCHANGED <<row, guesses, raced>>
  BY <1>1, <1>2, <1>3, <1>4, IdleIs, Slot, RequestKept DEF Inv, Types, Ending
<1>5. ASSUME Current = {}, NEW i \in Ids, NEW p \in Passwords,
             row' = [row EXCEPT ![i] =
               [NoRow EXCEPT !.state = "there", !.active = TRUE, !.inWindow = TRUE,
                             !.password = p, !.by = req[s].by, !.approver = req[s].typed]],
             Goto(s, [Idle EXCEPT !.step = "created"]), guesses' = 0, ~raced', raced' \in BOOLEAN
      PROVE  Inv'
  <2> DEFINE n == [NoRow EXCEPT !.state = "there", !.active = TRUE, !.inWindow = TRUE,
                                !.password = p, !.by = req[s].by, !.approver = req[s].typed]
  <2> DEFINE r == [Idle EXCEPT !.step = "created"]
  <2>1. req[s].by \in Admins /\ req[s].typed \in Admins \ {req[s].by}
    BY <1>1, <1>2 DEF AllReady, Ready
  <2>2. /\ n \in RowType /\ n.state = "there" /\ n.secret = None /\ ~n.mfa
        /\ n.failed = 0 /\ n.by = req[s].by /\ n.approver = req[s].typed
    <3>1. n \in RowType
      BY <2>1, NoRowIs DEF RowType
    <3>2. n.state = "there" /\ n.secret = None /\ n.failed = 0
            /\ n.by = req[s].by /\ n.approver = req[s].typed
      BY DEF NoRow
    <3>3. ~n.mfa
      BY DEF NoRow
    <3> QED BY <3>1, <3>2, <3>3
  <2>3. r \in ReqType /\ r.step = "created"
    BY IdleIs DEF Idle, ReqType, Steps
  <2>4. row' = [row EXCEPT ![i] = n] /\ Goto(s, r)
    BY <1>5
  <2> HIDE DEF n, r
  <2>5. req' \in [Slots -> ReqType] /\ AllReady'
    <3>1. Ready(r, proven')
      BY <2>3 DEF Ready
    <3> QED BY <1>1, <1>2, <2>3, <2>4, <3>1, Slot
  <2>6. row' \in [Ids -> RowType] /\ row'[i] = n /\ \A j \in Ids \ {i} : row'[j] = row[j]
    BY <1>1, <2>2, <2>4 DEF Types
  <2>7. Types'
    BY <1>1, <1>2, <1>5, <2>5, <2>6, IdleIs DEF Types
  <2>8. Current' = {i}
    BY <1>5, <2>2, <2>6 DEF Current, There
  <2>9. \A t \in Tokens : sessions[t] = NoSession
    BY <1>5 DEF Inv, Rooted, Current
  <2>10. Rooted' /\ OneAccount' /\ ChangesEndSessions'
    BY <1>2, <2>8, <2>9 DEF Rooted, OneAccount, ChangesEndSessions, NewPasswordEndsSessions,
                            DisabledKeepsNoSession
  <2>11. SecretsDrawn'
    BY <1>2, <2>2, <2>6 DEF Inv, SecretsDrawn
  <2>12. Counting'
    <3>1. guesses' = 0
      BY <1>5
    <3>2. guesses' < MaxFailures /\ guesses' <= row'[i].failed
      BY <2>2, <2>6, <3>1, IdleIs
    <3> QED BY <2>8, <3>2 DEF Counting
  <2>13. FactorProven'
    BY <2>2, <2>6, <2>8 DEF FactorProven
  <2>14. ApprovedByAnother'
    BY <2>1, <2>2, <2>6, <2>8 DEF ApprovedByAnother
  <2> QED BY <1>3, <2>5, <2>7, <2>10, <2>11, <2>12, <2>13, <2>14 DEF Inv
<1>6. raced' = FALSE => ~raced' /\ raced' \in BOOLEAN
  OBVIOUS
<1> QED BY <1>4, <1>5, <1>6 DEF InsertAccount

(***************************************************************************)
(* Logging in                                                              *)
(***************************************************************************)

LEMMA UsableIs ==
  ASSUME Inv, NEW t \in Tokens, Usable(t)
  PROVE  sessions[t].id \in Ids /\ There(sessions[t].id)
BY DEF Usable, Inv, Rooted

LEMMA ReadKept ==
  ASSUME Inv, NEW s \in Slots,
         \/ \E i \in Ids, p \in Passwords : ReadAccount(s, i, p)
         \/ \E t \in Tokens : CheckPassword(s, t) \/ CheckCode(s, t)
  PROVE  Inv'
<1>1. Types /\ AllReady /\ Approved
  BY DEF Inv
<1>2. UNCHANGED <<row, sessions, approval, drawn, guesses, raced, blind>>
        /\ req[s].step \notin Ending
  BY DEF ReadAccount, CheckPassword, CheckCode, history, At, Ending
<1>3. Approved' /\ approval' \in ApprovalType
  BY <1>1, <1>2 DEF Approved, Types
<1>4. ASSUME NEW r \in ReqType, Goto(s, r), Ready(r, proven'),
             proven \subseteq proven', proven' \subseteq drawn
      PROVE  Inv'
  BY <1>1, <1>2, <1>3, <1>4, Slot, RequestKept
<1>5. ASSUME NEW i \in Ids, NEW p \in Passwords, ReadAccount(s, i, p) PROVE Inv'
  <2> DEFINE r == [Idle EXCEPT !.step = "login", !.id = i, !.typed = p,
                               !.valid = Valid(row[i], p), !.failed = row[i].failed,
                               !.mfa = row[i].mfa]
  <2>1. Goto(s, r) /\ proven' = proven
    BY <1>5 DEF ReadAccount, history
  <2>2. Valid(row[i], p) \in BOOLEAN
    BY DEF Valid
  <2>3. r \in ReqType /\ r.step = "login" /\ r.id = i
    <3>1. row[i].failed \in 0 .. MaxFailures - 1 /\ row[i].mfa \in BOOLEAN
      BY <1>1 DEF Types, RowType
    <3> QED BY <2>2, <3>1, IdleIs DEF Idle, ReqType, Steps, Typed
  <2> HIDE DEF r
  <2>4. Ready(r, proven')
    BY <2>3 DEF Ready
  <2> QED BY <1>1, <1>4, <2>1, <2>3, <2>4 DEF Types
<1>6. ASSUME NEW t \in Tokens, CheckPassword(s, t) PROVE Inv'
  <2> DEFINE r == [Idle EXCEPT !.step = "password", !.id = sessions[t].id]
  <2>1. Goto(s, r) /\ proven' = proven /\ sessions[t].id \in Ids
    BY <1>6, UsableIs DEF CheckPassword, history
  <2>2. r \in ReqType /\ r.step = "password" /\ r.id = sessions[t].id
    BY <2>1, IdleIs DEF Idle, ReqType, Steps
  <2> HIDE DEF r
  <2>3. Ready(r, proven')
    BY <2>1, <2>2 DEF Ready
  <2> QED BY <1>1, <1>4, <2>1, <2>2, <2>3 DEF Types
<1>7. ASSUME NEW t \in Tokens, CheckCode(s, t) PROVE Inv'
  <2> DEFINE i == sessions[t].id
  <2> DEFINE r == [Idle EXCEPT !.step = "confirm", !.id = i, !.secret = row[i].secret]
  <2>1. /\ Goto(s, r) /\ i \in Ids
        /\ row[i].secret # None /\ proven' = proven \cup {row[i].secret}
    BY <1>7, UsableIs DEF CheckCode
  <2> HIDE DEF i
  <2>2. row[i].secret \in drawn /\ row[i].secret \in Secrets
    BY <1>1, <2>1 DEF Inv, SecretsDrawn, Types
  <2>3. r \in ReqType /\ r.step = "confirm" /\ r.id = i /\ r.secret = row[i].secret
    BY <2>1, <2>2, IdleIs DEF Idle, ReqType, Steps
  <2> HIDE DEF r
  <2>4. Ready(r, proven')
    BY <2>1, <2>3 DEF Ready
  <2>5. proven \subseteq proven' /\ proven' \subseteq drawn
    BY <1>1, <2>1, <2>2 DEF Types
  <2> QED BY <1>4, <2>1, <2>3, <2>4, <2>5, Zenon
<1> QED BY <1>5, <1>6, <1>7

LEMMA FailureKept ==
  ASSUME Inv, NEW s \in Slots, CountFailure(s)
  PROVE  Inv'
<1> DEFINE i == req[s].id
<1>1. Types /\ AllReady /\ Approved /\ req[s] \in ReqType
  BY DEF Inv, Types
<1>2. UNCHANGED <<sessions, approval, drawn, proven, blind>> /\ req[s].step = "login"
        /\ Goto(s, Idle)
  BY DEF CountFailure, At
<1>3. i \in Ids
  BY <1>1, <1>2 DEF AllReady, Ready
<1>4. /\ req' \in [Slots -> ReqType] /\ AllReady'
      /\ \A j : Deleting(j) => Deleting(j)'
  BY <1>1, <1>2, IdleIs, Slot DEF Ending
<1>5. CASE ~There(i)
  <2>1. UNCHANGED <<row, guesses, raced>>
    BY <1>5 DEF CountFailure
  <2>2. Approved' /\ approval' \in ApprovalType
    BY <1>1, <1>2 DEF Approved, Types
  <2> QED BY <1>1, <1>2, <1>4, <2>1, <2>2, RequestKept DEF Types
<1>6. CASE There(i)
  <2> DEFINE c == IF Locks(req[s]) THEN 0 ELSE NewCount(req[s])
  <2> DEFINE r == [row[i] EXCEPT !.failed = c, !.locked = Locks(req[s])]
  <2>1. row' = [row EXCEPT ![i] = r]
    BY <1>6 DEF CountFailure
  <2>2. /\ raced' = (raced \/ row[i].failed # req[s].failed \/ row[i].locked)
        /\ guesses' = IF Locks(req[s]) \/ raced' \/ guesses = MaxFailures THEN 0
                      ELSE guesses + 1
    BY <1>6 DEF CountFailure
  <2>3. /\ row[i] \in RowType /\ row[i].state = "there"
        /\ req[s].failed \in Nat /\ row[i].failed \in Nat /\ guesses \in 0 .. MaxFailures
    BY <1>1, <1>3, <1>6, IdleIs DEF Types, RowType, ReqType, There
  <2>4. c \in 0 .. MaxFailures - 1
    BY <2>3, IdleIs DEF Locks, NewCount
  <2>5. Locks(req[s]) \in BOOLEAN
    BY DEF Locks
  <2>6. raced' \in BOOLEAN
    BY <2>2
  <2>7. guesses' \in 0 .. MaxFailures
    BY <2>2, <2>3, IdleIs
  <2>8. raced' \/ (guesses' < MaxFailures /\ guesses' <= c)
    <3> SUFFICES ASSUME ~raced' PROVE guesses' < MaxFailures /\ guesses' <= c
      OBVIOUS
    <3>1. ~raced /\ row[i].failed = req[s].failed
      BY <2>2
    <3>2. guesses < MaxFailures /\ guesses <= row[i].failed
      BY <1>3, <1>6, <3>1 DEF Inv, Counting, Current
    <3>3. CASE Locks(req[s])
      BY <2>2, <3>3, IdleIs
    <3>4. CASE ~Locks(req[s])
      <4>1. guesses' = guesses + 1 /\ c = req[s].failed + 1
        BY <2>2, <2>3, <3>2, <3>4, IdleIs DEF NewCount
      <4>2. c < MaxFailures
        BY <2>4, IdleIs
      <4> QED BY <2>3, <3>1, <3>2, <4>1, <4>2, IdleIs
    <3> QED BY <3>3, <3>4
  <2> HIDE DEF c
  <2>9. /\ r \in RowType /\ r.state = row[i].state /\ r.by = row[i].by
        /\ r.approver = row[i].approver /\ r.failed = c /\ r.secret = row[i].secret
        /\ r.password = row[i].password /\ r.active = row[i].active /\ r.mfa = row[i].mfa
    BY <2>3, <2>4, <2>5 DEF RowType
  <2> HIDE DEF r
  <2>10. r.secret \in drawn' \cup {None}
    BY <1>2, <1>3, <2>9 DEF Inv, SecretsDrawn
  <2>11. r.mfa => r.secret \in proven \/ i \in blind'
    BY <1>2, <1>3, <1>6, <2>9 DEF Inv, FactorProven, Current
  <2>12. blind' \in SUBSET Ids /\ drawn' \subseteq Secrets
    BY <1>1, <1>2 DEF Types
  <2>13. raced' \/ (guesses' < MaxFailures /\ guesses' <= r.failed)
    BY <2>8, <2>9
  <2> HIDE DEF i
  <2> QED BY <1>2, <1>3, <1>4, <1>6, <2>1, <2>3, <2>6, <2>7, <2>9, <2>10, <2>11, <2>12,
             <2>13, EditKept
<1> QED BY <1>5, <1>6

\* What every edit of the account by one statement leaves as it is.
LEMMA EditFacts ==
  ASSUME Inv, NEW i \in Ids, There(i)
  PROVE  /\ row[i] \in RowType /\ row[i].state = "there" /\ row[i].failed \in Nat
         /\ row[i].secret \in drawn \cup {None}
         /\ row[i].mfa => row[i].secret \in proven \/ i \in blind
         /\ guesses \in 0 .. MaxFailures /\ raced \in BOOLEAN /\ blind \in SUBSET Ids
         /\ raced \/ (guesses < MaxFailures /\ guesses <= row[i].failed)
         /\ drawn \subseteq Secrets
<1>1. row[i] \in RowType /\ row[i].state = "there"
  BY DEF Inv, Types, There
<1>2. row[i].failed \in Nat
  BY <1>1, IdleIs DEF RowType
<1>3. row[i].secret \in drawn \cup {None}
  BY DEF Inv, SecretsDrawn
<1>4. row[i].mfa => row[i].secret \in proven \/ i \in blind
  BY DEF Inv, FactorProven, Current
<1>5. raced \/ (guesses < MaxFailures /\ guesses <= row[i].failed)
  BY DEF Inv, Counting, Current
<1> QED BY <1>1, <1>2, <1>3, <1>4, <1>5 DEF Inv, Types

LEMMA ClearKept ==
  ASSUME Inv, NEW s \in Slots, NEW code \in BOOLEAN, ClearFailures(s, code)
  PROVE  Inv'
<1>1. Types /\ AllReady /\ Approved /\ req[s] \in ReqType
  BY DEF Inv, Types
<1>2. UNCHANGED <<sessions, approval, drawn, proven, blind>> /\ req[s].step = "login"
  BY DEF ClearFailures, At
<1>3. PICK i \in Ids : i = req[s].id
  BY <1>1, <1>2 DEF AllReady, Ready
<1>4. CASE Goto(s, Idle) /\ UNCHANGED <<row, guesses, raced>>
  <2>1. Approved' /\ approval' \in ApprovalType
    BY <1>1, <1>2 DEF Approved, Types
  <2> QED BY <1>1, <1>2, <1>4, <2>1, IdleIs, Slot, RequestKept DEF Ending, Types
<1>5. CASE There(i) /\ Goto(s, [req[s] EXCEPT !.step = "loginOk"])
           /\ row' = [row EXCEPT ![i].failed = 0, ![i].locked = FALSE]
           /\ guesses' = 0 /\ raced' = (raced \/ row[i].locked)
  <2> DEFINE q == [req[s] EXCEPT !.step = "loginOk"]
  <2> DEFINE r == [row[i] EXCEPT !.failed = 0, !.locked = FALSE]
  <2>1. row' = [row EXCEPT ![i] = r] /\ Goto(s, q)
    BY <1>5
  <2>2. q \in ReqType /\ q.step = "loginOk" /\ q.id = i
    BY <1>1, <1>3 DEF ReqType, Steps
  <2>3. /\ row[i] \in RowType /\ row[i].state = "there"
        /\ row[i].secret \in drawn \cup {None}
        /\ row[i].mfa => row[i].secret \in proven \/ i \in blind
        /\ blind \in SUBSET Ids /\ drawn \subseteq Secrets
    BY <1>3, <1>5, EditFacts
  <2>4. /\ r \in RowType /\ r.state = row[i].state /\ r.by = row[i].by
        /\ r.approver = row[i].approver /\ r.failed = 0 /\ r.secret = row[i].secret
        /\ r.password = row[i].password /\ r.active = row[i].active /\ r.mfa = row[i].mfa
    <3>0. 0 \in 0 .. MaxFailures - 1
      BY IdleIs
    <3>1. r \in RowType
      BY <2>3, <3>0 DEF RowType
    <3> QED BY <2>3, <3>1 DEF RowType
  <2> HIDE DEF q, r
  <2>5. Ready(q, proven')
    BY <1>3, <2>2 DEF Ready
  <2>6. /\ req' \in [Slots -> ReqType] /\ AllReady'
        /\ \A j : Deleting(j) => Deleting(j)'
    BY <1>1, <1>2, <2>1, <2>2, <2>5, Slot DEF Ending
  <2>7. raced' \in BOOLEAN
    BY <1>5
  <2>8. guesses' \in 0 .. MaxFailures /\ guesses' < MaxFailures /\ guesses' <= r.failed
    <3>1. guesses' = 0
      BY <1>5
    <3> QED BY <2>4, <3>1, IdleIs
  <2>9. /\ r.secret \in drawn' \cup {None} /\ drawn \subseteq drawn' /\ drawn' \subseteq Secrets
        /\ blind' \in SUBSET Ids
        /\ r.mfa => r.secret \in proven \/ i \in blind'
    BY <1>2, <2>3, <2>4
  <2>10. r.state = "there" /\ (row[i].active => r.active)
    BY <2>3, <2>4
  <2> QED BY <1>2, <1>5, <2>1, <2>4, <2>6, <2>7, <2>8, <2>9, <2>10, EditKept
<1> QED BY <1>3, <1>4, <1>5 DEF ClearFailures

(***************************************************************************)
(* Sessions                                                                *)
(***************************************************************************)

\* A session that is new is one of the account as it is, or marked as late; one
\* that stays keeps the request that will end it.
LEMMA SessionsKept ==
  ASSUME Inv, UNCHANGED <<row, approval, drawn, proven, guesses, raced, blind>>,
         req' \in [Slots -> ReqType], AllReady', sessions' \in [Tokens -> SessionType],
         \A t \in Tokens :
           \/ sessions'[t] = NoSession
           \/ /\ sessions'[t] = sessions[t]
              /\ Deleting(sessions[t].id) => Deleting(sessions[t].id)'
           \/ /\ sessions'[t].id \in Ids /\ There(sessions'[t].id)
              /\ \/ sessions'[t].late
                 \/ /\ row[sessions'[t].id].active
                    /\ row[sessions'[t].id].password = sessions'[t].password
  PROVE  Inv'
<1>1. Types'
  BY DEF Inv, Types
<1>2. Current' = Current /\ \A i : There(i)' <=> There(i)
  BY DEF Current, There
<1>3. OneAccount' /\ Approved' /\ SecretsDrawn' /\ Counting'
  BY <1>2 DEF Inv, OneAccount, Approved, SecretsDrawn, Counting
<1>4. FactorProven' /\ ApprovedByAnother'
  BY <1>2 DEF Inv, FactorProven, ApprovedByAnother
<1>5. Rooted'
  BY <1>2 DEF Inv, Rooted
<1>6. NewPasswordEndsSessions'
  BY DEF Inv, ChangesEndSessions, NewPasswordEndsSessions
<1>7. DisabledKeepsNoSession'
  BY DEF Inv, ChangesEndSessions, DisabledKeepsNoSession
<1> QED BY <1>1, <1>3, <1>4, <1>5, <1>6, <1>7 DEF Inv, ChangesEndSessions

LEMMA CreateSessionKept ==
  ASSUME Inv, NEW s \in Slots, CreateSession(s)
  PROVE  Inv'
<1> DEFINE i == req[s].id
<1>1. Types /\ AllReady /\ req[s] \in ReqType /\ sessions \in [Tokens -> SessionType]
  BY DEF Inv, Types
<1>2. UNCHANGED <<row, approval, drawn, proven, guesses, raced, blind>> /\ Goto(s, Idle)
        /\ req[s].step = "loginOk"
  BY DEF CreateSession, At, history
<1>3. i \in Ids
  BY <1>1, <1>2 DEF AllReady, Ready
<1>4. /\ req' \in [Slots -> ReqType] /\ AllReady'
      /\ \A j : Deleting(j) => Deleting(j)'
  BY <1>1, <1>2, IdleIs, Slot DEF Ending
<1>5. CASE sessions' = sessions
  BY <1>1, <1>2, <1>4, <1>5, SessionsKept
<1>6. ASSUME There(i), NEW t \in Tokens,
             sessions' = [sessions EXCEPT ![t] =
               [id |-> i, password |-> req[s].typed,
                late |-> ~row[i].active \/ row[i].password # req[s].typed]]
      PROVE  Inv'
  <2> DEFINE x == [id |-> i, password |-> req[s].typed,
                   late |-> ~row[i].active \/ row[i].password # req[s].typed]
  <2>1. (~row[i].active \/ row[i].password # req[s].typed) \in BOOLEAN
    OBVIOUS
  <2>2. req[s].typed \in Typed
    BY <1>1 DEF ReqType
  <2>3. x \in SessionType
    BY <1>3, <2>1, <2>2 DEF SessionType
  <2>4. x.id = i /\ (x.late \/ (row[i].active /\ row[i].password = x.password))
    OBVIOUS
  <2>5. sessions' = [sessions EXCEPT ![t] = x]
    BY <1>6
  <2> HIDE DEF x
  <2>6. /\ sessions' \in [Tokens -> SessionType] /\ sessions'[t] = x
        /\ \A u \in Tokens \ {t} : sessions'[u] = sessions[u]
    BY <1>1, <2>3, <2>5
  <2> HIDE DEF i
  <2> QED BY <1>2, <1>3, <1>4, <1>6, <2>4, <2>6, SessionsKept
<1> QED BY <1>5, <1>6 DEF CreateSession

LEMMA EndKept ==
  ASSUME Inv, (\E t \in Tokens : EndSession(t)) \/ \E s \in Slots : DeleteSessions(s)
  PROVE  Inv'
<1>1. Types /\ AllReady /\ req \in [Slots -> ReqType] /\ sessions \in [Tokens -> SessionType]
  BY DEF Inv, Types
<1>2. UNCHANGED <<row, approval, drawn, proven, guesses, raced, blind>>
  BY DEF EndSession, DeleteSessions, history
<1>3. ASSUME NEW T, Drop(T)
      PROVE  /\ sessions' \in [Tokens -> SessionType]
             /\ \A t \in Tokens : sessions'[t] = IF t \in T THEN NoSession ELSE sessions[t]
  BY <1>1, <1>3, NoSessionIs DEF Drop
<1>4. ASSUME NEW t \in Tokens, EndSession(t) PROVE Inv'
  <2>1. Drop({t}) /\ req' = req
    BY <1>4 DEF EndSession
  <2>2. /\ req' \in [Slots -> ReqType] /\ AllReady'
        /\ \A i : Deleting(i) => Deleting(i)'
    BY <1>1, <1>2, <2>1, SlotsKept
  <2> QED BY <1>2, <1>3, <2>1, <2>2, SessionsKept
<1>5. ASSUME NEW s \in Slots, DeleteSessions(s) PROVE Inv'
  <2>1. Drop(Of(req[s].id)) /\ Goto(s, Idle)
    BY <1>5 DEF DeleteSessions
  <2>2. /\ req' \in [Slots -> ReqType] /\ AllReady'
        /\ \A u \in Slots \ {s} : req'[u] = req[u]
    BY <1>1, <1>2, <2>1, IdleIs, Slot
  <2>3. \A i : i # req[s].id => (Deleting(i) => Deleting(i)')
    BY <2>2 DEF Deleting
  <2>4. \A t \in Tokens : sessions'[t] = NoSession
                            \/ (sessions'[t] = sessions[t] /\ sessions[t].id # req[s].id)
    BY <1>3, <2>1 DEF Of
  <2>5. sessions' \in [Tokens -> SessionType]
    BY <1>3, <2>1
  <2> QED BY <1>2, <2>2, <2>3, <2>4, <2>5, SessionsKept
<1> QED BY <1>4, <1>5

(***************************************************************************)
(* Passwords, second factors, disabling, removal, time                     *)
(***************************************************************************)

\* A statement that edits one row and leaves the count of failures alone.
LEMMA OneEdit ==
  ASSUME Inv, NEW i \in Ids, There(i), NEW r \in RowType, row' = [row EXCEPT ![i] = r],
         r.state = row[i].state, r.by = row[i].by, r.approver = row[i].approver,
         r.failed = row[i].failed,
         UNCHANGED <<sessions, approval, proven, guesses, raced>>,
         req' \in [Slots -> ReqType], AllReady', \A j : Deleting(j) => Deleting(j)',
         drawn \subseteq drawn', drawn' \subseteq Secrets, r.secret \in drawn' \cup {None},
         r.password = row[i].password \/ Deleting(i)',
         (row[i].active => r.active) \/ Deleting(i)',
         r.mfa => r.secret \in proven \/ i \in blind',
         blind' \in SUBSET Ids
  PROVE  Inv'
<1>1. /\ row[i].state = "there" /\ guesses' \in 0 .. MaxFailures
      /\ raced' \/ (guesses' < MaxFailures /\ guesses' <= r.failed)
  BY EditFacts
<1>2. raced' \in BOOLEAN
  BY EditFacts
<1> QED BY <1>1, <1>2, EditKept

LEMMA PasswordKept ==
  ASSUME Inv, NEW s \in Slots, NEW p \in Passwords, WritePassword(s, p)
  PROVE  Inv'
<1>1. Types /\ AllReady /\ Approved
  BY DEF Inv
<1>2. UNCHANGED <<sessions, approval, drawn, proven, guesses, raced, blind>>
        /\ req[s].step = "password"
  BY DEF WritePassword, At, history
<1>3. PICK i \in Ids : i = req[s].id
  BY <1>1, <1>2 DEF AllReady, Ready
<1>4. CASE Goto(s, Idle) /\ UNCHANGED row
  <2>1. Approved' /\ approval' \in ApprovalType
    BY <1>1, <1>2 DEF Approved, Types
  <2> QED BY <1>1, <1>2, <1>4, <2>1, IdleIs, Slot, RequestKept DEF Ending, Types
<1>5. CASE There(i) /\ row' = [row EXCEPT ![i].password = p] /\ Goto(s, AfterPassword(s))
  <2> DEFINE q == AfterPassword(s)
  <2> DEFINE r == [row[i] EXCEPT !.password = p]
  <2>1. row' = [row EXCEPT ![i] = r] /\ Goto(s, q)
    BY <1>5
  <2>2. q \in ReqType /\ q.step = "passwordSet" /\ q.id = i
    BY <1>3, IdleIs DEF AfterPassword, Idle, ReqType, Steps
  <2>3. /\ row[i] \in RowType /\ row[i].secret \in drawn \cup {None}
        /\ row[i].mfa => row[i].secret \in proven \/ i \in blind
        /\ blind \in SUBSET Ids /\ drawn \subseteq Secrets
    BY <1>3, <1>5, EditFacts
  <2>4. /\ r \in RowType /\ r.state = row[i].state /\ r.by = row[i].by
        /\ r.approver = row[i].approver /\ r.failed = row[i].failed
        /\ r.secret = row[i].secret /\ r.active = row[i].active /\ r.mfa = row[i].mfa
    BY <2>3 DEF RowType
  <2> HIDE DEF q, r
  <2>5. Ready(q, proven')
    BY <1>3, <2>2 DEF Ready
  <2>6. /\ req' \in [Slots -> ReqType] /\ AllReady' /\ Deleting(i)'
        /\ \A j : Deleting(j) => Deleting(j)'
    BY <1>1, <1>2, <2>1, <2>2, <2>5, Slot DEF Ending
  <2>7. /\ r.secret \in drawn' \cup {None} /\ drawn \subseteq drawn' /\ drawn' \subseteq Secrets
        /\ blind' \in SUBSET Ids
        /\ r.mfa => r.secret \in proven \/ i \in blind'
    BY <1>2, <2>3, <2>4
  <2>8. /\ r.password = row[i].password \/ Deleting(i)'
        /\ (row[i].active => r.active) \/ Deleting(i)'
    BY <2>6
  <2> QED BY <1>2, <1>5, <2>1, <2>4, <2>6, <2>7, <2>8, OneEdit
<1> QED BY <1>3, <1>4, <1>5 DEF WritePassword

LEMMA ActiveKept ==
  ASSUME Inv, NEW s \in Slots, NEW i \in Ids, NEW v \in BOOLEAN, SetActive(s, i, v)
  PROVE  Inv'
<1> DEFINE q == IF v THEN Idle ELSE AfterDisable(i)
<1> DEFINE r == [row[i] EXCEPT !.active = v]
<1>1. Types /\ AllReady
  BY DEF Inv
<1>2. /\ UNCHANGED <<sessions, approval, drawn, proven, guesses, raced, blind>>
      /\ req[s].step = "idle" /\ There(i) /\ Goto(s, q) /\ row' = [row EXCEPT ![i] = r]
  BY DEF SetActive, At, history
<1>3. AfterDisable(i) \in ReqType /\ AfterDisable(i).step = "disabled" /\ AfterDisable(i).id = i
  BY IdleIs DEF AfterDisable, Idle, ReqType, Steps
<1>4. q \in ReqType /\ Ready(q, proven') /\ (~v => q.step \in Ending /\ q.id = i)
  BY <1>3, IdleIs DEF Ready, Ending
<1>5. /\ row[i] \in RowType /\ row[i].secret \in drawn \cup {None}
      /\ row[i].mfa => row[i].secret \in proven \/ i \in blind
      /\ blind \in SUBSET Ids /\ drawn \subseteq Secrets
  BY <1>2, EditFacts
<1>6. /\ r \in RowType /\ r.state = row[i].state /\ r.by = row[i].by
      /\ r.approver = row[i].approver /\ r.failed = row[i].failed
      /\ r.secret = row[i].secret /\ r.password = row[i].password /\ r.mfa = row[i].mfa
  BY <1>5 DEF RowType
<1>7. r.active = v
  BY <1>5 DEF RowType
<1> HIDE DEF q, r
<1>8. /\ req' \in [Slots -> ReqType] /\ AllReady' /\ (~v => Deleting(i)')
      /\ \A j : Deleting(j) => Deleting(j)'
  BY <1>1, <1>2, <1>4, Slot DEF Ending
<1>9. (row[i].active => r.active) \/ Deleting(i)'
  BY <1>7, <1>8
<1> QED BY <1>2, <1>5, <1>6, <1>8, <1>9, OneEdit

LEMMA FactorKept ==
  ASSUME Inv, NEW t \in Tokens, SetupMfa(t) \/ DisableMfa(t)
  PROVE  Inv'
<1> DEFINE i == sessions[t].id
<1>1. Types /\ AllReady
  BY DEF Inv
<1>2. UNCHANGED <<sessions, approval, req, proven, guesses, raced, blind>>
  BY DEF SetupMfa, DisableMfa, history
<1>3. i \in Ids /\ There(i)
  BY UsableIs DEF SetupMfa, DisableMfa
<1>4. /\ req' \in [Slots -> ReqType] /\ AllReady'
      /\ \A j : Deleting(j) => Deleting(j)'
  BY <1>1, <1>2, SlotsKept
<1>5. row[i] \in RowType /\ blind \in SUBSET Ids /\ drawn \subseteq Secrets
  BY <1>3, EditFacts
<1>6. ASSUME NEW k \in Secrets \cup {None}, row' = [row EXCEPT ![i] = [row[i] EXCEPT !.secret = k, !.mfa = FALSE]],
             k \in drawn' \cup {None}, drawn \subseteq drawn', drawn' \subseteq Secrets
      PROVE  Inv'
  <2> DEFINE r == [row[i] EXCEPT !.secret = k, !.mfa = FALSE]
  <2>1. r \in RowType
    BY <1>5 DEF RowType
  <2>2. /\ r.state = row[i].state /\ r.by = row[i].by
        /\ r.approver = row[i].approver /\ r.failed = row[i].failed
        /\ r.secret = k /\ r.password = row[i].password /\ r.active = row[i].active
    BY <1>5 DEF RowType
  <2>3. ~r.mfa
    BY <1>5 DEF RowType
  <2>4. row' = [row EXCEPT ![i] = r]
    BY <1>6
  <2> HIDE DEF i, r
  <2> QED BY <1>2, <1>3, <1>4, <1>5, <1>6, <2>1, <2>2, <2>3, <2>4, OneEdit
<1>7. CASE SetupMfa(t)
  <2>1. PICK k \in Secrets \ drawn : drawn' = drawn \cup {k}
                                      /\ row' = [row EXCEPT ![i] = SetupRow(@, k)]
    BY <1>7 DEF SetupMfa
  <2>2. row' = [row EXCEPT ![i] = [row[i] EXCEPT !.secret = k, !.mfa = FALSE]]
    BY <1>3, <2>1 DEF SetupRow
  <2> HIDE DEF i
  <2> QED BY <1>5, <1>6, <2>1, <2>2
<1>8. CASE DisableMfa(t)
  <2>1. drawn' = drawn
          /\ row' = [row EXCEPT ![i] = [row[i] EXCEPT !.secret = None, !.mfa = FALSE]]
    BY <1>8 DEF DisableMfa
  <2> HIDE DEF i
  <2> QED BY <1>5, <1>6, <2>1
<1> QED BY <1>7, <1>8

LEMMA EnableKept ==
  ASSUME Inv, NEW s \in Slots, EnableMfa(s)
  PROVE  Inv'
<1> DEFINE i == req[s].id
<1>1. Types /\ AllReady /\ Approved
  BY DEF Inv
<1>2. UNCHANGED <<sessions, approval, drawn, proven, guesses, raced>> /\ Goto(s, Idle)
        /\ req[s].step = "confirm"
  BY DEF EnableMfa, At
<1>3. i \in Ids /\ req[s].secret \in proven
  BY <1>1, <1>2 DEF AllReady, Ready
<1>4. /\ req' \in [Slots -> ReqType] /\ AllReady'
      /\ \A j : Deleting(j) => Deleting(j)'
  BY <1>1, <1>2, IdleIs, Slot DEF Ending
<1>5. CASE ~There(i)
  <2>1. Approved' /\ approval' \in ApprovalType /\ UNCHANGED <<row, blind>>
    BY <1>1, <1>2, <1>5 DEF Approved, Types, EnableMfa
  <2> QED BY <1>1, <1>2, <1>4, <2>1, RequestKept DEF Types
<1>6. CASE There(i)
  <2> DEFINE r == [row[i] EXCEPT !.mfa = TRUE]
  <2>1. /\ row' = [row EXCEPT ![i] = r]
        /\ blind' = IF row[i].secret = req[s].secret THEN blind \ {i} ELSE blind \cup {i}
    BY <1>6 DEF EnableMfa
  <2>2. /\ row[i] \in RowType /\ row[i].secret \in drawn \cup {None}
        /\ blind \in SUBSET Ids /\ drawn \subseteq Secrets
    BY <1>3, <1>6, EditFacts
  <2>3. r \in RowType
    BY <2>2 DEF RowType
  <2>4. /\ r.state = row[i].state /\ r.by = row[i].by
        /\ r.approver = row[i].approver /\ r.failed = row[i].failed
        /\ r.secret = row[i].secret /\ r.password = row[i].password
        /\ r.active = row[i].active
    BY <2>2 DEF RowType
  <2> HIDE DEF r
  <2>5. blind' \in SUBSET Ids /\ (r.secret \in proven \/ i \in blind')
    BY <1>3, <2>1, <2>2, <2>4
  <2> HIDE DEF i
  <2> QED BY <1>2, <1>3, <1>4, <1>6, <2>1, <2>2, <2>3, <2>4, <2>5, OneEdit
<1> QED BY <1>5, <1>6

LEMMA TimeKept ==
  ASSUME Inv, NEW i \in Ids, TimePasses(i)
  PROVE  Inv'
<1>1. Types /\ AllReady /\ There(i)
  BY DEF Inv, TimePasses
<1>2. UNCHANGED <<sessions, approval, req, drawn, proven, guesses, raced, blind>>
  BY DEF TimePasses, history
<1>3. /\ req' \in [Slots -> ReqType] /\ AllReady'
      /\ \A j : Deleting(j) => Deleting(j)'
  BY <1>1, <1>2, SlotsKept
<1>4. /\ row[i] \in RowType /\ row[i].secret \in drawn \cup {None}
      /\ row[i].mfa => row[i].secret \in proven \/ i \in blind
      /\ blind \in SUBSET Ids /\ drawn \subseteq Secrets
  BY <1>1, EditFacts
<1>5. ASSUME NEW r \in {[row[i] EXCEPT !.locked = FALSE], [row[i] EXCEPT !.inWindow = FALSE]},
             row' = [row EXCEPT ![i] = r]
      PROVE  Inv'
  <2>1. [row[i] EXCEPT !.locked = FALSE] \in RowType /\ [row[i] EXCEPT !.inWindow = FALSE] \in RowType
    BY <1>4 DEF RowType
  <2>2. /\ r.state = row[i].state /\ r.by = row[i].by
        /\ r.approver = row[i].approver /\ r.failed = row[i].failed
        /\ r.secret = row[i].secret /\ r.password = row[i].password
        /\ r.active = row[i].active /\ r.mfa = row[i].mfa
    BY <1>4 DEF RowType
  <2>3. r \in RowType
    BY <2>1
  <2> QED BY <1>1, <1>2, <1>3, <1>4, <1>5, <2>2, <2>3, OneEdit
<1> QED BY <1>5 DEF TimePasses

LEMMA RemoveKept ==
  ASSUME Inv, NEW i \in Ids, Remove(i)
  PROVE  Inv'
<1> DEFINE n == [NoRow EXCEPT !.state = "gone"]
<1>1. Types /\ AllReady /\ There(i) /\ sessions \in [Tokens -> SessionType]
  BY DEF Inv, Remove, Types
<1>2. /\ UNCHANGED <<approval, req, drawn, proven, guesses, raced, blind>>
      /\ row' = [row EXCEPT ![i] = n] /\ Drop(Of(i))
  BY DEF Remove, history
<1>3. n \in RowType /\ n.state = "gone" /\ n.secret = None
  BY NoRowIs DEF RowType
<1> HIDE DEF n
<1>4. row' \in [Ids -> RowType] /\ row'[i] = n /\ \A j \in Ids \ {i} : row'[j] = row[j]
  BY <1>1, <1>2, <1>3 DEF Types
<1>5. Current = {i} /\ Current' = {}
  BY <1>1, <1>3, <1>4 DEF Current, There, Inv, OneAccount
<1>6. sessions' \in [Tokens -> SessionType] /\ \A t \in Tokens : sessions'[t] = NoSession
  <2>1. sessions' = [t \in Tokens |-> IF t \in Of(i) THEN NoSession ELSE sessions[t]]
    BY <1>2 DEF Drop
  <2>2. \A t \in Tokens \ Of(i) : sessions[t] = NoSession
    BY <1>5 DEF Of, Inv, Rooted, Current
  <2> QED BY <1>1, <2>1, <2>2, NoSessionIs
<1>7. Types'
  BY <1>1, <1>2, <1>4, <1>6 DEF Types
<1>8. AllReady'
  BY <1>1, <1>2, SlotsKept
<1>9. Rooted' /\ OneAccount' /\ ChangesEndSessions'
  BY <1>5, <1>6 DEF Rooted, OneAccount, ChangesEndSessions, NewPasswordEndsSessions,
                    DisabledKeepsNoSession
<1>10. Approved' /\ SecretsDrawn'
  BY <1>2, <1>3, <1>4 DEF Inv, Approved, SecretsDrawn
<1>11. Counting' /\ FactorProven' /\ ApprovedByAnother'
  BY <1>2, <1>5 DEF Inv, Counting, FactorProven, ApprovedByAnother
<1> QED BY <1>7, <1>8, <1>9, <1>10, <1>11 DEF Inv

(***************************************************************************)
(* The theorems                                                            *)
(***************************************************************************)

LEMMA InvStep == Inv /\ [Next]_vars => Inv'
<1>1. ASSUME Inv, UNCHANGED vars PROVE Inv'
  <2>1. /\ UNCHANGED <<row, sessions, approval, drawn, proven, guesses, raced, blind>>
        /\ req' = req /\ Types /\ AllReady /\ Approved
    BY <1>1 DEF vars, Inv
  <2>2. Approved'
    BY <2>1 DEF Approved
  <2> QED BY <1>1, <2>1, <2>2, SlotsKept, RequestKept DEF Types
<1>2. ASSUME Inv, Next PROVE Inv'
  BY <1>2, ApproveKept, InsertKept, ReadKept, FailureKept, ClearKept, CreateSessionKept,
     EndKept, PasswordKept, ActiveKept, FactorKept, EnableKept, TimeKept, RemoveKept
     DEF Next
<1> QED BY <1>1, <1>2

LEMMA InvKept == Spec => []Inv
BY InitInv, InvStep, PTL DEF Spec

\* The account's row, the requests and the approval have their types, a session
\* belongs to an account that is there, and the counter of failures stays below
\* the number that locks (auth.service.ts login, auth.controller.ts).
THEOREM TypeCorrect == Spec => []TypeOK
<1>1. Inv => TypeOK
  <2> SUFFICES ASSUME Inv PROVE TypeOK
    OBVIOUS
  <2>1. approval.status \in {"none", "PENDING", "APPROVED", "REJECTED", "EXECUTED"}
    BY DEF Inv, Types, ApprovalType
  <2>2. \A s \in Slots : req[s].step \in Steps /\ (At(s, "gate") => req[s].by \in Admins)
    BY DEF Inv, Types, AllReady, Ready, ReqType, At
  <2> QED BY <2>1, <2>2 DEF Inv, Types, Rooted, TypeOK
<1> QED BY <1>1, InvKept, PTL

\* A new password and a disabling end the sessions opened before, although the
\* update of the row and the deletion of the sessions are two statements and
\* logins run in between (auth.controller.ts password and setActive).
THEOREM ChangesAlwaysEndSessions == Spec => []ChangesEndSessions
BY InvKept, PTL DEF Inv

\* The failures that no stale copy overwrote lock the account, and a second
\* factor in force is one whose holder gave a code, unless it was replaced
\* between check and update (auth.service.ts login, auth.controller.ts confirmMfa).
THEOREM LoginAlwaysGuarded == Spec => []LoginGuarded
<1>1. Inv => LoginGuarded
  BY DEF Inv, Counting, LoginGuarded, FailuresLock
<1> QED BY <1>1, InvKept, PTL

\* Every administrator's account was approved by another administrator than the
\* one who asked for it, with retried creations and decisions in between
\* (sensitive-approval.service.ts, auth.controller.ts create).
THEOREM AlwaysApprovedByAnother == Spec => []ApprovedByAnother
BY InvKept, PTL DEF Inv

(***************************************************************************)
(* Categories: induction and iteration                                     *)
(***************************************************************************)

\* A set of natural numbers has a least element: induction, without an operator as
\* a parameter.
LEMMA LeastElement ==
  ASSUME NEW T, T \subseteq Nat, T # {}
  PROVE  \E n \in T : \A m \in T : n <= m
<1> DEFINE R == OpToRel(<, Nat)
<1>1. IsWellFoundedOn(R, Nat)
  BY NatLessThanWellFounded, Zenon
<1>2. \A m, n \in T : m < n => <<m, n>> \in R
  BY DEF OpToRel
<1> HIDE DEF R
<1>3. PICK n \in T : \A m \in T : ~ (<<m, n>> \in R)
  BY <1>1, WFMin
<1>4. \A m \in T : ~ (m < n)
  BY <1>2, <1>3
<1> QED BY <1>4

\* f lists what a gives when step is applied over and over, up to m times.
Iterates(f, m, S, a, step) ==
  /\ f \in [0 .. m -> S]
  /\ f[0] = a
  /\ \A n \in 1 .. m : f[n] = step[f[n - 1]]

\* There is such a list: the least length for which there is none would be one more
\* than a length for which there is one.
LEMMA IteratesExist ==
  ASSUME NEW S, NEW N \in Nat, NEW a \in S, NEW step \in [S -> S]
  PROVE  \E f : Iterates(f, N, S, a, step)
<1> DEFINE T == {m \in 0 .. N : ~ \E f : Iterates(f, m, S, a, step)}
<1>1. SUFFICES ASSUME T # {} PROVE FALSE
  OBVIOUS
<1>2. PICK m \in T : \A n \in T : m <= n
  <2>1. T \subseteq Nat
    OBVIOUS
  <2> HIDE DEF T
  <2> QED BY <1>1, <2>1, LeastElement
<1>3. m # 0
  <2>1. Iterates([n \in 0 .. 0 |-> a], 0, S, a, step)
    BY DEF Iterates
  <2> QED BY <2>1
<1>4. m - 1 \in 0 .. N /\ m - 1 \notin T /\ m \in Nat \ {0}
  BY <1>2, <1>3
<1>5. PICK f : Iterates(f, m - 1, S, a, step)
  BY <1>4
<1> DEFINE g == [n \in 0 .. m |-> IF n = m THEN step[f[m - 1]] ELSE f[n]]
<1>6. \A n \in 0 .. m - 1 : f[n] \in S
  BY <1>5 DEF Iterates
<1>7. g \in [0 .. m -> S]
  BY <1>4, <1>6
<1>8. g[0] = a
  BY <1>4, <1>5 DEF Iterates
<1>9. \A n \in 1 .. m : g[n] = step[g[n - 1]]
  BY <1>4, <1>5 DEF Iterates
<1>10. Iterates(g, m, S, a, step)
  BY <1>7, <1>8, <1>9 DEF Iterates
<1> QED BY <1>2, <1>10

(***************************************************************************)
(* The walk of resolveCategories                                           *)
(***************************************************************************)

NC == Cardinality(Categories)

\* One step of the walk, given what the walk from the parent says with a step less.
Look(G, n, w, k) ==
  IF k = Root THEN RootAllowed(G)
  ELSE IF n = 0 \/ ~Present(k) THEN FALSE
  ELSE IF Overrides(k) THEN Grants(G, k)
  ELSE w[n - 1][parent[k]]

LEMMA CountNat == NC \in Nat
  BY AccessAssumption, FS_CardinalityType DEF NC

\* The recursion of Resolve has a solution, and Resolve takes one.
LEMMA Walks ==
  ASSUME NEW G
  PROVE  \E w : /\ w = [n \in 0 .. NC |-> [k \in Places |-> Look(G, n, w, k)]]
                /\ \A c : Resolve(G, c) = w[NC][c]
<1> DEFINE S == [Places -> BOOLEAN]
           a == [k \in Places |-> k = Root /\ RootAllowed(G)]
           step == [h \in S |-> [k \in Places |->
                     IF k = Root THEN RootAllowed(G)
                     ELSE IF ~Present(k) THEN FALSE
                     ELSE IF Overrides(k) THEN Grants(G, k)
                     ELSE h[parent[k]]]]
           Solves(w) == w = [n \in 0 .. NC |-> [k \in Places |-> Look(G, n, w, k)]]
<1>1. RootAllowed(G) \in BOOLEAN /\ \A k : Grants(G, k) \in BOOLEAN
  BY DEF RootAllowed, Grants
<1>2. a \in S
  BY <1>1
<1>3. step \in [S -> S]
  BY <1>1 DEF Present
<1>4. PICK w : Iterates(w, NC, S, a, step)
  <2> HIDE DEF S, a, step
  <2> QED BY <1>2, <1>3, CountNat, IteratesExist
<1>5. \A k \in Places : w[0][k] = Look(G, 0, w, k)
  BY <1>1, <1>4, CountNat DEF Look, Iterates
<1>6. \A n \in 1 .. NC, k \in Places : w[n][k] = Look(G, n, w, k)
  <2> TAKE n \in 1 .. NC, k \in Places
  <2>1. n - 1 \in 0 .. NC /\ n # 0
    BY CountNat
  <2>2. w[n - 1] \in S
    BY <1>4, <2>1 DEF Iterates
  <2>3. w[n] = step[w[n - 1]]
    BY <1>4 DEF Iterates
  <2> QED BY <2>1, <2>2, <2>3 DEF Look
<1>7. Solves(w)
  <2>1. \A n \in 0 .. NC : w[n] = [k \in Places |-> Look(G, n, w, k)]
    <3> TAKE n \in 0 .. NC
    <3>1. n = 0 \/ n \in 1 .. NC
      BY CountNat
    <3>2. \A k \in Places : w[n][k] = Look(G, n, w, k)
      BY <1>5, <1>6, <3>1
    <3>3. w[n] \in S
      BY <1>4 DEF Iterates
    <3> QED BY <3>2, <3>3
  <2> QED BY <1>4, <2>1 DEF Iterates
<1> DEFINE v == CHOOSE w_1 : Solves(w_1)
<1>8. Solves(v)
  BY <1>7
<1>9. \A c : Resolve(G, c) = v[NC][c]
  BY DEF Resolve, Look, NC
<1> QED BY <1>8, <1>9

(***************************************************************************)
(* Branches of the tree                                                    *)
(***************************************************************************)

LEMMA LiveUp ==
  ASSUME NEW c \in Live
  PROVE  c \in Categories /\ c \in Places /\ c # Root /\ parent[c] \in Places
  BY AccessAssumption DEF Live, Present, Places

\* Branch is the least set that goes upward from a category.
LEMMA BranchLeast ==
  ASSUME NEW c, NEW U \in SUBSET Places, c \in U, Upward(U)
  PROVE  Branch(c) \subseteq U
  BY DEF Branch

LEMMA BranchUpward ==
  ASSUME NEW c
  PROVE  Branch(c) \subseteq Places /\ Upward(Branch(c))
  BY LiveUp DEF Branch, Upward

LEMMA BranchSelf ==
  ASSUME NEW c \in Places
  PROVE  c \in Branch(c)
  BY DEF Branch

LEMMA BranchRoot == Branch(Root) = {Root}
<1>1. {Root} \in SUBSET Places /\ Root \in Places
  BY DEF Places
<1>2. Upward({Root})
  BY LiveUp DEF Upward
<1> QED BY <1>1, <1>2, BranchLeast, BranchSelf

LEMMA BranchAbove ==
  ASSUME NEW c, NEW k \in Branch(c)
  PROVE  Branch(k) \subseteq Branch(c)
  BY BranchUpward, BranchLeast

\* A category, and what is above its parent.
LEMMA BranchUnfolds ==
  ASSUME NEW c \in Live
  PROVE  Branch(c) = {c} \cup Branch(parent[c])
<1>1. c \in Places /\ parent[c] \in Places
  BY LiveUp
<1>2. c \in Branch(c) /\ parent[c] \in Branch(c)
  BY <1>1, BranchSelf, BranchUpward DEF Upward
<1>3. Branch(parent[c]) \subseteq Branch(c)
  BY <1>2, BranchAbove
<1> DEFINE U == {c} \cup Branch(parent[c])
<1>4. U \in SUBSET Places /\ c \in U
  BY <1>1, BranchUpward
<1>5. Upward(U)
  BY <1>1, BranchSelf, BranchUpward DEF Upward
<1>6. Branch(c) \subseteq U
  <2> HIDE DEF U
  <2> QED BY <1>4, <1>5, BranchLeast
<1> QED BY <1>2, <1>3, <1>6

\* The categories form a tree.
Tree == \A c \in Live : parent[c] \in Live \cup {Root} /\ Root \in Branch(c)

\* In a tree, whatever categories one takes, the parent of one of them is outside.
LEMMA TreeGrounded ==
  ASSUME Tree, NEW U, U \subseteq Live, U # {}
  PROVE  \E c \in U : parent[c] \notin U
<1> SUFFICES ASSUME \A c \in U : parent[c] \in U PROVE FALSE
  OBVIOUS
<1>1. PICK c \in U : TRUE
  OBVIOUS
<1>2. U \in SUBSET Places /\ Root \notin U /\ Upward(U)
  BY LiveUp DEF Upward
<1>3. Branch(c) \subseteq U
  BY <1>2, BranchLeast
<1> QED BY <1>2, <1>3 DEF Tree

\* In a tree no category is above its own parent.
LEMMA TreeAcyclic ==
  ASSUME Tree, NEW k \in Live
  PROVE  k \notin Branch(parent[k])
<1> SUFFICES ASSUME k \in Branch(parent[k]) PROVE FALSE
  OBVIOUS
<1> DEFINE U == {c \in Live : k \in Branch(c)}
<1>1. k \in U
  BY BranchSelf, LiveUp
<1>2. k # Root
  BY LiveUp
<1>3. ASSUME NEW c \in U PROVE parent[c] \in U
  <2>1. k \in Branch(parent[c])
    BY BranchUnfolds
  <2>2. parent[c] # Root
    BY <1>2, <2>1, BranchRoot
  <2> QED BY <2>1, <2>2 DEF Tree
<1>4. U \subseteq Live
  OBVIOUS
<1> HIDE DEF U
<1> QED BY <1>1, <1>3, <1>4, TreeGrounded

\* Of two categories, at most one is above the other.
LEMMA TreeOrdered ==
  ASSUME Tree, NEW k \in Live, NEW j \in Live, j \in Branch(k), k \in Branch(j)
  PROVE  j = k
<1> SUFFICES ASSUME j # k PROVE FALSE
  OBVIOUS
<1>1. j \in Branch(parent[k])
  BY BranchUnfolds
<1>2. k \in Branch(parent[k])
  BY <1>1, BranchAbove
<1> QED BY <1>2, TreeAcyclic

Height(c) == Cardinality(Branch(c) \cap Live)

LEMMA HeightNat ==
  ASSUME NEW c
  PROVE  IsFiniteSet(Branch(c) \cap Live) /\ Height(c) \in Nat /\ Height(c) <= NC
<1>1. Branch(c) \cap Live \in SUBSET Categories
  BY LiveUp
<1>2. IsFiniteSet(Branch(c) \cap Live) /\ Height(c) <= NC
  BY <1>1, AccessAssumption, FS_Subset DEF Height, NC
<1>3. Height(c) \in Nat
  BY <1>2, FS_CardinalityType DEF Height
<1> QED BY <1>2, <1>3

\* The parent has one category less above it: as many steps as there are categories
\* are enough for a walk.
LEMMA HeightFalls ==
  ASSUME Tree, NEW c \in Live
  PROVE  Height(c) = Height(parent[c]) + 1
<1> DEFINE B == Branch(parent[c]) \cap Live
<1>1. Branch(c) \cap Live = B \cup {c}
  BY BranchUnfolds
<1>2. c \notin B
  BY TreeAcyclic
<1>3. IsFiniteSet(B)
  BY HeightNat
<1>4. Cardinality(B \cup {c}) = Cardinality(B) + 1
  <2> HIDE DEF B
  <2> QED BY <1>2, <1>3, FS_AddElement
<1> QED BY <1>1, <1>4 DEF Height

(***************************************************************************)
(* The walk finds the nearest rule                                         *)
(***************************************************************************)

Ruled(c) == {k \in Branch(c) \cap Live : Overrides(k)}
Nearest(c) == {k \in Ruled(c) : \A j \in Ruled(c) : k \in Branch(j) => j = k}
ByRule(G, c) == IF Ruled(c) = {} THEN RootAllowed(G) ELSE \E k \in Nearest(c) : Grants(G, k)

\* A category's own rule is the nearest.
LEMMA OwnRuleNearest ==
  ASSUME Tree, NEW c \in Live, Overrides(c)
  PROVE  Ruled(c) # {} /\ Nearest(c) = {c}
<1>1. c \in Ruled(c)
  BY BranchSelf, LiveUp DEF Ruled
<1>2. ASSUME NEW j \in Ruled(c), c \in Branch(j) PROVE j = c
  BY <1>2, TreeOrdered DEF Ruled
<1>3. \A k \in Ruled(c) : k \in Branch(c)
  BY DEF Ruled
<1> QED BY <1>1, <1>2, <1>3 DEF Nearest

\* Without a rule of its own, a category has the rules of its parent.
LEMMA RulesInherited ==
  ASSUME NEW c \in Live, ~Overrides(c)
  PROVE  Ruled(c) = Ruled(parent[c]) /\ Nearest(c) = Nearest(parent[c])
<1>1. Ruled(c) = Ruled(parent[c])
  BY BranchUnfolds DEF Ruled
<1> QED BY <1>1 DEF Nearest

LEMMA RootHasNoRule == Ruled(Root) = {}
  BY BranchRoot, LiveUp DEF Ruled

\* A walk with as many steps as there are categories above, or more.
LEMMA WalkFindsRule ==
  ASSUME Tree, NEW G, NEW w, w = [n \in 0 .. NC |-> [k \in Places |-> Look(G, n, w, k)]]
  PROVE  \A c \in Live, n \in 0 .. NC : Height(c) <= n => (w[n][c] <=> ByRule(G, c))
<1> DEFINE Wrong == {c \in Live : \E n \in 0 .. NC : Height(c) <= n /\ ~(w[n][c] <=> ByRule(G, c))}
<1> SUFFICES ASSUME Wrong # {} PROVE FALSE
  <2> SUFFICES ASSUME NEW c \in Live, NEW n \in 0 .. NC, Height(c) <= n, Wrong = {}
               PROVE  w[n][c] <=> ByRule(G, c)
    OBVIOUS
  <2> QED OBVIOUS
<1>1. PICK c \in Wrong : parent[c] \notin Wrong
  <2>1. Wrong \subseteq Live
    OBVIOUS
  <2> HIDE DEF Wrong
  <2> QED BY <2>1, TreeGrounded
<1>2. PICK n \in 0 .. NC : Height(c) <= n /\ ~(w[n][c] <=> ByRule(G, c))
  BY <1>1
<1>3. c \in Live /\ c \in Places /\ c # Root /\ Present(c) /\ parent[c] \in Live \cup {Root}
      /\ parent[c] \in Places
  BY <1>1, LiveUp DEF Tree, Live
<1>4. Height(c) = Height(parent[c]) + 1 /\ Height(parent[c]) \in Nat
  BY <1>3, HeightFalls, HeightNat
<1>5. n # 0 /\ n - 1 \in 0 .. NC /\ Height(parent[c]) <= n - 1
  BY <1>2, <1>4, CountNat
<1>6. \A m \in 0 .. NC, k \in Places : w[m][k] = Look(G, m, w, k)
  <2> DEFINE Rows(m) == [k \in Places |-> Look(G, m, w, k)]
  <2>1. w = [m \in 0 .. NC |-> Rows(m)]
    OBVIOUS
  <2>2. \A m \in 0 .. NC : w[m] = Rows(m)
    <3> HIDE DEF Rows
    <3> QED BY <2>1
  <2> QED BY <2>2
<1>7. CASE Overrides(c)
  <2>1. w[n][c] = Grants(G, c)
    BY <1>3, <1>5, <1>6, <1>7 DEF Look
  <2>2. ByRule(G, c) <=> Grants(G, c)
    BY <1>3, <1>7, OwnRuleNearest DEF ByRule
  <2> QED BY <1>2, <2>1, <2>2
<1>8. CASE ~Overrides(c)
  <2>1. w[n][c] = w[n - 1][parent[c]]
    BY <1>3, <1>5, <1>6, <1>8 DEF Look
  <2>2. ByRule(G, c) <=> ByRule(G, parent[c])
    BY <1>3, <1>8, RulesInherited DEF ByRule
  <2>3. CASE parent[c] = Root
    <3>1. w[n - 1][Root] = RootAllowed(G)
      BY <1>3, <1>5, <1>6, <2>3 DEF Look
    <3>2. ByRule(G, Root) = RootAllowed(G)
      BY RootHasNoRule DEF ByRule
    <3> QED BY <1>2, <2>1, <2>2, <2>3, <3>1, <3>2
  <2>4. CASE parent[c] \in Live
    <3>1. w[n - 1][parent[c]] <=> ByRule(G, parent[c])
      BY <1>1, <1>5, <2>4
    <3> QED BY <1>2, <2>1, <2>2, <3>1
  <2> QED BY <1>3, <2>3, <2>4
<1> QED BY <1>7, <1>8

\* The steps that Resolve takes are enough.
LEMMA ResolveByRule ==
  ASSUME Tree, NEW G, NEW c \in Live
  PROVE  Resolve(G, c) <=> ByRule(G, c)
<1>1. PICK w : /\ w = [n \in 0 .. NC |-> [k \in Places |-> Look(G, n, w, k)]]
               /\ \A k : Resolve(G, k) = w[NC][k]
  BY Walks
<1>2. Height(c) <= NC
  BY HeightNat
<1>3. NC \in 0 .. NC
  BY CountNat
<1> QED BY <1>1, <1>2, <1>3, WalkFindsRule

LEMMA TreeDecides ==
  ASSUME crossed \/ Tree
  PROVE  NearestRuleDecides
<1> SUFFICES ASSUME Tree, NEW G \in SUBSET Groups, NEW c \in Live
             PROVE  LET ruled == {k \in Branch(c) \cap Live : Overrides(k)}
                        nearest == {k \in ruled : \A j \in ruled : k \in Branch(j) => j = k}
                    IN Resolve(G, c) <=> IF ruled = {} THEN RootAllowed(G)
                                         ELSE \E k \in nearest : Grants(G, k)
  BY DEF NearestRuleDecides
<1> QED BY ResolveByRule DEF ByRule, Ruled, Nearest

(***************************************************************************)
(* The inductive invariant                                                 *)
(***************************************************************************)

TaskRecords ==
  [step : {"idle", "create", "move", "delete", "file", "search"}, cat : Places \cup {Unset},
   to : Places \cup {Unset}, from : Places \cup {Unset}, stale : BOOLEAN,
   todo : SUBSET Groups, found : SUBSET Groups, absent : SUBSET Groups, late : SUBSET Groups]

\* A task that changes the tree or the filing, and no other, holds a place.
Holds(q) ==
  /\ q.step \in {"create", "move", "delete", "file"} <=> q.cat # Unset
  /\ q.step \in {"move", "delete"} => q.cat \in Categories /\ q.to \in Places

TasksTyped == task \in [Tasks -> TaskRecords] /\ \A t \in Tasks : Holds(task[t])

\* While there are groups, the tree rests.
TreeRests ==
  rows # {} => ~crossed /\ filed = Root /\ \A t \in Tasks : task[t].cat = Unset

\* What a task has read of the tree.
Agrees(q) ==
  /\ q.step = "move" => q.cat \in Live /\ q.to \in Live \cup {Root} /\ q.cat \notin Branch(q.to)
  /\ q.step = "delete" => q.cat \in Live /\ q.to = parent[q.cat]
  /\ q.step \in {"create", "file"} => q.cat \in Live \cup {Root}

\* It still holds if nobody changed the tree since.
ReadsSound == crossed \/ \A t \in Tasks : task[t].stale \/ Agrees(task[t])

\* A synchronization accounts for every group that has a connection.
SearchSound ==
  \A t \in Tasks : task[t].step = "search" =>
    linked \subseteq task[t].todo \cup task[t].found \cup task[t].absent \cup task[t].late

AccessInv ==
  /\ AccessTypeOK /\ TasksTyped /\ TreeRests /\ FilingSound /\ ReadsSound /\ SearchSound

LEMMA NoTaskTyped == NoTask \in TaskRecords /\ Holds(NoTask)
  BY DEF NoTask, TaskRecords, Holds

LEMMA UnsetApart ==
  Unset \notin Places /\ Gone \notin Places /\ Unset # Gone /\ Root \notin Categories
  BY AccessAssumption DEF Places

LEMMA AccessInitially == AccessInit => AccessInv
<1> SUFFICES ASSUME AccessInit PROVE AccessInv
  OBVIOUS
<1> USE DEF AccessInit
<1>1. Live = {}
  BY UnsetApart DEF Live, Present
<1>2. AccessTypeOK
  BY DEF AccessTypeOK, Places
<1>3. TasksTyped
  BY NoTaskTyped DEF TasksTyped
<1>4. FilingSound
  BY <1>1 DEF FilingSound, TreeSound, DocumentFiled
<1>5. ReadsSound /\ SearchSound
  BY DEF ReadsSound, SearchSound, Agrees, NoTask
<1> QED BY <1>2, <1>3, <1>4, <1>5 DEF AccessInv, TreeRests

LEMMA TreeWhenUncrossed ==
  ASSUME FilingSound, ~crossed
  PROVE  Tree /\ filed \in Live \cup {Root}
  BY DEF FilingSound, TreeSound, DocumentFiled, Tree

LEMMA FilingBuilt ==
  ASSUME ~crossed' => Tree' /\ filed' \in Live' \cup {Root}
  PROVE  FilingSound'
  BY DEF FilingSound, TreeSound, DocumentFiled, Tree

\* The tree as it was.
LEMMA TreeUntouched ==
  ASSUME parent' = parent
  PROVE  Live' = Live /\ (Tree' <=> Tree) /\ \A c : Branch(c)' = Branch(c)
<1>1. Live' = Live
  BY DEF Live, Present
<1>2. \A U : Upward(U)' <=> Upward(U)
  BY <1>1 DEF Upward
<1>3. \A c : Branch(c)' = Branch(c)
  BY <1>2 DEF Branch
<1>4. Tree' <=> Tree
  BY <1>1, <1>3 DEF Tree
<1> QED BY <1>1, <1>3, <1>4

LEMMA AgreesUntouched ==
  ASSUME parent' = parent, NEW q, Agrees(q)
  PROVE  Agrees(q)'
  BY TreeUntouched DEF Agrees

\* A new tree, when no set of categories has all their parents in it.
LEMMA TreeBuilt ==
  ASSUME \A c \in Live' : parent'[c] \in Live' \cup {Root},
         \A U \in SUBSET Live' : (\A k \in U : parent'[k] \in U) => U = {}
  PROVE  Tree'
<1> SUFFICES ASSUME NEW c \in Live' PROVE Root \in Branch(c)'
  BY DEF Tree
<1> SUFFICES ASSUME NEW U \in SUBSET Places, c \in U, Upward(U)', Root \notin U PROVE FALSE
  BY DEF Branch, Places
<1>1. \A k \in U \cap Live' : parent'[k] \in U \cap Live'
  BY DEF Upward
<1>2. U \cap Live' \in SUBSET Live' /\ U \cap Live' # {}
  OBVIOUS
<1> QED BY <1>1, <1>2

(***************************************************************************)
(* Changes of the tree                                                     *)
(***************************************************************************)

\* A new category is a leaf: it adds nothing above the others.
LEMMA CreateBranch ==
  ASSUME Tree, NEW c \in Categories, NEW p, p = Root \/ p \in Live, parent[c] = Unset,
         AccessTypeOK, parent' = [parent EXCEPT ![c] = p]
  PROVE  /\ Tree' /\ Live' = Live \cup {c} /\ c \notin Live
         /\ \A k \in Live : parent'[k] = parent[k]
         /\ \A q \in Live \cup {Root} : Branch(q)' \subseteq Branch(q)
<1>1. c \notin Live /\ c # Root /\ p \in Places
  BY UnsetApart DEF Live, Present, Places
<1>2. \A k \in Categories : k # c => parent'[k] = parent[k]
  BY DEF AccessTypeOK
<1>3. parent'[c] = p
  BY DEF AccessTypeOK
<1>4. Live' = Live \cup {c}
  BY <1>1, <1>2, <1>3 DEF Live, Present
<1>5. \A k \in Live : parent'[k] = parent[k] /\ parent[k] \in Live \cup {Root}
  BY <1>1, <1>2 DEF Live, Tree
<1>6. ASSUME NEW q \in Live \cup {Root} PROVE Branch(q)' \subseteq Branch(q)
  <2>0. PICK U : U = Branch(q) \cap (Live \cup {Root})
    OBVIOUS
  <2>1. q \in Places
    BY LiveUp DEF Places
  <2>2. q \in U /\ U \in SUBSET Places
    BY <2>0, <2>1, BranchSelf, BranchUpward
  <2>3. \A k \in U \cap Live' : k \in Live /\ k \in Branch(q)
    BY <1>1, <1>4, <2>0, UnsetApart DEF Live
  <2>4. \A k \in U \cap Live' : parent[k] \in Branch(q)
    BY <2>3, BranchUpward DEF Upward
  <2>5. Upward(U)'
    BY <1>5, <2>0, <2>3, <2>4 DEF Upward
  <2>6. Branch(q)' \subseteq U
    BY <2>2, <2>5 DEF Branch
  <2> QED BY <2>0, <2>6
<1>7. Tree'
  <2>1. \A k \in Live' : parent'[k] \in Live' \cup {Root}
    BY <1>3, <1>4, <1>5
  <2>2. ASSUME NEW U \in SUBSET Live', \A k \in U : parent'[k] \in U
        PROVE  U = {}
    <3>1. \A k \in U \cap Live : parent[k] \in U \cap Live
      BY <1>5, <2>2, <1>4, UnsetApart DEF Live
    <3>2. U \cap Live = {}
      BY <3>1, TreeGrounded
    <3>3. c \notin U
      BY <1>1, <1>3, <1>4, <2>2, <3>2
    <3> QED BY <1>4, <3>2, <3>3
  <2> QED BY <2>1, <2>2, TreeBuilt
<1> QED BY <1>1, <1>4, <1>5, <1>6, <1>7

\* A category moves under one that is not below it.
LEMMA MoveTree ==
  ASSUME Tree, NEW c \in Live, NEW p \in Live \cup {Root}, c \notin Branch(p),
         AccessTypeOK, parent' = [parent EXCEPT ![c] = p]
  PROVE  Tree' /\ Live' = Live
<1>1. c \in Categories /\ p \in Places /\ p \in Branch(p)
  BY LiveUp, BranchSelf DEF Places
<1>2. \A k \in Categories : parent'[k] = IF k = c THEN p ELSE parent[k]
  BY <1>1 DEF AccessTypeOK
<1>3. Live' = Live
  BY <1>1, <1>2 DEF Live, Present
<1>4. \A k \in Live' : parent'[k] \in Live' \cup {Root}
  BY <1>2, <1>3 DEF Tree, Live
<1>5. ASSUME NEW U \in SUBSET Live', \A k \in U : parent'[k] \in U
      PROVE  U = {}
  <2>1. U \subseteq Live /\ U \subseteq Categories
    BY <1>3 DEF Live
  <2>2. c \notin U
    <3> SUFFICES ASSUME c \in U PROVE FALSE
      OBVIOUS
    <3>1. p \in U
      BY <1>1, <1>2, <1>5
    <3>2. \A k \in U \cap Branch(p) : parent[k] \in U
      BY <1>2, <1>5, <2>1
    <3>3. \A k \in U \cap Branch(p) : parent[k] \in Branch(p)
      BY <2>1, BranchUpward DEF Upward
    <3> QED BY <1>1, <2>1, <3>1, <3>2, <3>3, TreeGrounded
  <2>3. \A k \in U : parent[k] \in U
    BY <1>2, <1>5, <2>1, <2>2
  <2> QED BY <2>1, <2>3, TreeGrounded
<1> QED BY <1>3, <1>4, <1>5, TreeBuilt

\* The children of a category that is deleted move up.
LEMMA DeleteTree ==
  ASSUME Tree, NEW c \in Live, AccessTypeOK,
         parent' = [k \in Categories |-> IF k = c THEN Gone ELSE Adopted(c, parent[c], k)]
  PROVE  Tree' /\ Live' = Live \ {c}
<1> DEFINE p == parent[c]
<1>1. c \in Categories /\ p \in Places /\ p \in Live \cup {Root} /\ p # c
  <2>1. c \in Categories /\ p \in Places
    BY LiveUp
  <2>2. p # c
    BY <2>1, TreeAcyclic, BranchSelf
  <2> QED BY <2>1, <2>2 DEF Tree
<1>2. \A k \in Categories : k # c => parent'[k] = IF parent[k] = c THEN p ELSE parent[k]
  BY DEF Adopted
<1>3. parent'[c] = Gone
  BY <1>1
<1>4. \A k \in Live : parent[k] \in Live \cup {Root}
  BY DEF Tree
<1> HIDE DEF p
<1>5. Live' = Live \ {c}
  <2>1. c \notin Live'
    BY <1>3, UnsetApart DEF Live, Present
  <2>2. \A k \in Categories : k # c => (k \in Live' <=> k \in Live)
    BY <1>1, <1>2 DEF Live, Present, Places
  <2> QED BY <2>1, <2>2 DEF Live
<1>6. \A k \in Live' : parent'[k] \in Live' \cup {Root}
  BY <1>1, <1>2, <1>4, <1>5 DEF Live
<1>7. ASSUME NEW U \in SUBSET Live', \A k \in U : parent'[k] \in U
      PROVE  U = {}
  <2>1. U \subseteq Live /\ c \notin U /\ U \subseteq Categories
    BY <1>5 DEF Live
  <2>2. \A k \in U : parent[k] = c => p \in U
    BY <1>2, <1>7, <2>1
  <2>3. \A k \in U : parent[k] # c => parent[k] \in U
    BY <1>2, <1>7, <2>1
  <2>4. CASE p \in U
    <3>1. \A k \in U \cup {c} : parent[k] \in U \cup {c}
      BY <2>3, <2>4 DEF p
    <3> QED BY <2>1, <3>1, TreeGrounded
  <2>5. CASE p \notin U
    <3>1. \A k \in U : parent[k] \in U
      BY <2>2, <2>3, <2>5
    <3> QED BY <2>1, <3>1, TreeGrounded
  <2> QED BY <2>4, <2>5
<1> QED BY <1>5, <1>6, <1>7, TreeBuilt

\* Without groups, a change of the tree leaves the rest alone.
LEMMA NoGroupsYet ==
  ASSUME AccessInv, rows = {}, UNCHANGED groupVars, UNCHANGED directory,
         parent' \in [Categories -> Places \cup {Unset, Gone}], filed' \in Places,
         crossed' \in BOOLEAN
  PROVE  AccessTypeOK' /\ TreeRests' /\ SearchSound'
<1>1. AccessTypeOK'
  BY DEF AccessInv, AccessTypeOK, groupVars
<1>2. TreeRests'
  BY DEF TreeRests, groupVars
<1>3. linked' = {}
  BY DEF AccessInv, AccessTypeOK, groupVars
<1>4. SearchSound'
  BY <1>3 DEF SearchSound
<1> QED BY <1>1, <1>2, <1>4

LEMMA AccessInvParts ==
  ASSUME AccessInv
  PROVE  /\ AccessTypeOK /\ TasksTyped /\ TreeRests /\ FilingSound /\ ReadsSound /\ SearchSound
         /\ parent \in [Categories -> Places \cup {Unset, Gone}] /\ filed \in Places
         /\ crossed \in BOOLEAN
  BY DEF AccessInv, AccessTypeOK

LEMMA AccessInvBuilt ==
  ASSUME AccessTypeOK', TasksTyped', TreeRests', FilingSound', ReadsSound', SearchSound'
  PROVE  AccessInv'
  BY DEF AccessInv

\* After a change of the tree, what the other tasks read is out of date.
LEMMA OvertakeSound ==
  ASSUME TasksTyped, NEW t \in Tasks, Overtake(t, NoTask)
  PROVE  TasksTyped' /\ ReadsSound'
<1>1. \A x \in Tasks : task'[x] = IF x = t THEN NoTask
                                  ELSE [task[x] EXCEPT !.stale = task[x].cat # Unset]
  BY DEF Overtake
<1>2. ASSUME NEW x \in Tasks
      PROVE  task'[x] \in TaskRecords /\ Holds(task'[x]) /\ (task'[x].stale \/ task'[x].cat = Unset)
  <2>1. CASE x = t
    <3>1. task'[x] = NoTask
      BY <1>1, <2>1
    <3>2. NoTask.cat = Unset
      BY DEF NoTask
    <3> QED BY <3>1, <3>2, NoTaskTyped
  <2>2. CASE x # t
    <3>1. task[x] \in TaskRecords /\ Holds(task[x])
      BY DEF TasksTyped
    <3>2. task'[x] = [task[x] EXCEPT !.stale = task[x].cat # Unset]
      BY <1>1, <2>2
    <3>3. task'[x] \in TaskRecords
      BY <3>1, <3>2 DEF TaskRecords
    <3>4. Holds(task'[x])
      BY <3>1, <3>2 DEF TaskRecords, Holds
    <3>5. task'[x].stale \/ task'[x].cat = Unset
      BY <3>1, <3>2 DEF TaskRecords
    <3> QED BY <3>3, <3>4, <3>5
  <2> QED BY <2>1, <2>2
<1>3. TasksTyped'
  <2>1. task' \in [Tasks -> TaskRecords]
    BY <1>2 DEF Overtake
  <2> QED BY <1>2, <2>1 DEF TasksTyped
<1>4. ASSUME NEW x \in Tasks, task'[x].cat = Unset PROVE Agrees(task[x])'
  <2>1. task'[x].step \notin {"create", "move", "delete", "file"}
    BY <1>2, <1>4 DEF Holds
  <2> QED BY <2>1 DEF Agrees
<1> QED BY <1>2, <1>3, <1>4 DEF ReadsSound

\* A task begins or ends, and the tree is as it was.
LEMMA OneTaskSound ==
  ASSUME AccessInv, parent' = parent, crossed => crossed', NEW t \in Tasks,
         NEW q \in TaskRecords, Holds(q), Proceed(t, q), Agrees(q)
  PROVE  TasksTyped' /\ ReadsSound'
<1>1. task' = [task EXCEPT ![t] = q] /\ task \in [Tasks -> TaskRecords]
  BY AccessInvParts DEF Proceed, TasksTyped
<1>2. \A x \in Tasks : task'[x] = IF x = t THEN q ELSE task[x]
  BY <1>1
<1>3. task' \in [Tasks -> TaskRecords] /\ \A x \in Tasks : Holds(task'[x])
  BY <1>1, <1>2, AccessInvParts DEF TasksTyped
<1>4. ASSUME NEW x \in Tasks, ~crossed'
      PROVE  task'[x].stale \/ Agrees(task[x])'
  <2>1. PICK r : r = task'[x]
    OBVIOUS
  <2>2. r.stale \/ Agrees(r)
    BY <1>2, <1>4, <2>1, AccessInvParts DEF ReadsSound
  <2>3. Agrees(r) => Agrees(r)'
    BY AgreesUntouched
  <2>4. Agrees(r)' => Agrees(task[x])'
    BY <2>1 DEF Agrees
  <2> QED BY <2>1, <2>2, <2>3, <2>4
<1> QED BY <1>3, <1>4 DEF TasksTyped, ReadsSound

LEMMA NoTaskAgrees == Agrees(NoTask)
  BY DEF Agrees, NoTask

LEMMA CheckCreateKept ==
  ASSUME AccessInv, NEW t \in Tasks, NEW p \in Places, CheckCreate(t, p)
  PROVE  AccessInv'
<1> USE DEF CheckCreate
<1>1. PICK q : q = [NoTask EXCEPT !.step = "create", !.cat = p]
  OBVIOUS
<1>2. q \in TaskRecords /\ Holds(q)
  BY <1>1, UnsetApart, AccessInvParts DEF NoTask, TaskRecords, Holds
<1>3. Agrees(q)
  BY <1>1 DEF NoTask, Agrees
<1>4. TasksTyped' /\ ReadsSound'
  BY <1>1, <1>2, <1>3, OneTaskSound
<1>5. AccessTypeOK' /\ TreeRests' /\ SearchSound'
  BY AccessInvParts, NoGroupsYet DEF Planting
<1>6. FilingSound'
  BY AccessInvParts, TreeWhenUncrossed, TreeUntouched, FilingBuilt
<1> QED BY <1>4, <1>5, <1>6, AccessInvBuilt

LEMMA CheckParentKept ==
  ASSUME AccessInv, NEW t \in Tasks, NEW c \in Categories, NEW p \in Places, CheckParent(t, c, p)
  PROVE  AccessInv'
<1> USE DEF CheckParent
<1>1. PICK q : q = [NoTask EXCEPT !.step = "move", !.cat = c, !.to = p]
  OBVIOUS
<1>2. q \in TaskRecords /\ Holds(q)
  BY <1>1, UnsetApart DEF NoTask, TaskRecords, Holds, Places
<1>3. Agrees(q)
  BY <1>1 DEF NoTask, Agrees, Above
<1>4. TasksTyped' /\ ReadsSound'
  BY <1>1, <1>2, <1>3, OneTaskSound
<1>5. AccessTypeOK' /\ TreeRests' /\ SearchSound'
  BY AccessInvParts, NoGroupsYet DEF Planting
<1>6. FilingSound'
  BY AccessInvParts, TreeWhenUncrossed, TreeUntouched, FilingBuilt
<1> QED BY <1>4, <1>5, <1>6, AccessInvBuilt

LEMMA CheckDeleteKept ==
  ASSUME AccessInv, NEW t \in Tasks, NEW c \in Categories, CheckDelete(t, c)
  PROVE  AccessInv'
<1> USE DEF CheckDelete
<1>1. PICK q : q = [NoTask EXCEPT !.step = "delete", !.cat = c, !.to = parent[c]]
  OBVIOUS
<1>2. q \in TaskRecords /\ Holds(q)
  BY <1>1, UnsetApart, LiveUp DEF NoTask, TaskRecords, Holds, Places
<1>3. Agrees(q)
  BY <1>1 DEF NoTask, Agrees
<1>4. TasksTyped' /\ ReadsSound'
  BY <1>1, <1>2, <1>3, OneTaskSound
<1>5. AccessTypeOK' /\ TreeRests' /\ SearchSound'
  BY AccessInvParts, NoGroupsYet DEF Planting
<1>6. FilingSound'
  BY AccessInvParts, TreeWhenUncrossed, TreeUntouched, FilingBuilt
<1> QED BY <1>4, <1>5, <1>6, AccessInvBuilt

LEMMA CheckFileKept ==
  ASSUME AccessInv, NEW t \in Tasks, NEW p \in Places, CheckFile(t, p)
  PROVE  AccessInv'
<1> USE DEF CheckFile
<1>1. PICK q : q = [NoTask EXCEPT !.step = "file", !.cat = p, !.from = filed]
  OBVIOUS
<1>2. q \in TaskRecords /\ Holds(q)
  BY <1>1, UnsetApart, AccessInvParts DEF NoTask, TaskRecords, Holds
<1>3. Agrees(q)
  BY <1>1 DEF NoTask, Agrees
<1>4. TasksTyped' /\ ReadsSound'
  BY <1>1, <1>2, <1>3, OneTaskSound
<1>5. AccessTypeOK' /\ TreeRests' /\ SearchSound'
  BY AccessInvParts, NoGroupsYet DEF Planting
<1>6. FilingSound'
  BY AccessInvParts, TreeWhenUncrossed, TreeUntouched, FilingBuilt
<1> QED BY <1>4, <1>5, <1>6, AccessInvBuilt

\* A task that holds a place runs while there are no groups.
LEMMA HolderAlone ==
  ASSUME AccessInv, NEW t \in Tasks, task[t].step \in {"create", "move", "delete", "file"}
  PROVE  /\ rows = {} /\ task[t] \in TaskRecords /\ task[t].stale \in BOOLEAN
         /\ task[t].cat \in Places
         /\ task[t].step \in {"move", "delete"} => task[t].cat \in Categories /\ task[t].to \in Places
         /\ ~crossed /\ ~task[t].stale => Agrees(task[t])
<1>1. task[t] \in TaskRecords /\ Holds(task[t])
  BY AccessInvParts DEF TasksTyped
<1>2. task[t].stale \in BOOLEAN /\ task[t].cat \in Places /\ task[t].cat # Unset
  BY <1>1, UnsetApart DEF Holds, TaskRecords
<1>3. rows = {}
  BY <1>2, AccessInvParts DEF TreeRests
<1>4. ~crossed /\ ~task[t].stale => Agrees(task[t])
  BY AccessInvParts DEF ReadsSound
<1>5. task[t].step \in {"move", "delete"} => task[t].cat \in Categories /\ task[t].to \in Places
  BY <1>1 DEF Holds
<1> QED BY <1>1, <1>2, <1>3, <1>4, <1>5

LEMMA WriteCreateKept ==
  ASSUME AccessInv, NEW t \in Tasks, NEW c \in Categories, WriteCreate(t, c)
  PROVE  AccessInv'
<1> USE DEF WriteCreate
<1>1. PICK p : p = task[t].cat
  OBVIOUS
<1>2. /\ rows = {} /\ p \in Places /\ task[t].stale \in BOOLEAN
      /\ ~crossed /\ ~task[t].stale => Agrees(task[t])
  BY <1>1, HolderAlone DEF Doing
<1>3. parent' = [parent EXCEPT ![c] = p]
  BY <1>1
<1>4. parent' \in [Categories -> Places \cup {Unset, Gone}] /\ filed' \in Places
      /\ crossed' \in BOOLEAN
  BY <1>2, <1>3, AccessInvParts
<1>5. AccessTypeOK' /\ TreeRests' /\ SearchSound'
  BY <1>2, <1>4, NoGroupsYet
<1>6. /\ task \in [Tasks -> TaskRecords] /\ \A x \in Tasks : Holds(task[x])
      /\ \A x \in Tasks : task'[x] = IF x = t THEN NoTask ELSE task[x]
  BY AccessInvParts DEF TasksTyped, Proceed
<1>7. TasksTyped'
  <2>1. task' \in [Tasks -> TaskRecords]
    BY <1>6, NoTaskTyped DEF Proceed
  <2> QED BY <1>6, <2>1, NoTaskTyped DEF TasksTyped
<1>8. CASE crossed'
  <2>1. FilingSound' /\ ReadsSound'
    BY <1>8 DEF FilingSound, TreeSound, DocumentFiled, ReadsSound
  <2> QED BY <1>5, <1>7, <2>1, AccessInvBuilt
<1>9. CASE ~crossed'
  <2>1. ~crossed /\ (p = Root \/ p \in Live)
    <3>1. ~crossed /\ (p = Root \/ ~task[t].stale)
      BY <1>1, <1>9
    <3> QED BY <1>1, <1>2, <3>1 DEF Agrees, Doing
  <2>2. Tree /\ filed \in Live \cup {Root}
    BY <2>1, AccessInvParts, TreeWhenUncrossed
  <2>3. /\ Tree' /\ Live' = Live \cup {c} /\ c \notin Live
        /\ \A k \in Live : parent'[k] = parent[k]
        /\ \A q \in Live \cup {Root} : Branch(q)' \subseteq Branch(q)
    BY <1>3, <2>1, <2>2, CreateBranch, AccessInvParts
  <2>4. FilingSound'
    BY <2>2, <2>3, FilingBuilt
  <2>5. ASSUME NEW x \in Tasks PROVE task'[x].stale \/ Agrees(task[x])'
    <3>1. PICK q : q = task'[x]
      OBVIOUS
    <3>2. q.stale \/ Agrees(q)
      BY <1>6, <2>1, <3>1, NoTaskAgrees, AccessInvParts DEF ReadsSound
    <3>3. Agrees(q) => Agrees(q)'
      BY <2>3 DEF Agrees
    <3>4. Agrees(q)' => Agrees(task[x])'
      BY <3>1 DEF Agrees
    <3> QED BY <3>1, <3>2, <3>3, <3>4
  <2>6. ReadsSound'
    BY <2>5 DEF ReadsSound
  <2> QED BY <1>5, <1>7, <2>4, <2>6, AccessInvBuilt
<1> QED BY <1>8, <1>9

LEMMA WriteParentKept ==
  ASSUME AccessInv, NEW t \in Tasks, WriteParent(t)
  PROVE  AccessInv'
<1> USE DEF WriteParent
<1>1. PICK c, p : c = task[t].cat /\ p = task[t].to
  OBVIOUS
<1>2. /\ rows = {} /\ c \in Categories /\ p \in Places /\ task[t].stale \in BOOLEAN
      /\ ~crossed /\ ~task[t].stale => Agrees(task[t])
  BY <1>1, HolderAlone DEF Doing
<1>3. parent' = [parent EXCEPT ![c] = IF Present(c) THEN p ELSE Gone]
  BY <1>1
<1>4. parent' \in [Categories -> Places \cup {Unset, Gone}] /\ filed' \in Places
      /\ crossed' \in BOOLEAN
  BY <1>2, <1>3, AccessInvParts
<1>5. AccessTypeOK' /\ TreeRests' /\ SearchSound'
  BY <1>2, <1>4, NoGroupsYet
<1>6. TasksTyped' /\ ReadsSound'
  BY AccessInvParts, OvertakeSound
<1>7. ASSUME ~crossed' PROVE Tree' /\ filed' \in Live' \cup {Root}
  <2>1. ~crossed /\ ~task[t].stale
    BY <1>7
  <2>2. Tree /\ filed \in Live \cup {Root}
    BY <2>1, AccessInvParts, TreeWhenUncrossed
  <2>3. c \in Live /\ p \in Live \cup {Root} /\ c \notin Branch(p)
    BY <1>1, <1>2, <2>1 DEF Agrees, Doing
  <2>4. parent' = [parent EXCEPT ![c] = p]
    BY <1>3, <2>3 DEF Live
  <2>5. Tree' /\ Live' = Live
    BY <2>2, <2>3, <2>4, AccessInvParts, MoveTree
  <2> QED BY <2>2, <2>5
<1>8. FilingSound'
  BY <1>7, FilingBuilt
<1> QED BY <1>5, <1>6, <1>8, AccessInvBuilt

LEMMA WriteDeleteKept ==
  ASSUME AccessInv, NEW t \in Tasks, WriteDelete(t)
  PROVE  AccessInv'
<1> USE DEF WriteDelete
<1>1. PICK c, p : c = task[t].cat /\ p = task[t].to
  OBVIOUS
<1>2. /\ rows = {} /\ c \in Categories /\ p \in Places /\ task[t].stale \in BOOLEAN
      /\ ~crossed /\ ~task[t].stale => Agrees(task[t])
  BY <1>1, HolderAlone DEF Doing
<1>3. /\ parent' = [k \in Categories |-> IF k = c THEN Gone ELSE Adopted(c, p, k)]
      /\ filed' = Refiled(c)
  BY <1>1
<1>4. parent' \in [Categories -> Places \cup {Unset, Gone}] /\ filed' \in Places
      /\ crossed' \in BOOLEAN
  <2>1. \A k \in Categories : Adopted(c, p, k) \in Places \cup {Unset, Gone}
    BY <1>2, AccessInvParts DEF Adopted
  <2>2. Refiled(c) \in Places
    BY AccessInvParts DEF Refiled, Places
  <2> QED BY <1>2, <1>3, <2>1, <2>2, AccessInvParts
<1>5. AccessTypeOK' /\ TreeRests' /\ SearchSound'
  BY <1>2, <1>4, NoGroupsYet
<1>6. TasksTyped' /\ ReadsSound'
  BY AccessInvParts, OvertakeSound
<1>7. ASSUME ~crossed' PROVE Tree' /\ filed' \in Live' \cup {Root}
  <2>1. ~crossed /\ ~task[t].stale
    BY <1>7
  <2>2. Tree /\ filed \in Live \cup {Root}
    BY <2>1, AccessInvParts, TreeWhenUncrossed
  <2>3. c \in Live /\ p = parent[c]
    BY <1>1, <1>2, <2>1 DEF Agrees, Doing
  <2>4. Tree' /\ Live' = Live \ {c}
    BY <1>3, <2>2, <2>3, AccessInvParts, DeleteTree
  <2>5. filed' \in (Live \ {c}) \cup {Root}
    BY <1>3, <2>2 DEF Refiled
  <2> QED BY <2>4, <2>5
<1>8. FilingSound'
  BY <1>7, FilingBuilt
<1> QED BY <1>5, <1>6, <1>8, AccessInvBuilt

LEMMA WriteFileKept ==
  ASSUME AccessInv, NEW t \in Tasks, WriteFile(t)
  PROVE  AccessInv'
<1> USE DEF WriteFile
<1>1. /\ rows = {} /\ task[t].cat \in Places /\ task[t].stale \in BOOLEAN
      /\ ~crossed /\ ~task[t].stale => Agrees(task[t])
  BY HolderAlone DEF Doing
<1>2. parent' = parent /\ filed' \in Places /\ crossed' \in BOOLEAN /\ (crossed => crossed')
  BY <1>1, AccessInvParts
<1>3. AccessTypeOK' /\ TreeRests' /\ SearchSound'
  BY <1>1, <1>2, AccessInvParts, NoGroupsYet
<1>4. TasksTyped' /\ ReadsSound'
  BY <1>2, NoTaskTyped, NoTaskAgrees, OneTaskSound
<1>5. ASSUME ~crossed' PROVE Tree' /\ filed' \in Live' \cup {Root}
  <2>1. ~crossed
    BY <1>2, <1>5
  <2>2. Tree /\ filed \in Live \cup {Root}
    BY <2>1, AccessInvParts, TreeWhenUncrossed
  <2>3. filed' \in Live \cup {Root}
    BY <1>1, <1>5, <2>1, <2>2 DEF Agrees, Doing
  <2> QED BY <1>2, <2>2, <2>3, TreeUntouched
<1>6. FilingSound'
  BY <1>5, FilingBuilt
<1> QED BY <1>3, <1>4, <1>6, AccessInvBuilt

(***************************************************************************)
(* Groups, rules, grants and synchronizations                              *)
(***************************************************************************)

LEMMA TreeAside ==
  ASSUME AccessInv, UNCHANGED treeVars, UNCHANGED crossed, rows' \subseteq rows \/ Planted,
         task' \in [Tasks -> TaskRecords],
         \A t \in Tasks : Holds(task'[t]) /\ (task'[t].cat = Unset \/ task'[t] = task[t])
  PROVE  TasksTyped' /\ TreeRests' /\ FilingSound' /\ ReadsSound'
<1>1. parent' = parent /\ filed' = filed /\ crossed' = crossed
  BY DEF treeVars
<1>2. TasksTyped'
  BY DEF TasksTyped
<1>3. TreeRests'
  BY <1>1, AccessInvParts DEF TreeRests, Planted
<1>4. FilingSound'
  BY <1>1, AccessInvParts, TreeWhenUncrossed, TreeUntouched, FilingBuilt
<1>5. ASSUME NEW t \in Tasks, ~crossed' PROVE task'[t].stale \/ Agrees(task[t])'
  <2>1. CASE task'[t].cat = Unset
    <3>1. task'[t].step \notin {"create", "move", "delete", "file"}
      BY <2>1 DEF Holds
    <3> QED BY <3>1 DEF Agrees
  <2>2. CASE task'[t] = task[t]
    <3>1. PICK q : q = task[t]
      OBVIOUS
    <3>2. q.stale \/ Agrees(q)
      BY <1>1, <1>5, <3>1, AccessInvParts DEF ReadsSound
    <3>3. Agrees(q) => Agrees(q)'
      BY <1>1, AgreesUntouched
    <3>4. Agrees(q)' => Agrees(task[t])'
      BY <2>2, <3>1 DEF Agrees
    <3> QED BY <2>2, <3>1, <3>2, <3>3, <3>4
  <2> QED BY <2>1, <2>2
<1>6. ReadsSound'
  BY <1>5 DEF ReadsSound
<1> QED BY <1>2, <1>3, <1>4, <1>6

LEMMA TasksAside ==
  ASSUME AccessInv, UNCHANGED treeVars, UNCHANGED crossed, rows' \subseteq rows \/ Planted,
         UNCHANGED task
  PROVE  TasksTyped' /\ TreeRests' /\ FilingSound' /\ ReadsSound'
<1>1. task' \in [Tasks -> TaskRecords] /\ \A t \in Tasks : Holds(task'[t]) /\ task'[t] = task[t]
  BY AccessInvParts DEF TasksTyped
<1> QED BY <1>1, TreeAside

\* A task that holds no place begins or ends.
LEMMA ProceedAside ==
  ASSUME AccessInv, UNCHANGED treeVars, UNCHANGED crossed, rows' \subseteq rows,
         NEW t \in Tasks, NEW q \in TaskRecords, Holds(q), q.cat = Unset, Proceed(t, q)
  PROVE  /\ TasksTyped' /\ TreeRests' /\ FilingSound' /\ ReadsSound'
         /\ \A x \in Tasks : task'[x] = IF x = t THEN q ELSE task[x]
<1>1. task \in [Tasks -> TaskRecords] /\ \A x \in Tasks : Holds(task[x])
  BY AccessInvParts DEF TasksTyped
<1>2. \A x \in Tasks : task'[x] = IF x = t THEN q ELSE task[x]
  BY <1>1 DEF Proceed
<1>3. task' \in [Tasks -> TaskRecords]
  BY <1>1 DEF Proceed
<1>4. \A x \in Tasks : Holds(task'[x]) /\ (task'[x].cat = Unset \/ task'[x] = task[x])
  BY <1>1, <1>2
<1> QED BY <1>2, <1>3, <1>4, TreeAside

LEMMA SearchAside ==
  ASSUME AccessInv, UNCHANGED task, linked' \subseteq linked
  PROVE  SearchSound'
  BY AccessInvParts DEF SearchSound

LEMMA SearchOther ==
  ASSUME AccessInv, NEW t \in Tasks, NEW q, linked' \subseteq linked,
         \A x \in Tasks : task'[x] = IF x = t THEN q ELSE task[x],
         q.step = "search" => linked \subseteq q.todo \cup q.found \cup q.absent \cup q.late
  PROVE  SearchSound'
  BY AccessInvParts DEF SearchSound

LEMMA ForgetTyped ==
  ASSUME AccessTypeOK, NEW gs, Forget(gs), UNCHANGED directory, UNCHANGED treeVars,
         UNCHANGED crossed
  PROVE  AccessTypeOK' /\ linked' \subseteq linked /\ rows' \subseteq rows
  BY DEF AccessTypeOK, Forget, treeVars

LEMMA RuleRecord ==
  ASSUME NEW g \in Groups, NEW p \in Places, NEW read \in BOOLEAN
  PROVE  /\ [group |-> g, place |-> p, read |-> read] \in Rules
         /\ [group |-> g, place |-> p, read |-> read].group = g
         /\ [group |-> g, place |-> p, read |-> read].place = p
  BY DEF Rules

LEMMA CreateGroupKept ==
  ASSUME AccessInv, NEW g \in Groups, CreateGroup(g)
  PROVE  AccessInv'
<1> USE DEF CreateGroup
<1>1. AccessTypeOK'
  BY AccessInvParts DEF AccessTypeOK, treeVars
<1>2. SearchSound'
  BY SearchAside
<1> QED BY <1>1, <1>2, TasksAside, AccessInvBuilt

LEMMA ImportGroupKept ==
  ASSUME AccessInv, NEW g \in Groups, ImportGroup(g)
  PROVE  AccessInv'
<1> USE DEF ImportGroup
<1>1. AccessTypeOK'
  BY AccessInvParts DEF AccessTypeOK, treeVars
<1>2. task \in [Tasks -> TaskRecords] /\ \A t \in Tasks : Holds(task[t])
  BY AccessInvParts DEF TasksTyped
<1>3. ASSUME NEW t \in Tasks
      PROVE  /\ task'[t] \in TaskRecords /\ Holds(task'[t])
             /\ task'[t].cat = Unset \/ task'[t] = task[t]
             /\ task'[t].step = "search" =>
                  linked' \subseteq task'[t].todo \cup task'[t].found \cup task'[t].absent
                                    \cup task'[t].late
  <2>1. CASE Doing(t, "search")
    <3>1. task'[t] = [task[t] EXCEPT !.late = @ \cup {g}]
      BY <2>1
    <3>2. task[t] \in TaskRecords /\ Holds(task[t]) /\ task[t].step = "search"
      BY <1>2, <2>1 DEF Doing
    <3>3. task'[t] \in TaskRecords
      BY <3>1, <3>2 DEF TaskRecords
    <3>4. Holds(task'[t]) /\ task'[t].cat = Unset
      BY <3>1, <3>2 DEF TaskRecords, Holds
    <3>5. linked \subseteq task[t].todo \cup task[t].found \cup task[t].absent \cup task[t].late
      BY <3>2, AccessInvParts DEF SearchSound
    <3>6. /\ task'[t].todo = task[t].todo /\ task'[t].found = task[t].found
          /\ task'[t].absent = task[t].absent /\ task'[t].late = task[t].late \cup {g}
      BY <3>1, <3>2 DEF TaskRecords
    <3> QED BY <3>3, <3>4, <3>5, <3>6
  <2>2. CASE ~Doing(t, "search")
    BY <1>2, <2>2 DEF Doing
  <2> QED BY <2>1, <2>2
<1>4. task' \in [Tasks -> TaskRecords]
  BY <1>3
<1>5. SearchSound'
  BY <1>3 DEF SearchSound
<1>6. TasksTyped' /\ TreeRests' /\ FilingSound' /\ ReadsSound'
  BY <1>3, <1>4, TreeAside
<1> QED BY <1>1, <1>5, <1>6, AccessInvBuilt

LEMMA DeleteGroupsKept ==
  ASSUME AccessInv, NEW gs, DeleteGroups(gs)
  PROVE  AccessInv'
<1> USE DEF DeleteGroups
<1>1. AccessTypeOK' /\ linked' \subseteq linked /\ rows' \subseteq rows
  BY AccessInvParts, ForgetTyped
<1> QED BY <1>1, SearchAside, TasksAside, AccessInvBuilt

LEMMA SaveRuleKept ==
  ASSUME AccessInv, NEW g \in Groups, NEW p \in Places, NEW read \in BOOLEAN, SaveRule(g, p, read)
  PROVE  AccessInv'
<1> USE DEF SaveRule
<1> DEFINE rule == [group |-> g, place |-> p, read |-> read]
<1>1. rule \in Rules /\ rule.group = g /\ rule.place = p
  BY RuleRecord
<1>2. rules' = Others(g, p) \cup {rule}
  OBVIOUS
<1> HIDE DEF rule
<1>3. AccessTypeOK'
  BY <1>1, <1>2, AccessInvParts DEF AccessTypeOK, Others, treeVars
<1> QED BY <1>3, SearchAside, TasksAside, AccessInvBuilt

LEMMA EndRuleKept ==
  ASSUME AccessInv, NEW r, EndRule(r)
  PROVE  AccessInv'
<1> USE DEF EndRule
<1>1. AccessTypeOK'
  BY AccessInvParts DEF AccessTypeOK, treeVars
<1> QED BY <1>1, SearchAside, TasksAside, AccessInvBuilt

LEMMA GrantsKept ==
  ASSUME AccessInv, NEW g \in Groups, GrantAccess(g) \/ GrantEnds(g)
  PROVE  AccessInv'
<1> USE DEF GrantAccess, GrantEnds
<1>1. AccessTypeOK'
  BY AccessInvParts DEF AccessTypeOK, treeVars
<1> QED BY <1>1, SearchAside, TasksAside, AccessInvBuilt

LEMMA SetOwnerKept ==
  ASSUME AccessInv, NEW o, SetOwner(o)
  PROVE  AccessInv'
<1> USE DEF SetOwner
<1>1. AccessTypeOK'
  BY AccessInvParts DEF AccessTypeOK, treeVars
<1> QED BY <1>1, SearchAside, TasksAside, AccessInvBuilt

LEMMA DirectoryKept ==
  ASSUME AccessInv, NEW g \in Groups, DirectoryChanges(g)
  PROVE  AccessInv'
<1> USE DEF DirectoryChanges, groupVars
<1>1. AccessTypeOK'
  BY AccessInvParts DEF AccessTypeOK, treeVars
<1> QED BY <1>1, SearchAside, TasksAside, AccessInvBuilt

LEMMA StartSyncKept ==
  ASSUME AccessInv, NEW t \in Tasks, StartSync(t)
  PROVE  AccessInv'
<1> USE DEF StartSync, groupVars
<1>1. AccessTypeOK'
  BY AccessInvParts DEF AccessTypeOK, treeVars
<1>2. PICK q : q = [NoTask EXCEPT !.step = "search", !.todo = linked]
  OBVIOUS
<1>3. linked \subseteq Groups
  BY AccessInvParts DEF AccessTypeOK
<1>4. q \in TaskRecords /\ Holds(q) /\ q.cat = Unset /\ linked \subseteq q.todo
  BY <1>2, <1>3 DEF NoTask, TaskRecords, Holds
<1>5. /\ TasksTyped' /\ TreeRests' /\ FilingSound' /\ ReadsSound'
      /\ \A x \in Tasks : task'[x] = IF x = t THEN q ELSE task[x]
  BY <1>2, <1>4, ProceedAside
<1>6. SearchSound'
  BY <1>4, <1>5, SearchOther
<1> QED BY <1>1, <1>5, <1>6, AccessInvBuilt

LEMMA SearchKept ==
  ASSUME AccessInv, NEW t \in Tasks, NEW g \in Groups, Search(t, g)
  PROVE  AccessInv'
<1> USE DEF groupVars
<1>1. /\ task[t].step = "search" /\ UNCHANGED treeVars /\ UNCHANGED groupVars
      /\ UNCHANGED <<directory, crossed>>
  BY DEF Search, Doing
<1>2. AccessTypeOK'
  BY <1>1, AccessInvParts DEF AccessTypeOK, treeVars
<1>3. task[t] \in TaskRecords /\ Holds(task[t])
  BY AccessInvParts DEF TasksTyped
<1>4. linked \subseteq task[t].todo \cup task[t].found \cup task[t].absent \cup task[t].late
  BY <1>1, AccessInvParts DEF SearchSound
<1>5. PICK q : /\ Proceed(t, q)
               /\ \/ q = NoTask
                  \/ q = [task[t] EXCEPT !.todo = @ \ {g}, !.found = @ \cup {g}]
                  \/ q = [task[t] EXCEPT !.todo = @ \ {g}, !.absent = @ \cup {g}]
  BY DEF Search, Unanswered
<1>6. /\ q \in TaskRecords /\ Holds(q) /\ q.cat = Unset
      /\ q.step = "search" => linked \subseteq q.todo \cup q.found \cup q.absent \cup q.late
  <2>1. CASE q = NoTask
    BY <2>1, NoTaskTyped DEF NoTask
  <2>2. CASE q = [task[t] EXCEPT !.todo = @ \ {g}, !.found = @ \cup {g}]
    BY <1>1, <1>3, <1>4, <2>2 DEF TaskRecords, Holds
  <2>3. CASE q = [task[t] EXCEPT !.todo = @ \ {g}, !.absent = @ \cup {g}]
    BY <1>1, <1>3, <1>4, <2>3 DEF TaskRecords, Holds
  <2> QED BY <1>5, <2>1, <2>2, <2>3
<1>7. /\ TasksTyped' /\ TreeRests' /\ FilingSound' /\ ReadsSound'
      /\ \A x \in Tasks : task'[x] = IF x = t THEN q ELSE task[x]
  BY <1>1, <1>5, <1>6, ProceedAside
<1>8. SearchSound'
  BY <1>1, <1>6, <1>7, SearchOther
<1> QED BY <1>2, <1>7, <1>8, AccessInvBuilt

LEMMA RemoveStaleKept ==
  ASSUME AccessInv, NEW t \in Tasks, RemoveStale(t)
  PROVE  AccessInv'
<1> USE DEF RemoveStale
<1>1. AccessTypeOK' /\ linked' \subseteq linked /\ rows' \subseteq rows
  BY AccessInvParts, ForgetTyped
<1>2. NoTask.cat = Unset /\ NoTask.step # "search"
  BY DEF NoTask
<1>3. /\ TasksTyped' /\ TreeRests' /\ FilingSound' /\ ReadsSound'
      /\ \A x \in Tasks : task'[x] = IF x = t THEN NoTask ELSE task[x]
  BY <1>1, <1>2, NoTaskTyped, ProceedAside
<1>4. SearchSound'
  BY <1>1, <1>2, <1>3, SearchOther
<1> QED BY <1>1, <1>3, <1>4, AccessInvBuilt

(***************************************************************************)
(* The theorems                                                            *)
(***************************************************************************)

LEMMA AccessKept ==
  ASSUME AccessInv, [AccessNext]_accessVars
  PROVE  AccessInv'
<1>1. CASE AccessNext
  <2>1. CASE \/ \E t \in Tasks, p \in Places : CheckCreate(t, p)
             \/ \E t \in Tasks, c \in Categories : WriteCreate(t, c)
    BY <2>1, CheckCreateKept, WriteCreateKept
  <2>2. CASE \E t \in Tasks, c \in Categories, p \in Places : CheckParent(t, c, p)
    BY <2>2, CheckParentKept
  <2>3. CASE \E t \in Tasks, c \in Categories : CheckDelete(t, c)
    BY <2>3, CheckDeleteKept
  <2>4. CASE \E t \in Tasks, p \in Places : CheckFile(t, p)
    BY <2>4, CheckFileKept
  <2>5. CASE \E t \in Tasks : WriteParent(t) \/ WriteDelete(t) \/ WriteFile(t)
    BY <2>5, WriteParentKept, WriteDeleteKept, WriteFileKept
  <2>6. CASE \E g \in Groups : CreateGroup(g) \/ ImportGroup(g) \/ GrantAccess(g)
                                 \/ GrantEnds(g) \/ DirectoryChanges(g)
    BY <2>6, CreateGroupKept, ImportGroupKept, GrantsKept, DirectoryKept
  <2>7. CASE \E gs \in SUBSET rows : DeleteGroups(gs)
    BY <2>7, DeleteGroupsKept
  <2>8. CASE \E g \in Groups, p \in Places, read \in BOOLEAN : SaveRule(g, p, read)
    BY <2>8, SaveRuleKept
  <2>9. CASE (\E r \in rules : EndRule(r)) \/ (\E o \in Groups \cup {Unset} : SetOwner(o))
    BY <2>9, EndRuleKept, SetOwnerKept
  <2>10. CASE \E t \in Tasks : StartSync(t) \/ RemoveStale(t)
    BY <2>10, StartSyncKept, RemoveStaleKept
  <2>11. CASE \E t \in Tasks, g \in Groups : Search(t, g)
    BY <2>11, SearchKept
  <2> QED BY <1>1, <2>1, <2>2, <2>3, <2>4, <2>5, <2>6, <2>7, <2>8, <2>9, <2>10, <2>11
          DEF AccessNext
<1>2. CASE UNCHANGED accessVars
  <2>1. /\ UNCHANGED treeVars /\ UNCHANGED crossed /\ UNCHANGED task /\ UNCHANGED directory
        /\ rows' = rows /\ linked' = linked /\ rules' = rules /\ grants' = grants /\ owner' = owner
    BY <1>2 DEF accessVars, treeVars
  <2>2. AccessTypeOK'
    BY <2>1, AccessInvParts DEF AccessTypeOK, treeVars
  <2> QED BY <2>1, <2>2, SearchAside, TasksAside, AccessInvBuilt
<1> QED BY <1>1, <1>2

LEMMA AccessInvAlways == AccessSpec => []AccessInv
<1>1. AccessInv /\ [AccessNext]_accessVars => AccessInv'
  BY AccessKept
<1> QED BY AccessInitially, <1>1, PTL DEF AccessSpec

LEMMA InvDecides == AccessInv => NearestRuleDecides
<1>1. ASSUME AccessInv PROVE crossed \/ Tree
  BY <1>1, AccessInvParts, TreeWhenUncrossed
<1> QED BY <1>1, TreeDecides

\* The rows of the tables keep their types and refer to groups that exist
\* (controllers.ts and directory.service.ts): a group never leaves a rule, a grant or
\* an ownership behind.
THEOREM AccessTypeCorrect == AccessSpec => []AccessTypeOK
<1>1. AccessInv => AccessTypeOK
  BY DEF AccessInv
<1> QED BY <1>1, AccessInvAlways, PTL

\* The categories form a tree under the space and the document is filed in it
\* (controllers.ts, createCategory, updateCategory and deleteCategory), whatever the
\* categories and the requests, as long as no change is written over one it did not
\* see: it is the overlap of two changes, and nothing else, that makes a cycle or
\* leaves a category or a document under a deleted one.
THEOREM FilingAlwaysSound == AccessSpec => []FilingSound
<1>1. AccessInv => FilingSound
  BY DEF AccessInv
<1> QED BY <1>1, AccessInvAlways, PTL

\* The walk of resolveCategories gives what the nearest rule says
\* (category-permissions.ts), for every tree and every set of groups, until a change
\* of the tree is written over one it did not see.
THEOREM NearestRuleAlwaysDecides == AccessSpec => []NearestRuleDecides
  BY InvDecides, AccessInvAlways, PTL

\* What the end of a rule or a grant, or a synchronization, may do to the rows.
Shrink ==
  /\ parent' = parent /\ rules' \subseteq rules /\ grants' \subseteq grants
  /\ owner' \in {owner, Unset} /\ crossed' = crossed
  /\ rows = {} => rules' = rules /\ grants' = grants /\ owner' = owner

LEMMA EndsShrink ==
  ASSUME AccessInv, Ends
  PROVE  Shrink
<1> USE AccessInvParts DEF Shrink, treeVars
<1>1. CASE \E r \in rules : EndRule(r)
  BY <1>1 DEF EndRule, AccessTypeOK
<1>2. CASE \E g \in Groups : GrantEnds(g)
  BY <1>2 DEF GrantEnds, AccessTypeOK
<1>3. CASE \E t \in Tasks : RemoveStale(t)
  BY <1>3 DEF RemoveStale, Forget, AccessTypeOK
<1> QED BY <1>1, <1>2, <1>3 DEF Ends

LEMMA DecidesByRule ==
  ASSUME NearestRuleDecides, ~crossed, NEW G \in SUBSET Groups, NEW c \in Live
  PROVE  Resolve(G, c) <=> ByRule(G, c)
  BY DEF NearestRuleDecides, ByRule, Nearest, Ruled

LEMMA DecidesByRuleAfter ==
  ASSUME NearestRuleDecides', ~crossed', NEW G \in SUBSET Groups, NEW c \in Live'
  PROVE  Resolve(G, c)' <=> ByRule(G, c)'
  BY DEF NearestRuleDecides, ByRule, Nearest, Ruled

\* Fewer rules grant no more, where each category keeps a rule if it had one.
LEMMA FewerRules ==
  ASSUME Shrink, NEW G \in SUBSET Groups, NEW p \in Live,
         \A c \in Branch(p) \cap Live : Overrides(c) => Overrides(c)', ByRule(G, p)'
  PROVE  ByRule(G, p)
<1>1. parent' = parent /\ rules' \subseteq rules /\ grants' \subseteq grants
      /\ owner' \in {owner, Unset} /\ Unset \notin G
  BY AccessAssumption DEF Shrink
<1>2. Live' = Live /\ \A c : Branch(c)' = Branch(c)
  BY <1>1, TreeUntouched
<1>3. \A c : Overrides(c)' => Overrides(c)
  BY <1>1 DEF Overrides
<1>4. RootAllowed(G)' => RootAllowed(G)
  BY <1>1 DEF RootAllowed
<1>5. \A c : Grants(G, c)' => Grants(G, c)
  BY <1>1 DEF Grants
<1>6. Ruled(p)' = Ruled(p)
  BY <1>2, <1>3 DEF Ruled
<1>7. Nearest(p)' = Nearest(p)
  BY <1>2, <1>6 DEF Nearest
<1> QED BY <1>4, <1>5, <1>6, <1>7 DEF ByRule

LEMMA WidensOnlyByInheritance ==
  ASSUME AccessInv, NearestRuleDecides, NearestRuleDecides', Ends,
         NEW G \in SUBSET Groups, NEW p \in Live \cup {Root}, ~MayRead(G, p), MayRead(G, p)'
  PROVE  \E c \in Branch(p) \cap Live : Overrides(c) /\ ~Overrides(c)'
<1> SUFFICES ASSUME \A c \in Branch(p) \cap Live : Overrides(c) => Overrides(c)' PROVE FALSE
  OBVIOUS
<1>1. Shrink
  BY EndsShrink
<1>2. parent' = parent /\ rules' \subseteq rules /\ grants' \subseteq grants
      /\ owner' \in {owner, Unset} /\ Unset \notin G
  BY <1>1, AccessAssumption DEF Shrink
<1>3. Live' = Live
  BY <1>2, TreeUntouched
<1>4. p \in Live /\ p # Root /\ owner \notin G /\ Resolve(G, p)' /\ ~Resolve(G, p)
  <2>1. RootAllowed(G)' => RootAllowed(G)
    BY <1>2 DEF RootAllowed
  <2>2. p # Root
    BY <2>1 DEF MayRead
  <2> QED BY <1>2, <2>2 DEF MayRead
<1>5. CASE rows = {}
  <2>1. rules' = rules /\ grants' = grants /\ owner' = owner
    BY <1>1, <1>5 DEF Shrink
  <2>2. Resolve(G, p)' = Resolve(G, p)
    BY <1>2, <2>1 DEF Resolve, RootAllowed, Present, Overrides, Grants
  <2> QED BY <1>4, <2>2
<1>6. CASE rows # {}
  <2>1. ~crossed /\ ~crossed'
    BY <1>1, <1>6, AccessInvParts DEF TreeRests, Shrink
  <2>2. ByRule(G, p)'
    BY <1>3, <1>4, <2>1, DecidesByRuleAfter
  <2>3. ByRule(G, p)
    BY <1>1, <1>4, <2>2, FewerRules
  <2> QED BY <1>4, <2>1, <2>3, DecidesByRule
<1> QED BY <1>5, <1>6

LEMMA SyncOnlyAbsent ==
  ASSUME AccessInv
  PROVE  SyncRemovesAbsent
<1> SUFFICES ASSUME NEW t \in Tasks, RemoveStale(t)
             PROVE  linked \ linked' \subseteq task[t].absent \cup task[t].late
  BY DEF SyncRemovesAbsent
<1>1. task[t].step = "search" /\ task[t].todo = {} /\ linked' = linked \ (linked \ task[t].found)
  BY DEF RemoveStale, Doing, Forget
<1>2. linked \subseteq task[t].todo \cup task[t].found \cup task[t].absent \cup task[t].late
  BY <1>1, AccessInvParts DEF SearchSound
<1> QED BY <1>1, <1>2

\* A synchronization costs no group its rules that the directory has, and the end of a
\* rule, a grant or a group opens a category to nobody but by inheritance
\* (directory.service.ts, synchronize; authorization.service.ts, permittedSpacesFor).
THEOREM RemovalsAlwaysSound == AccessSpec => RemovalsSound
<1>1. ASSUME AccessInv, NearestRuleDecides, NearestRuleDecides'
      PROVE  [SyncRemovesAbsent /\ OnlyLastRuleWidens]_accessVars
  <2>1. SyncRemovesAbsent
    BY <1>1, SyncOnlyAbsent
  <2>2. OnlyLastRuleWidens
    BY <1>1, WidensOnlyByInheritance DEF OnlyLastRuleWidens
  <2> QED BY <2>1, <2>2
<1> QED BY <1>1, InvDecides, AccessInvAlways, PTL DEF AccessSpec, RemovalsSound

=============================================================================
