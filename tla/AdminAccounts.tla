---------------------------- MODULE AdminAccounts ----------------------------
(***************************************************************************)
(* One local account of the administration: how it is created with the     *)
(* approval of a second administrator, how its holder logs in, is locked   *)
(* out, changes the password and sets up a second factor, and how the      *)
(* other administrators disable it, remove it and revoke its sessions      *)
(* (auth.service.ts, auth.controller.ts, sensitive-approval.service.ts).   *)
(*                                                                         *)
(* No handler runs in a transaction: each statement is a step of its own,  *)
(* and requests overlap.  A row that is read is kept by the request, and   *)
(* what is written later is computed from that copy.                       *)
(*                                                                         *)
(* The other accounts are the set Admins, of at least two, active and in   *)
(* their validity window: with them the approval gate of a new             *)
(* administrator is always closed.                                         *)
(***************************************************************************)
EXTENDS Integers, FiniteSets

CONSTANTS
  Admins,       \* the other administrators
  Ids,          \* ids of the account's row: it may be removed and created again
  Passwords,
  Secrets,      \* TOTP secrets drawn by the set-ups (bounds their number)
  Tokens,       \* sessions (bounds the number of live ones)
  Slots,        \* requests served at the same time
  MaxFailures,  \* 5 in login
  None

ASSUME AccountsAssumption ==
  /\ Cardinality(Admins) >= 2 /\ None \notin Admins \cup Ids \cup Passwords \cup Secrets
  /\ MaxFailures \in 1 .. 5

VARIABLES
  row,        \* the account under each id
  sessions,   \* the AdminSession row of each token
  approval,   \* the BROAD_PRIVILEGE request for the account
  req,        \* the request served in each slot
  drawn,      \* secrets drawn so far
  proven,     \* secrets whose holder gave a valid code (history)
  guesses,    \* wrong passwords counted since the last success or lock (history)
  raced,      \* a count was written from a stale copy (history)
  blind       \* rows whose factor was enabled with another secret (history)

history == <<proven, guesses, raced, blind>>
vars == <<row, sessions, approval, req, drawn, proven, guesses, raced, blind>>

NoRow == [state |-> "none", active |-> FALSE, inWindow |-> FALSE,
          password |-> None, secret |-> None, mfa |-> FALSE, failed |-> 0,
          locked |-> FALSE, by |-> None, approver |-> None]
RowType == [state : {"none", "there", "gone"}, active : BOOLEAN,
            inWindow : BOOLEAN, password : Passwords \cup {None},
            secret : Secrets \cup {None}, mfa : BOOLEAN, failed : 0 .. MaxFailures - 1,
            locked : BOOLEAN, by : Admins \cup {None}, approver : Admins \cup {None}]

NoSession == [id |-> None, password |-> None, late |-> FALSE]
NoApproval == [status |-> "none", by |-> None, approver |-> None]
Steps == {"idle", "login", "loginOk", "password", "passwordSet", "confirm",
          "disabled", "gate", "created"}
Idle == [step |-> "idle", id |-> None, valid |-> FALSE, typed |-> None, failed |-> 0,
         mfa |-> FALSE, secret |-> None, by |-> None]

There(i) == row[i].state = "there"
Current == {i \in Ids : There(i)}
At(s, step) == req[s].step = step
Goto(s, r) == req' = [req EXCEPT ![s] = r]
Drop(tokens) == sessions' = [t \in Tokens |-> IF t \in tokens THEN NoSession
                                              ELSE sessions[t]]
Of(i) == {t \in Tokens : sessions[t].id = i}

\* The system after a first start: onModuleInit made the primary administrator,
\* who made the others.
Init ==
  /\ row = [i \in Ids |-> NoRow]
  /\ sessions = [t \in Tokens |-> NoSession]
  /\ approval = NoApproval
  /\ req = [s \in Slots |-> Idle]
  /\ drawn = {} /\ proven = {} /\ blind = {}
  /\ guesses = 0 /\ raced = FALSE

-----------------------------------------------------------------------------
(* Creating the account *)

\* Bound: no approval is requested for an account that is there.
Before == Current = {}

\* SensitiveApprovalService.require: without an approval for its author one is
\* requested, once.
Create(s, a) ==
  /\ At(s, "idle")
  /\ \/ /\ approval.status = "APPROVED" /\ approval.by = a
        /\ Goto(s, [Idle EXCEPT !.step = "gate", !.by = a, !.typed = approval.approver])
        /\ UNCHANGED approval
     \/ /\ approval.status \in {"none", "REJECTED", "EXECUTED"} /\ Before
        /\ approval' = [status |-> "PENDING", by |-> a, approver |-> None]
        /\ UNCHANGED req
  /\ UNCHANGED <<row, sessions, drawn>> /\ UNCHANGED history

\* Fault: the requester may decide.
Decidable_Anyone(a) == approval.status = "PENDING"

Decidable(a) == approval.status = "PENDING" /\ approval.by # a

\* ApprovalsController.decide
Decide(a, verdict) ==
  /\ Decidable(a)
  /\ approval' = [approval EXCEPT !.status = verdict, !.approver = a]
  /\ UNCHANGED <<row, sessions, req, drawn>> /\ UNCHANGED history

\* The insertion fails when the user name is taken.  The row keeps who asked and who
\* approved.
InsertAccount(s) ==
  /\ At(s, "gate")
  /\ IF Current = {}
     THEN \E i \in Ids, p \in Passwords :
            /\ row[i].state = "none"
            /\ row' = [row EXCEPT ![i] =
                 [NoRow EXCEPT !.state = "there", !.active = TRUE, !.inWindow = TRUE,
                               !.password = p, !.by = req[s].by,
                               !.approver = req[s].typed]]
            /\ Goto(s, [Idle EXCEPT !.step = "created"])
            /\ guesses' = 0 /\ raced' = FALSE
     ELSE Goto(s, Idle) /\ UNCHANGED <<row, guesses, raced>>
  /\ UNCHANGED <<sessions, approval, drawn, proven, blind>>

\* SensitiveApprovalService.execute
Execute(s) ==
  /\ At(s, "created")
  /\ approval' = [approval EXCEPT !.status = "EXECUTED"]
  /\ Goto(s, Idle)
  /\ UNCHANGED <<row, sessions, drawn>> /\ UNCHANGED history

-----------------------------------------------------------------------------
(* Logging in *)

Valid(r, p) == r.active /\ r.inWindow /\ r.password = p

\* The account is read, a locked one refused, and the password compared with the
\* hash that was read.
ReadAccount(s, i, p) ==
  /\ At(s, "idle") /\ There(i) /\ ~row[i].locked
  /\ Goto(s, [Idle EXCEPT !.step = "login", !.id = i, !.typed = p,
                           !.valid = Valid(row[i], p), !.failed = row[i].failed,
                           !.mfa = row[i].mfa])
  /\ UNCHANGED <<row, sessions, approval, drawn>> /\ UNCHANGED history

\* Fault: the count stays what it was.
NewCount_Same(r) == r.failed

NewCount(r) == r.failed + 1

Locks(r) == NewCount(r) >= MaxFailures

\* A wrong password: the count of the copy plus one is written, and the lock is
\* set or removed with it.  The row may be gone.
CountFailure(s) ==
  /\ At(s, "login") /\ ~req[s].valid
  /\ LET i == req[s].id IN
     IF There(i)
     THEN /\ row' = [row EXCEPT
               ![i].failed = IF Locks(req[s]) THEN 0 ELSE NewCount(req[s]),
               ![i].locked = Locks(req[s])]
          /\ raced' = (raced \/ row[i].failed # req[s].failed \/ row[i].locked)
          /\ guesses' = IF Locks(req[s]) \/ raced' \/ guesses = MaxFailures THEN 0
                        ELSE guesses + 1
     ELSE UNCHANGED <<row, guesses, raced>>
  /\ Goto(s, Idle)
  /\ UNCHANGED <<sessions, approval, drawn, proven, blind>>

\* The right password and, when the copy asks for it, a code of its secret: the
\* count and the lock are cleared.  Without the code nothing changes.
ClearFailures(s, code) ==
  /\ At(s, "login") /\ req[s].valid
  /\ LET i == req[s].id IN
     IF (req[s].mfa => code) /\ There(i)
     THEN /\ row' = [row EXCEPT ![i].failed = 0, ![i].locked = FALSE]
          /\ guesses' = 0
          /\ raced' = (raced \/ row[i].locked)
          /\ Goto(s, [req[s] EXCEPT !.step = "loginOk"])
     ELSE Goto(s, Idle) /\ UNCHANGED <<row, guesses, raced>>
  /\ UNCHANGED <<sessions, approval, drawn, proven, blind>>

\* The session names the account's row, which may be gone.  It is late when the
\* account was disabled, or its password changed, since it was read.
CreateSession(s) ==
  /\ At(s, "loginOk")
  /\ LET i == req[s].id IN
     IF There(i)
     THEN \E t \in Tokens :
            /\ sessions[t] = NoSession
            /\ sessions' = [sessions EXCEPT ![t] =
                 [id |-> i, password |-> req[s].typed,
                  late |-> ~row[i].active \/ row[i].password # req[s].typed]]
     ELSE UNCHANGED sessions
  /\ Goto(s, Idle)
  /\ UNCHANGED <<row, approval, drawn>> /\ UNCHANGED history

\* adminSessionIdentity: what lets a request in.
Usable(t) ==
  /\ sessions[t] # NoSession
  /\ row[sessions[t].id].active /\ row[sessions[t].id].inWindow

\* logout, an administrator's revokeSession, or the end of the eight hours and the
\* purge of expired rows at a start.
EndSession(t) ==
  /\ sessions[t] # NoSession
  /\ Drop({t})
  /\ UNCHANGED <<row, approval, req, drawn>> /\ UNCHANGED history

-----------------------------------------------------------------------------
(* The holder's own account *)

\* The current password is checked.
CheckPassword(s, t) ==
  /\ At(s, "idle") /\ Usable(t)
  /\ LET i == sessions[t].id IN
     Goto(s, [Idle EXCEPT !.step = "password", !.id = i])
  /\ UNCHANGED <<row, sessions, approval, drawn>> /\ UNCHANGED history

\* Fault: the sessions are left alone.
AfterPassword_Nothing(s) == Idle

AfterPassword(s) == [Idle EXCEPT !.step = "passwordSet", !.id = req[s].id]

WritePassword(s, p) ==
  /\ At(s, "password")
  /\ LET i == req[s].id IN
     IF There(i)
     THEN /\ row' = [row EXCEPT ![i].password = p]
          /\ Goto(s, AfterPassword(s))
     ELSE Goto(s, Idle) /\ UNCHANGED row
  /\ UNCHANGED <<sessions, approval, drawn>> /\ UNCHANGED history

\* After a new password, and after a disabling: deleteMany on the account's sessions.
DeleteSessions(s) ==
  /\ req[s].step \in {"passwordSet", "disabled"}
  /\ Drop(Of(req[s].id))
  /\ Goto(s, Idle)
  /\ UNCHANGED <<row, approval, drawn>> /\ UNCHANGED history

\* Fault: the factor stays enabled while its secret is replaced.
SetupRow_Enabled(r, k) == [r EXCEPT !.secret = k]

SetupRow(r, k) == [r EXCEPT !.secret = k, !.mfa = FALSE]

SetupMfa(t) ==
  /\ Usable(t)
  /\ \E k \in Secrets \ drawn :
       /\ drawn' = drawn \cup {k}
       /\ row' = [row EXCEPT ![sessions[t].id] = SetupRow(@, k)]
  /\ UNCHANGED <<sessions, approval, req>> /\ UNCHANGED history

\* A code of the secret that was read is checked.
CheckCode(s, t) ==
  /\ At(s, "idle") /\ Usable(t)
  /\ LET i == sessions[t].id IN
     /\ row[i].secret # None
     /\ proven' = proven \cup {row[i].secret}
     /\ Goto(s, [Idle EXCEPT !.step = "confirm", !.id = i, !.secret = row[i].secret])
  /\ UNCHANGED <<row, sessions, approval, drawn, guesses, raced, blind>>

\* The update names the row only, whatever its secret is by now.
EnableMfa(s) ==
  /\ At(s, "confirm")
  /\ LET i == req[s].id IN
     IF There(i)
     THEN /\ row' = [row EXCEPT ![i].mfa = TRUE]
          /\ blind' = IF row[i].secret = req[s].secret THEN blind \ {i}
                      ELSE blind \cup {i}
     ELSE UNCHANGED <<row, blind>>
  /\ Goto(s, Idle)
  /\ UNCHANGED <<sessions, approval, drawn, proven, guesses, raced>>

DisableMfa(t) ==
  /\ Usable(t)
  /\ row' = [row EXCEPT ![sessions[t].id].mfa = FALSE, ![sessions[t].id].secret = None]
  /\ UNCHANGED <<sessions, approval, req, drawn>> /\ UNCHANGED history

-----------------------------------------------------------------------------
(* What the other administrators do with it *)

\* Fault: the sessions wait for their end.
AfterDisable_Nothing(i) == Idle

AfterDisable(i) == [Idle EXCEPT !.step = "disabled", !.id = i]

\* setActive: disabling is followed by the deletion of the sessions.
SetActive(s, i, value) ==
  /\ At(s, "idle") /\ There(i)
  /\ row' = [row EXCEPT ![i].active = value]
  /\ Goto(s, IF value THEN Idle ELSE AfterDisable(i))
  /\ UNCHANGED <<sessions, approval, drawn>> /\ UNCHANGED history

\* remove: the sessions go with the row.
Remove(i) ==
  /\ There(i)
  /\ row' = [row EXCEPT ![i] = [NoRow EXCEPT !.state = "gone"]]
  /\ Drop(Of(i))
  /\ UNCHANGED <<approval, req, drawn>> /\ UNCHANGED history

-----------------------------------------------------------------------------
(* Time *)

\* Fifteen minutes pass, or validUntil does.
TimePasses(i) ==
  /\ There(i)
  /\ \/ row[i].locked /\ row' = [row EXCEPT ![i].locked = FALSE]
     \/ row[i].inWindow /\ row' = [row EXCEPT ![i].inWindow = FALSE]
  /\ UNCHANGED <<sessions, approval, req, drawn>> /\ UNCHANGED history

-----------------------------------------------------------------------------
Next ==
  \/ \E s \in Slots, a \in Admins : Create(s, a)
  \/ \E a \in Admins, v \in {"APPROVED", "REJECTED"} : Decide(a, v)
  \/ \E s \in Slots : InsertAccount(s) \/ Execute(s)
  \/ \E s \in Slots, i \in Ids, p \in Passwords : ReadAccount(s, i, p)
  \/ \E s \in Slots : CountFailure(s) \/ CreateSession(s) \/ DeleteSessions(s)
                        \/ EnableMfa(s)
  \/ \E s \in Slots, code \in BOOLEAN : ClearFailures(s, code)
  \/ \E t \in Tokens : EndSession(t) \/ SetupMfa(t) \/ DisableMfa(t)
  \/ \E s \in Slots, t \in Tokens : CheckPassword(s, t) \/ CheckCode(s, t)
  \/ \E s \in Slots, p \in Passwords : WritePassword(s, p)
  \/ \E s \in Slots, i \in Ids, v \in BOOLEAN : SetActive(s, i, v)
  \/ \E i \in Ids : Remove(i) \/ TimePasses(i)

Spec == Init /\ [][Next]_vars

-----------------------------------------------------------------------------
(* Properties *)

\* The types of the account and of the requests.  The counter of failures stays below
\* the number at which the account is locked and the counter reset.
TypeOK ==
  /\ row \in [Ids -> RowType]
  /\ \A t \in Tokens : sessions[t] # NoSession => There(sessions[t].id)
  /\ approval.status \in {"none", "PENDING", "APPROVED", "REJECTED", "EXECUTED"}
  /\ \A s \in Slots : req[s].step \in Steps /\ (At(s, "gate") => req[s].by \in Admins)
  /\ drawn \subseteq Secrets /\ proven \subseteq drawn

Deleting(i) == \E s \in Slots : req[s].step \in {"passwordSet", "disabled"} /\ req[s].id = i

\* A new password ends the sessions opened with an older one
\* (auth.controller.ts, password): one remains only while the request is on its way
\* to delete it, or when its login had checked the old password before the change.
NewPasswordEndsSessions ==
  \A t \in Tokens : sessions[t] # NoSession =>
    LET i == sessions[t].id IN
    \/ sessions[t].password = row[i].password
    \/ sessions[t].late \/ Deleting(i)

\* A disabled account keeps no session that would serve again once it is enabled
\* (auth.controller.ts, setActive), with the same reservations.
DisabledKeepsNoSession ==
  \A t \in Tokens : sessions[t] # NoSession =>
    LET i == sessions[t].id IN
    \/ row[i].active
    \/ sessions[t].late \/ Deleting(i)

\* Five wrong passwords lock the account (auth.service.ts, login), as long as no
\* login wrote a count it had read before another one changed it.
FailuresLock == raced \/ guesses < MaxFailures

\* The second factor in force is one whose holder has shown a valid code
\* (auth.controller.ts, confirmMfa), unless it was set up again, or removed, between
\* the check and the update.
FactorProven ==
  \A i \in Current : row[i].mfa => row[i].secret \in proven \/ i \in blind

\* An administrator's account was approved by somebody else than the one who asked
\* for it (auth.controller.ts, create).
ApprovedByAnother ==
  \A i \in Current : row[i].approver \in Admins \ {row[i].by}

\* A new password and a disabling end the sessions opened before.
ChangesEndSessions == NewPasswordEndsSessions /\ DisabledKeepsNoSession

\* What a login is held against can be relied on: failures lock, and the second
\* factor is one its holder has.
LoginGuarded == FailuresLock /\ FactorProven
=============================================================================
