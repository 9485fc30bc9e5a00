------------------------ MODULE NotificationDelivery ------------------------
(***************************************************************************)
(* E-mail notifications: the transactional outbox, its dispatch to the     *)
(* BullMQ queue by the scheduler tick, and the mail workers that send one  *)
(* message per recipient (audit-event.ts, notification-outbox.ts,          *)
(* notification.service.ts, worker.ts).                                    *)
(*                                                                         *)
(* BullMQ and the mail transport are external: a job is added under the    *)
(* audit event's id and an id already present is ignored; a failed attempt *)
(* is retried up to MaxAttempts times; a job whose worker died is given to *)
(* another one once; old finished jobs are forgotten.                      *)
(***************************************************************************)
EXTENDS Integers, FiniteSets

CONSTANTS
  Events,        \* audit events with a notification; also outbox and job ids
  Recipients,
  Workers,       \* worker processes, each with one mail worker (concurrency 1)
  Nobody,
  MaxAttempts,   \* attempts of a job (4)
  MaxFaults      \* bound on crashes, outages and lost answers

ASSUME DeliveryAssumption ==
  /\ Nobody \notin Recipients \cup Events
  /\ MaxAttempts \in Nat \ {0} /\ MaxFaults \in Nat

VARIABLES
  outbox,    \* NotificationOutbox row: "none", "pending", "waiting" (nextAttemptAt
             \* is in the future), "queued" (queuedAt), "removed"
  enabled,   \* documentEventEnabled: the policy for this event's action
  dispatch,  \* per worker: its dispatchOutbox
  job,       \* BullMQ state: "none", "waiting", "delayed", "active", "completed", "failed"
  attempts,  \* job.attemptsMade
  stalled,   \* whether the job was already taken back from a dead worker
  accepted,  \* job.data.accepted
  mailer,    \* per worker: NotificationService.process
  result,    \* outcome of the event: "none", "disabled", "skipped", "sent", "failed"
  audience,  \* the audience of the attempt that completed
  mails,     \* messages the transport accepted, per event and recipient
  lost,      \* effects for this event that a fault hid from the application
  faults     \* faults so far

outboxVars == <<outbox, enabled, dispatch>>
jobVars == <<job, attempts, stalled, accepted>>
vars == <<outbox, enabled, dispatch, job, attempts, stalled, accepted, mailer,
          result, audience, mails, lost, faults>>

Dispatches == [stage : {"idle", "list", "added"}, todo : SUBSET Events,
               event : Events \cup {Nobody}]
NoDispatch == [stage |-> "idle", todo |-> {}, event |-> Nobody]
Mailers == [stage : {"idle", "prepare", "send", "sent"}, event : Events \cup {Nobody},
            audience : SUBSET Recipients, todo : SUBSET Recipients,
            to : Recipients \cup {Nobody}]
NoMailer == [stage |-> "idle", event |-> Nobody, audience |-> {}, todo |-> {}, to |-> Nobody]

Init ==
  /\ outbox = [e \in Events |-> "none"]
  /\ enabled \in [Events -> BOOLEAN]
  /\ dispatch = [w \in Workers |-> NoDispatch]
  /\ job = [e \in Events |-> "none"]
  /\ attempts = [e \in Events |-> 0]
  /\ stalled = [e \in Events |-> FALSE]
  /\ accepted = [e \in Events |-> {}]
  /\ mailer = [w \in Workers |-> NoMailer]
  /\ result = [e \in Events |-> "none"]
  /\ audience = [e \in Events |-> {}]
  /\ mails = [e \in Events |-> [r \in Recipients |-> 0]]
  /\ lost = [e \in Events |-> 0]
  /\ faults = 0

\* A fault that leaves an effect of event e behind.
LostEffect(e) ==
  /\ faults < MaxFaults
  /\ faults' = faults + 1
  /\ lost' = [lost EXCEPT ![e] = @ + 1]

\* A fault without one.
PlainFault == faults < MaxFaults /\ faults' = faults + 1 /\ UNCHANGED lost

NoFault == UNCHANGED <<lost, faults>>

-----------------------------------------------------------------------------
(* The outbox *)

\* persistAudit: the outbox row is committed with the audit event.
PersistAudit(e) ==
  /\ outbox[e] = "none"
  /\ outbox' = [outbox EXCEPT ![e] = "pending"]
  /\ NoFault
  /\ UNCHANGED <<enabled, dispatch, mailer, result, audience, mails>>
  /\ UNCHANGED jobVars

\* An administrator changes the notification policy.
ChangePolicy(e) ==
  /\ enabled' = [enabled EXCEPT ![e] = ~@]
  /\ NoFault
  /\ UNCHANGED <<outbox, dispatch, mailer, result, audience, mails>>
  /\ UNCHANGED jobVars

\* Fault: rows already handed over are read instead of the pending ones.
Due_Queued(e) == outbox[e] = "queued"

Due(e) == outbox[e] = "pending"

\* The rows are read once per tick; the advisory lock admits one worker.
StartDispatch(w) ==
  /\ \A v \in Workers : dispatch[v] = NoDispatch
  /\ \E e \in Events : Due(e)
  /\ dispatch' = [dispatch EXCEPT ![w] =
                    [NoDispatch EXCEPT !.stage = "list", !.todo = {e \in Events : Due(e)}]]
  /\ NoFault
  /\ UNCHANGED <<outbox, enabled, mailer, result, audience, mails>>
  /\ UNCHANGED jobVars

\* Queue.add: an id the queue already knows is ignored.
Added(e) == job' = IF job[e] = "none" THEN [job EXCEPT ![e] = "waiting"] ELSE job

\* enqueue: nothing is added for an event whose policy is disabled.
Enqueue(w, e) ==
  /\ dispatch[w].stage = "list" /\ e \in dispatch[w].todo
  /\ IF enabled[e]
     THEN Added(e) /\ UNCHANGED result
     ELSE /\ result' = [result EXCEPT ![e] = "disabled"]
          /\ UNCHANGED job
  /\ dispatch' = [dispatch EXCEPT ![w].stage = "added", ![w].event = e]
  /\ NoFault
  /\ UNCHANGED <<outbox, enabled, attempts, stalled, accepted, mailer, audience, mails>>

\* An error of Redis, or of the update that marks the row, whether or not the job
\* was added: the row is postponed and the rest of the batch left to the next
\* tick ("break").
EnqueueFails(w, e) ==
  /\ dispatch[w].stage = "list" /\ e \in dispatch[w].todo /\ enabled[e]
  /\ \/ PlainFault /\ UNCHANGED job
     \/ LostEffect(e) /\ Added(e)
  /\ outbox' = [outbox EXCEPT ![e] = "waiting"]
  /\ dispatch' = [dispatch EXCEPT ![w] = NoDispatch]
  /\ UNCHANGED <<enabled, attempts, stalled, accepted, mailer, result, audience, mails>>

\* The row is marked once the job is in the queue.
MarkQueued(w) ==
  /\ dispatch[w].stage = "added"
  /\ outbox' = [outbox EXCEPT ![dispatch[w].event] = "queued"]
  /\ dispatch' = [dispatch EXCEPT ![w] =
                    [NoDispatch EXCEPT !.stage = "list",
                                       !.todo = dispatch[w].todo \ {dispatch[w].event}]]
  /\ NoFault
  /\ UNCHANGED <<enabled, mailer, result, audience, mails>>
  /\ UNCHANGED jobVars

EndDispatch(w) ==
  /\ dispatch[w].stage = "list" /\ dispatch[w].todo = {}
  /\ dispatch' = [dispatch EXCEPT ![w] = NoDispatch]
  /\ NoFault
  /\ UNCHANGED <<outbox, enabled, mailer, result, audience, mails>>
  /\ UNCHANGED jobVars

\* nextAttemptAt passes: the delay is 30 s doubled per attempt, at most an hour.
BackoffEnds(e) ==
  /\ outbox[e] = "waiting"
  /\ outbox' = [outbox EXCEPT ![e] = "pending"]
  /\ NoFault
  /\ UNCHANGED <<enabled, dispatch, mailer, result, audience, mails>>
  /\ UNCHANGED jobVars

\* maintainHistory: rows queued thirty days ago are deleted.
MaintainHistory(e) ==
  /\ outbox[e] = "queued"
  /\ outbox' = [outbox EXCEPT ![e] = "removed"]
  /\ NoFault
  /\ UNCHANGED <<enabled, dispatch, mailer, result, audience, mails>>
  /\ UNCHANGED jobVars

-----------------------------------------------------------------------------
(* The mail worker *)

Take(w, e) ==
  /\ mailer[w] = NoMailer /\ job[e] = "waiting"
  /\ job' = [job EXCEPT ![e] = "active"]
  /\ mailer' = [mailer EXCEPT ![w] = [NoMailer EXCEPT !.stage = "prepare", !.event = e]]
  /\ NoFault
  /\ UNCHANGED outboxVars
  /\ UNCHANGED <<attempts, stalled, accepted, result, audience, mails>>

\* Fault: one attempt too many.
Retryable_OneMore(n) == n <= MaxAttempts

Retryable(n) == n < MaxAttempts

\* The processor throws: the attempt counts, and the job is retried later or fails.
Throw(w, e) ==
  LET n == attempts[e] + 1 IN
  /\ attempts' = [attempts EXCEPT ![e] = n]
  /\ job' = [job EXCEPT ![e] = IF Retryable(n) THEN "delayed" ELSE "failed"]
  /\ result' = IF Retryable(n) THEN result ELSE [result EXCEPT ![e] = "failed"]
  /\ mailer' = [mailer EXCEPT ![w] = NoMailer]

\* Fault: the test on the accepted addresses is inverted.
Unsent_Inverted(found, e) == found \cap accepted[e]

\* The addresses an earlier attempt served are passed over.
Unsent(found, e) == found \ accepted[e]

\* prepare: the audience is looked up at every attempt; a resource that is no
\* longer eligible completes the job, an empty audience throws.
Prepare(w, found) ==
  LET e == mailer[w].event IN
  /\ mailer[w].stage = "prepare"
  /\ IF found = {}
     THEN Throw(w, e)
     ELSE /\ mailer' = [mailer EXCEPT ![w].stage = "send", ![w].audience = found,
                                      ![w].todo = Unsent(found, e)]
          /\ UNCHANGED <<attempts, job, result>>
  /\ NoFault
  /\ UNCHANGED outboxVars
  /\ UNCHANGED <<stalled, accepted, audience, mails>>

Skip(w) ==
  LET e == mailer[w].event IN
  /\ mailer[w].stage = "prepare"
  /\ job' = [job EXCEPT ![e] = "completed"]
  /\ result' = [result EXCEPT ![e] = "skipped"]
  /\ mailer' = [mailer EXCEPT ![w] = NoMailer]
  /\ NoFault
  /\ UNCHANGED outboxVars
  /\ UNCHANGED <<attempts, stalled, accepted, audience, mails>>

Delivered(e, r) == mails' = [mails EXCEPT ![e][r] = @ + 1]

\* sendPreferredTo: one message for one address.
Send(w, r) ==
  LET e == mailer[w].event IN
  /\ mailer[w].stage = "send" /\ r \in mailer[w].todo
  /\ Delivered(e, r)
  /\ mailer' = [mailer EXCEPT ![w].stage = "sent", ![w].to = r]
  /\ NoFault
  /\ UNCHANGED outboxVars /\ UNCHANGED jobVars
  /\ UNCHANGED <<result, audience>>

\* The transport refuses it, or its answer is lost.
SendFails(w, r) ==
  LET e == mailer[w].event IN
  /\ mailer[w].stage = "send" /\ r \in mailer[w].todo
  /\ \/ NoFault /\ UNCHANGED mails
     \/ LostEffect(e) /\ Delivered(e, r)
  /\ Throw(w, e)
  /\ UNCHANGED outboxVars
  /\ UNCHANGED <<stalled, accepted, audience>>

\* Fault: the accepted address is not stored.
Recorded_Dropped(e, r) == accepted[e]

Recorded(e, r) == accepted[e] \cup {r}

\* job.updateData: the address is stored before the next one is tried.
RecordAccepted(w) ==
  LET e == mailer[w].event IN
  /\ mailer[w].stage = "sent"
  /\ accepted' = [accepted EXCEPT ![e] = Recorded(e, mailer[w].to)]
  /\ mailer' = [mailer EXCEPT ![w].stage = "send",
                              ![w].todo = @ \ {mailer[w].to}, ![w].to = Nobody]
  /\ NoFault
  /\ UNCHANGED outboxVars
  /\ UNCHANGED <<job, attempts, stalled, result, audience, mails>>

\* updateData fails: the address was served and the job does not know it.
RecordFails(w) ==
  /\ mailer[w].stage = "sent"
  /\ LostEffect(mailer[w].event)
  /\ Throw(w, mailer[w].event)
  /\ UNCHANGED outboxVars
  /\ UNCHANGED <<stalled, accepted, audience, mails>>

\* Every address of the audience is served: the job returns its counts.
Complete(w) ==
  LET e == mailer[w].event IN
  /\ mailer[w].stage = "send" /\ mailer[w].todo = {}
  /\ job' = [job EXCEPT ![e] = "completed"]
  /\ result' = [result EXCEPT ![e] = "sent"]
  /\ audience' = [audience EXCEPT ![e] = mailer[w].audience]
  /\ mailer' = [mailer EXCEPT ![w] = NoMailer]
  /\ NoFault
  /\ UNCHANGED outboxVars
  /\ UNCHANGED <<attempts, stalled, accepted, mails>>

\* The review bookkeeping that follows the last address fails: the job is retried.
CompleteFails(w) ==
  /\ mailer[w].stage = "send" /\ mailer[w].todo = {}
  /\ PlainFault
  /\ Throw(w, mailer[w].event)
  /\ UNCHANGED outboxVars
  /\ UNCHANGED <<stalled, accepted, audience, mails>>

-----------------------------------------------------------------------------
(* The queue and its failures *)

DelayEnds(e) ==
  /\ job[e] = "delayed"
  /\ job' = [job EXCEPT ![e] = "waiting"]
  /\ NoFault
  /\ UNCHANGED outboxVars
  /\ UNCHANGED <<attempts, stalled, accepted, mailer, result, audience, mails>>

\* A job whose worker died returns to the queue, the second time it fails.
RecoverStalled(e) ==
  /\ job[e] = "active"
  /\ \A w \in Workers : mailer[w].event # e
  /\ job' = [job EXCEPT ![e] = IF stalled[e] THEN "failed" ELSE "waiting"]
  /\ result' = IF stalled[e] THEN [result EXCEPT ![e] = "failed"] ELSE result
  /\ stalled' = [stalled EXCEPT ![e] = TRUE]
  /\ NoFault
  /\ UNCHANGED outboxVars
  /\ UNCHANGED <<attempts, accepted, mailer, audience, mails>>

\* retryDelivery: an administrator retries a failed job from the beginning.
RetryDelivery(e) ==
  /\ job[e] = "failed"
  /\ job' = [job EXCEPT ![e] = "waiting"]
  /\ attempts' = [attempts EXCEPT ![e] = 0]
  /\ NoFault
  /\ UNCHANGED outboxVars
  /\ UNCHANGED <<stalled, accepted, mailer, result, audience, mails>>

\* removeOnComplete, removeOnFail and pruneFailedJobs: the job and its data go.
ForgetJob(e) ==
  /\ job[e] \in {"completed", "failed"}
  /\ job' = [job EXCEPT ![e] = "none"]
  /\ attempts' = [attempts EXCEPT ![e] = 0]
  /\ stalled' = [stalled EXCEPT ![e] = FALSE]
  /\ accepted' = [accepted EXCEPT ![e] = {}]
  /\ NoFault
  /\ UNCHANGED outboxVars
  /\ UNCHANGED <<mailer, result, audience, mails>>

\* A worker process dies with its dispatch and its mail worker, and restarts.
Crash(w) ==
  LET unmarked(e) == dispatch[w].stage = "added" /\ dispatch[w].event = e
      unrecorded(e) == mailer[w].stage = "sent" /\ mailer[w].event = e IN
  /\ dispatch[w] # NoDispatch \/ mailer[w] # NoMailer
  /\ faults < MaxFaults
  /\ faults' = faults + 1
  /\ lost' = [e \in Events |-> lost[e] + (IF unmarked(e) THEN 1 ELSE 0)
                                       + (IF unrecorded(e) THEN 1 ELSE 0)]
  /\ dispatch' = [dispatch EXCEPT ![w] = NoDispatch]
  /\ mailer' = [mailer EXCEPT ![w] = NoMailer]
  /\ UNCHANGED <<outbox, enabled, result, audience, mails>>
  /\ UNCHANGED jobVars

-----------------------------------------------------------------------------
OutboxNext ==
  \/ \E e \in Events : PersistAudit(e) \/ ChangePolicy(e) \/ BackoffEnds(e) \/ MaintainHistory(e)
  \/ \E w \in Workers : StartDispatch(w) \/ MarkQueued(w) \/ EndDispatch(w)
  \/ \E w \in Workers, e \in Events : Enqueue(w, e) \/ EnqueueFails(w, e)

MailNext ==
  \/ \E w \in Workers, e \in Events : Take(w, e)
  \/ \E w \in Workers : \E found \in SUBSET Recipients : Prepare(w, found)
  \/ \E w \in Workers, r \in Recipients : Send(w, r) \/ SendFails(w, r)
  \/ \E w \in Workers : Skip(w) \/ RecordAccepted(w) \/ RecordFails(w)
  \/ \E w \in Workers : Complete(w) \/ CompleteFails(w)

QueueNext ==
  \/ \E e \in Events : DelayEnds(e) \/ RecoverStalled(e) \/ RetryDelivery(e) \/ ForgetJob(e)
  \/ \E w \in Workers : Crash(w)

Next == OutboxNext \/ MailNext \/ QueueNext

Spec == Init /\ [][Next]_vars

\* The tick runs every minute and its steps go on; a started attempt ends; the
\* queue ends delays, takes jobs back from dead workers and, being first in first
\* out, hands out every waiting job whatever else is added (strong fairness).
DispatchStep(w) ==
  \/ StartDispatch(w) \/ MarkQueued(w) \/ EndDispatch(w)
  \/ \E e \in Events : Enqueue(w, e)

MailStep(w) ==
  \/ \E found \in SUBSET Recipients : Prepare(w, found)
  \/ \E r \in Recipients : Send(w, r) \/ SendFails(w, r)
  \/ Skip(w) \/ RecordAccepted(w) \/ Complete(w)

Fairness ==
  /\ \A w \in Workers : WF_vars(DispatchStep(w)) /\ WF_vars(MailStep(w))
  /\ \A e \in Events : /\ WF_vars(BackoffEnds(e)) /\ WF_vars(DelayEnds(e))
                       /\ WF_vars(RecoverStalled(e))
                       /\ SF_vars(\E w \in Workers : Take(w, e))

LiveSpec == Spec /\ Fairness

-----------------------------------------------------------------------------
(* Properties *)

TypeOK ==
  /\ outbox \in [Events -> {"none", "pending", "waiting", "queued", "removed"}]
  /\ enabled \in [Events -> BOOLEAN]
  /\ dispatch \in [Workers -> Dispatches]
  /\ job \in [Events -> {"none", "waiting", "delayed", "active", "completed", "failed"}]
  /\ attempts \in [Events -> 0 .. MaxAttempts]
  /\ stalled \in [Events -> BOOLEAN]
  /\ accepted \in [Events -> SUBSET Recipients]
  /\ mailer \in [Workers -> Mailers]
  /\ result \in [Events -> {"none", "disabled", "skipped", "sent", "failed"}]
  /\ audience \in [Events -> SUBSET Recipients]
  /\ mails \in [Events -> [Recipients -> Nat]]
  /\ lost \in [Events -> 0 .. 2 * MaxFaults]
  /\ faults \in 0 .. MaxFaults

\* Retries, redispatches and an administrator's retry never send a message twice
\* to an address: each further copy needs a fault that hid what was done (the
\* send itself, or the hand-over to the queue) from the application.
DuplicatesNeedFault ==
  \A e \in Events, r \in Recipients : mails[e][r] <= 1 + lost[e]

\* A delivery reported as sent reached every address of its audience, and the
\* addresses the job remembers were all served.
SentMeansMailed ==
  \A e \in Events : /\ result[e] = "sent" => \A r \in audience[e] : mails[e][r] > 0
                    /\ \A r \in accepted[e] : mails[e][r] > 0

\* No notification is forgotten: an outbox row is eventually sent, skipped
\* because it is no longer eligible or enabled, or listed as failed, through
\* Redis outages and worker crashes.
EventuallySettled ==
  \A e \in Events : outbox[e] = "pending" ~> result[e] # "none"
=============================================================================
