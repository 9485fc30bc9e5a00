--------------------- MODULE NotificationDeliveryProofs ---------------------
(***************************************************************************)
(* Proofs about notification delivery, for any number of events,           *)
(* recipients, workers, attempts and faults.                               *)
(*                                                                         *)
(* That a further copy of a message needs a fault is a matter of counting: *)
(* Budget adds up the messages sent, the hand-over that is not known to    *)
(* be done and the message that is not known to be sent, and compares them *)
(* with the effects that faults have hidden.                               *)
(***************************************************************************)
EXTENDS NotificationDelivery, TLAPS

(***************************************************************************)
(* The inductive invariant                                                 *)
(***************************************************************************)

\* A job that may still run has an attempt left; a job that was forgotten
\* starts from the beginning.
Attempted ==
  \A e \in Events : /\ job[e] \in {"waiting", "delayed", "active"} => attempts[e] < MaxAttempts
                    /\ job[e] = "none" => attempts[e] = 0

\* A fault hides at most two effects of an event.
LostBound == \A e \in Events : lost[e] <= 2 * faults

\* The advisory lock: one worker dispatches.
OneDispatch ==
  \A v, w \in Workers : dispatch[v] # NoDispatch /\ dispatch[w] # NoDispatch => v = w

\* What a worker has still to hand over is pending.
Listed ==
  \A w \in Workers :
    /\ \A e \in dispatch[w].todo : outbox[e] = "pending"
    /\ dispatch[w].stage = "added" => dispatch[w].event \in dispatch[w].todo

\* A mail worker that is busy has an active job of its own.
Working ==
  /\ \A w \in Workers : \/ mailer[w] = NoMailer
                        \/ /\ mailer[w].stage # "idle" /\ mailer[w].event \in Events
                           /\ job[mailer[w].event] = "active"
  /\ \A v, w \in Workers : mailer[v].event = mailer[w].event /\ mailer[v] # NoMailer => v = w

\* What a mail worker has still to serve was not accepted, and what it has not to
\* serve was mailed.
ServingOf(m, acc, sent) ==
  /\ m.stage \in {"send", "sent"} =>
       /\ \A r \in m.todo : r \notin acc[m.event]
       /\ \A r \in m.audience : r \in m.todo \/ sent[m.event][r] > 0
  /\ m.stage = "sent" => m.to \in m.todo /\ sent[m.event][m.to] > 0

Serving == \A w \in Workers : ServingOf(mailer[w], accepted, mails)

\* The application does not know yet that it handed event e to the queue.
Fresh(e) ==
  /\ outbox[e] \in {"none", "pending", "waiting"}
  /\ \A w \in Workers : ~(dispatch[w].stage = "added" /\ dispatch[w].event = e)

\* The message to r was accepted and the job does not know it yet.
Unrecorded(e, r) ==
  \E w \in Workers : mailer[w].stage = "sent" /\ mailer[w].event = e /\ mailer[w].to = r

\* The job for e, as it stands, still sends to r.
Owed(e, r) == job[e] # "none" /\ r \notin accepted[e] /\ ~Unrecorded(e, r)

One(b) == IF b THEN 1 ELSE 0

\* With l hidden effects, m messages were sent: one may be sent without a fault,
\* and it is not used up while the hand-over or the message is outstanding.
Within(m, l, fresh, owed) == m + One(fresh) + One(owed) <= l + 1

Budget == \A e \in Events, r \in Recipients : Within(mails[e][r], lost[e], Fresh(e), Owed(e, r))

\* The invariant, as conjunctions of named parts.
Inv == /\ TypeOK /\ Attempted /\ LostBound
       /\ OneDispatch /\ Listed
       /\ Working /\ Serving /\ SentMeansMailed
       /\ Budget

-----------------------------------------------------------------------------
(* Facts about the constants and about single steps *)

LEMMA NoDispatchIs ==
  NoDispatch \in Dispatches /\ NoDispatch.stage = "idle" /\ NoDispatch.todo = {}
BY DEF NoDispatch, Dispatches

LEMMA NoMailerIs ==
  /\ NoMailer \in Mailers /\ NoMailer.stage = "idle" /\ NoMailer.event = Nobody
  /\ Nobody \notin Events
BY DeliveryAssumption DEF NoMailer, Mailers

LEMMA OneIs == \A b : One(b) \in {0, 1} /\ (b => One(b) = 1) /\ (~b => One(b) = 0)
BY DEF One

\* A serving worker stays one while messages are only added.
LEMMA ServingMore ==
  ASSUME NEW m \in Mailers, m = NoMailer \/ m.event \in Events, NEW acc, NEW acc2,
         NEW sent \in [Events -> [Recipients -> Nat]],
         NEW sent2 \in [Events -> [Recipients -> Nat]],
         m.event \in Events => acc2[m.event] = acc[m.event],
         \A e \in Events, r \in Recipients : sent[e][r] <= sent2[e][r],
         ServingOf(m, acc, sent)
  PROVE  ServingOf(m, acc2, sent2)
<1>1. CASE m = NoMailer
  BY <1>1, NoMailerIs DEF ServingOf
<1>2. CASE m.event \in Events
  <2>1. m.audience \subseteq Recipients /\ m.todo \subseteq Recipients
    BY DEF Mailers
  <2>2. ASSUME NEW r \in Recipients, sent[m.event][r] > 0 PROVE sent2[m.event][r] > 0
    <3>1. sent[m.event][r] \in Nat /\ sent2[m.event][r] \in Nat
      BY <1>2
    <3>2. sent[m.event][r] <= sent2[m.event][r]
      BY <1>2
    <3> QED BY <2>2, <3>1, <3>2
  <2> QED BY <1>2, <2>1, <2>2 DEF ServingOf
<1> QED BY <1>1, <1>2

\* The dispatch of worker w goes on as d.
LEMMA DispatchSet ==
  ASSUME TypeOK, OneDispatch, Listed, NEW w \in Workers, NEW d \in Dispatches,
         dispatch' = [dispatch EXCEPT ![w] = d],
         d = NoDispatch \/ \A v \in Workers \ {w} : dispatch[v] = NoDispatch,
         \A e \in d.todo : outbox'[e] = "pending",
         d.stage = "added" => d.event \in d.todo,
         \A v \in Workers \ {w} : \A e \in dispatch[v].todo : outbox'[e] = "pending"
  PROVE  dispatch' \in [Workers -> Dispatches] /\ OneDispatch' /\ Listed'
<1>1. /\ dispatch' \in [Workers -> Dispatches] /\ dispatch'[w] = d
      /\ \A v \in Workers \ {w} : dispatch'[v] = dispatch[v]
  BY DEF TypeOK
<1>2. OneDispatch'
  BY <1>1 DEF OneDispatch
<1>3. Listed'
  BY <1>1 DEF Listed
<1> QED BY <1>1, <1>2, <1>3

\* A busy dispatcher is the only one.
LEMMA OnlyDispatch ==
  ASSUME TypeOK, OneDispatch, NEW w \in Workers, dispatch[w].stage # "idle"
  PROVE  \A v \in Workers \ {w} : dispatch[v] = NoDispatch
BY NoDispatchIs DEF OneDispatch

\* The mailer of worker w goes on as m, and job and messages with it.
LEMMA MailerSet ==
  ASSUME TypeOK, Working, Serving, NEW w \in Workers, NEW m \in Mailers,
         mailer' = [mailer EXCEPT ![w] = m],
         \/ m = NoMailer
         \/ /\ m.stage # "idle" /\ m.event \in Events /\ job'[m.event] = "active"
            /\ \A v \in Workers \ {w} : mailer[v].event # m.event,
         \A v \in Workers \ {w} :
           mailer[v] # NoMailer => /\ job'[mailer[v].event] = job[mailer[v].event]
                                   /\ accepted'[mailer[v].event] = accepted[mailer[v].event],
         ServingOf(m, accepted', mails'),
         mails' \in [Events -> [Recipients -> Nat]],
         \A e \in Events, r \in Recipients : mails[e][r] <= mails'[e][r]
  PROVE  mailer' \in [Workers -> Mailers] /\ Working' /\ Serving'
<1>1. /\ mailer' \in [Workers -> Mailers] /\ mailer'[w] = m
      /\ \A v \in Workers \ {w} : mailer'[v] = mailer[v]
  BY DEF TypeOK
<1>2. ASSUME NEW v \in Workers \ {w}
      PROVE  ServingOf(mailer[v], accepted', mails')
  <2>1. mailer[v] \in Mailers /\ (mailer[v] = NoMailer \/ mailer[v].event \in Events)
    BY DEF TypeOK, Working
  <2>2. mailer[v].event \in Events => accepted'[mailer[v].event] = accepted[mailer[v].event]
    BY NoMailerIs
  <2>3. ServingOf(mailer[v], accepted, mails) /\ mails \in [Events -> [Recipients -> Nat]]
    BY DEF Serving, TypeOK
  <2> QED BY <2>1, <2>2, <2>3, ServingMore
<1>3. Serving'
  BY <1>1, <1>2 DEF Serving
<1>4. ASSUME NEW v \in Workers
      PROVE  \/ mailer'[v] = NoMailer
             \/ /\ mailer'[v].stage # "idle" /\ mailer'[v].event \in Events
                /\ job'[mailer'[v].event] = "active"
  BY <1>1 DEF Working
<1>5. ASSUME NEW u \in Workers, NEW v \in Workers,
             mailer'[u].event = mailer'[v].event, mailer'[u] # NoMailer
      PROVE  u = v
  <2>1. \A x \in Workers : mailer[x] # NoMailer => mailer[x].event \in Events
    BY DEF Working
  <2> QED BY <1>1, <1>5, <2>1, NoMailerIs DEF Working
<1>6. Working'
  BY <1>4, <1>5 DEF Working
<1> QED BY <1>1, <1>3, <1>6

\* What no step of a mail worker touches.
LEMMA OutboxKept ==
  ASSUME TypeOK, OneDispatch, Listed, UNCHANGED outboxVars
  PROVE  /\ outbox' \in [Events -> {"none", "pending", "waiting", "queued", "removed"}]
         /\ enabled' \in [Events -> BOOLEAN] /\ dispatch' \in [Workers -> Dispatches]
         /\ OneDispatch' /\ Listed'
         /\ \A e : Fresh(e)' <=> Fresh(e)
<1>1. outbox' = outbox /\ enabled' = enabled /\ dispatch' = dispatch
  BY DEF outboxVars
<1> QED BY <1>1 DEF TypeOK, OneDispatch, Listed, Fresh

\* Whether a message to r is not recorded changes only with its worker.
LEMMA UnrecordedSet ==
  ASSUME TypeOK, NEW w \in Workers, NEW m \in Mailers, mailer' = [mailer EXCEPT ![w] = m],
         NEW e, NEW r,
         ~(mailer[w].stage = "sent" /\ mailer[w].event = e /\ mailer[w].to = r),
         ~(m.stage = "sent" /\ m.event = e /\ m.to = r)
  PROVE  Unrecorded(e, r)' <=> Unrecorded(e, r)
<1>1. mailer'[w] = m /\ \A v \in Workers \ {w} : mailer'[v] = mailer[v]
  BY DEF TypeOK
<1> QED BY <1>1 DEF Unrecorded

\* The budget of an event and a recipient is kept when it is not spent faster
\* than faults fill it.
LEMMA WithinStep ==
  ASSUME TypeOK, mails' \in [Events -> [Recipients -> Nat]], lost' \in [Events -> Nat],
         NEW e \in Events, NEW r \in Recipients,
         Within(mails[e][r], lost[e], Fresh(e), Owed(e, r)),
         mails'[e][r] + One(Fresh(e)') + One(Owed(e, r)') + lost[e]
           <= mails[e][r] + One(Fresh(e)) + One(Owed(e, r)) + lost'[e]
  PROVE  Within(mails'[e][r], lost'[e], Fresh(e)', Owed(e, r)')
<1>1. /\ mails[e][r] \in Nat /\ mails'[e][r] \in Nat /\ lost[e] \in Int /\ lost'[e] \in Nat
  BY DeliveryAssumption DEF TypeOK
<1>2. /\ One(Fresh(e)) \in Nat /\ One(Owed(e, r)) \in Nat
      /\ One(Fresh(e)') \in Nat /\ One(Owed(e, r)') \in Nat
  BY OneIs
<1> QED BY <1>1, <1>2 DEF Within

\* Nothing is spent on an event and a recipient.
LEMMA WithinSame ==
  ASSUME TypeOK, mails' \in [Events -> [Recipients -> Nat]], lost' \in [Events -> Nat],
         NEW e \in Events, NEW r \in Recipients,
         Within(mails[e][r], lost[e], Fresh(e), Owed(e, r)),
         mails'[e][r] = mails[e][r], lost[e] <= lost'[e],
         Fresh(e)' => Fresh(e), Owed(e, r)' => Owed(e, r)
  PROVE  Within(mails'[e][r], lost'[e], Fresh(e)', Owed(e, r)')
<1>1. /\ mails[e][r] \in Nat /\ lost[e] \in Int /\ lost'[e] \in Nat
  BY DeliveryAssumption DEF TypeOK
<1>2. One(Fresh(e)') <= One(Fresh(e)) /\ One(Owed(e, r)') <= One(Owed(e, r))
  BY OneIs
<1>3. /\ One(Fresh(e)) \in Nat /\ One(Owed(e, r)) \in Nat
      /\ One(Fresh(e)') \in Nat /\ One(Owed(e, r)') \in Nat
  BY OneIs
<1> QED BY <1>1, <1>2, <1>3 DEF Within

-----------------------------------------------------------------------------
(* The outbox *)

\* The lost effects are numbers whatever the bound on the faults.
LEMMA LostNat == ASSUME TypeOK PROVE lost \in [Events -> Nat]
BY DeliveryAssumption DEF TypeOK

\* Steps of the outbox that leave the queue and the mail workers alone.
LEMMA QueueKept ==
  ASSUME Inv, UNCHANGED <<job, attempts, stalled, accepted, mailer, result, audience, mails>>,
         UNCHANGED <<lost, faults>>,
         outbox' \in [Events -> {"none", "pending", "waiting", "queued", "removed"}],
         enabled' \in [Events -> BOOLEAN], dispatch' \in [Workers -> Dispatches],
         OneDispatch', Listed', \A e \in Events : Fresh(e)' => Fresh(e)
  PROVE  Inv'
<1>1. TypeOK'
  BY DEF Inv, TypeOK
<1>2. Attempted' /\ LostBound' /\ Working' /\ Serving' /\ SentMeansMailed'
  BY DEF Inv, Attempted, LostBound, Working, Serving, SentMeansMailed
<1>3. ASSUME NEW e \in Events, NEW r \in Recipients
      PROVE  Within(mails'[e][r], lost'[e], Fresh(e)', Owed(e, r)')
  <2>1. Owed(e, r)' => Owed(e, r)
    BY DEF Owed, Unrecorded
  <2>2. lost \in [Events -> Nat] /\ mails \in [Events -> [Recipients -> Nat]]
    BY LostNat DEF Inv, TypeOK
  <2>3. lost[e] <= lost'[e]
    BY <2>2
  <2> QED BY <2>1, <2>2, <2>3, WithinSame DEF Inv, Budget
<1> QED BY <1>1, <1>2, <1>3 DEF Inv, Budget

LEMMA RowKept ==
  ASSUME Inv, NEW e \in Events,
         PersistAudit(e) \/ ChangePolicy(e) \/ BackoffEnds(e) \/ MaintainHistory(e)
  PROVE  Inv'
<1>1. UNCHANGED <<job, attempts, stalled, accepted, mailer, result, audience, mails>>
        /\ UNCHANGED <<lost, faults, dispatch>>
  BY DEF PersistAudit, ChangePolicy, BackoffEnds, MaintainHistory, NoFault, jobVars
<1>2. TypeOK /\ OneDispatch /\ Listed
  BY DEF Inv
<1>3. enabled' \in [Events -> BOOLEAN]
  BY <1>2 DEF PersistAudit, ChangePolicy, BackoffEnds, MaintainHistory, TypeOK
<1>4. /\ \A f \in Events \ {e} : outbox'[f] = outbox[f]
      /\ outbox'[e] \in {"pending", "removed", outbox[e]}
      /\ outbox'[e] = "pending" => outbox[e] \in {"none", "pending", "waiting"}
      /\ outbox[e] = "pending" => outbox'[e] = "pending"
      /\ outbox' \in [Events -> {"none", "pending", "waiting", "queued", "removed"}]
  BY <1>2 DEF PersistAudit, ChangePolicy, BackoffEnds, MaintainHistory, TypeOK
<1>5. Listed' /\ OneDispatch'
  <2>1. \A w \in Workers : dispatch[w].todo \subseteq Events
    BY <1>2 DEF TypeOK, Dispatches
  <2> QED BY <1>1, <1>2, <1>4, <2>1 DEF Listed, OneDispatch
<1>6. \A f \in Events : Fresh(f)' => Fresh(f)
  BY <1>1, <1>4 DEF Fresh
<1>7. dispatch' \in [Workers -> Dispatches]
  BY <1>1, <1>2 DEF TypeOK
<1> QED BY <1>1, <1>3, <1>4, <1>5, <1>6, <1>7, QueueKept

LEMMA TickKept ==
  ASSUME Inv, NEW w \in Workers, StartDispatch(w) \/ EndDispatch(w) \/ MarkQueued(w)
  PROVE  Inv'
<1>1. UNCHANGED <<job, attempts, stalled, accepted, mailer, result, audience, mails>>
        /\ UNCHANGED <<lost, faults, enabled>>
  BY DEF StartDispatch, EndDispatch, MarkQueued, NoFault, jobVars
<1>2. TypeOK /\ OneDispatch /\ Listed
  BY DEF Inv
<1>3. enabled' \in [Events -> BOOLEAN] /\ dispatch[w] \in Dispatches
  BY <1>1, <1>2 DEF TypeOK
<1>4. CASE StartDispatch(w)
  <2> DEFINE d == [NoDispatch EXCEPT !.stage = "list", !.todo = {e \in Events : Due(e)}]
  <2>1. dispatch' = [dispatch EXCEPT ![w] = d] /\ outbox' = outbox
        /\ \A v \in Workers : dispatch[v] = NoDispatch
    BY <1>4 DEF StartDispatch
  <2>2. d \in Dispatches /\ d.stage = "list" /\ \A e \in d.todo : outbox[e] = "pending"
    BY DEF NoDispatch, Dispatches, Due
  <2> HIDE DEF d
  <2>3. dispatch' \in [Workers -> Dispatches] /\ OneDispatch' /\ Listed'
    BY <1>2, <2>1, <2>2, NoDispatchIs, DispatchSet
  <2>4. \A e \in Events : Fresh(e)' => Fresh(e)
    BY <2>1, NoDispatchIs DEF Fresh
  <2>5. outbox' \in [Events -> {"none", "pending", "waiting", "queued", "removed"}]
    BY <1>2, <2>1 DEF TypeOK
  <2> QED BY <1>1, <1>3, <2>3, <2>4, <2>5, QueueKept
<1>5. CASE EndDispatch(w)
  <2>1. dispatch' = [dispatch EXCEPT ![w] = NoDispatch] /\ outbox' = outbox
        /\ dispatch[w].stage = "list"
    BY <1>5 DEF EndDispatch
  <2>2. dispatch' \in [Workers -> Dispatches] /\ OneDispatch' /\ Listed'
    BY <1>2, <2>1, NoDispatchIs, DispatchSet DEF Listed
  <2>3. \A v \in Workers : v # w => dispatch'[v] = dispatch[v]
    BY <1>2, <2>1 DEF TypeOK
  <2>4. \A e \in Events : Fresh(e)' => Fresh(e)
    BY <2>1, <2>3 DEF Fresh
  <2>5. outbox' \in [Events -> {"none", "pending", "waiting", "queued", "removed"}]
    BY <1>2, <2>1 DEF TypeOK
  <2> QED BY <1>1, <1>3, <2>2, <2>4, <2>5, QueueKept
<1>6. CASE MarkQueued(w)
  <2>1. PICK e : e = dispatch[w].event
    OBVIOUS
  <2> DEFINE d == [NoDispatch EXCEPT !.stage = "list", !.todo = dispatch[w].todo \ {e}]
  <2>2. dispatch' = [dispatch EXCEPT ![w] = d] /\ outbox' = [outbox EXCEPT ![e] = "queued"]
        /\ dispatch[w].stage = "added"
    BY <1>6, <2>1 DEF MarkQueued
  <2>3. e \in dispatch[w].todo /\ e \in Events /\ dispatch[w].todo \subseteq Events
    BY <1>2, <1>3, <2>1, <2>2 DEF Listed, Dispatches
  <2>4. d \in Dispatches /\ d.stage = "list" /\ d.todo = dispatch[w].todo \ {e}
    BY <2>3 DEF NoDispatch, Dispatches
  <2> HIDE DEF d
  <2>5. /\ \A f \in Events \ {e} : outbox'[f] = outbox[f]
        /\ outbox'[e] = "queued"
        /\ outbox' \in [Events -> {"none", "pending", "waiting", "queued", "removed"}]
    BY <1>2, <2>2, <2>3 DEF TypeOK
  <2>6. \A v \in Workers \ {w} : dispatch[v] = NoDispatch
    BY <1>2, <2>2, OnlyDispatch
  <2>7. \A f \in d.todo : outbox'[f] = "pending"
    BY <1>2, <2>3, <2>4, <2>5 DEF Listed
  <2>8. dispatch' \in [Workers -> Dispatches] /\ OneDispatch' /\ Listed'
    BY <1>2, <2>2, <2>4, <2>6, <2>7, NoDispatchIs, DispatchSet
  <2>9. \A v \in Workers : v # w => dispatch'[v] = dispatch[v]
    BY <1>2, <2>2 DEF TypeOK
  <2>10. \A f \in Events : Fresh(f)' => Fresh(f)
    BY <2>1, <2>2, <2>5, <2>9 DEF Fresh
  <2> QED BY <1>1, <1>3, <2>5, <2>8, <2>10, QueueKept
<1> QED BY <1>4, <1>5, <1>6

\* The queue takes in an event, or knows it already.
LEMMA AddedKept ==
  ASSUME Inv, NEW e \in Events, Added(e), UNCHANGED <<attempts, accepted, mailer, mails>>
  PROVE  /\ job' \in [Events -> {"none", "waiting", "delayed", "active", "completed", "failed"}]
         /\ Attempted' /\ Working' /\ Serving'
         /\ \A f \in Events \ {e} : job'[f] = job[f]
<1>1. /\ job' \in [Events -> {"none", "waiting", "delayed", "active", "completed", "failed"}]
      /\ \A f \in Events \ {e} : job'[f] = job[f]
      /\ job'[e] = job[e] \/ (job[e] = "none" /\ job'[e] = "waiting")
  BY DEF Added, Inv, TypeOK
<1>2. 0 < MaxAttempts
  BY DeliveryAssumption
<1>3. Attempted'
  BY <1>1, <1>2 DEF Inv, Attempted
<1>4. Serving'
  BY DEF Inv, Serving
<1>5. \A w \in Workers : mailer[w] # NoMailer => job'[mailer[w].event] = "active"
  BY <1>1 DEF Inv, Working
<1>6. Working'
  BY <1>5 DEF Inv, Working
<1> QED BY <1>1, <1>3, <1>4, <1>6

\* What worker w has to hand over is not handed over yet.
LEMMA TodoFresh ==
  ASSUME Inv, NEW w \in Workers, dispatch[w].stage = "list", NEW e \in dispatch[w].todo
  PROVE  Fresh(e) /\ \A v \in Workers \ {w} : dispatch[v] = NoDispatch
<1>1. \A v \in Workers \ {w} : dispatch[v] = NoDispatch
  BY OnlyDispatch DEF Inv
<1>2. outbox[e] = "pending"
  BY DEF Inv, Listed
<1> QED BY <1>1, <1>2, NoDispatchIs DEF Fresh

LEMMA EnqueueKept ==
  ASSUME Inv, NEW w \in Workers, NEW e \in Events, Enqueue(w, e)
  PROVE  Inv'
<1> DEFINE d == [dispatch[w] EXCEPT !.stage = "added", !.event = e]
<1>1. TypeOK /\ OneDispatch /\ Listed /\ dispatch[w] \in Dispatches /\ LostBound
      /\ SentMeansMailed /\ Attempted /\ Working /\ Serving /\ Budget
  BY DEF Inv, TypeOK
<1>2. /\ UNCHANGED <<outbox, enabled, attempts, stalled, accepted, mailer, audience, mails>>
      /\ UNCHANGED <<lost, faults>> /\ dispatch' = [dispatch EXCEPT ![w] = d]
      /\ dispatch[w].stage = "list" /\ e \in dispatch[w].todo
  BY DEF Enqueue, NoFault
<1>3. d \in Dispatches /\ d.stage = "added" /\ d.event = e /\ d.todo = dispatch[w].todo
  BY <1>1 DEF Dispatches
<1> HIDE DEF d
<1>4. Fresh(e) /\ \A v \in Workers \ {w} : dispatch[v] = NoDispatch
  BY <1>2, TodoFresh
<1>5. dispatch' \in [Workers -> Dispatches] /\ OneDispatch' /\ Listed'
  <2>1. /\ \A f \in d.todo : outbox'[f] = "pending"
        /\ \A v \in Workers \ {w} : \A f \in dispatch[v].todo : outbox'[f] = "pending"
    BY <1>1, <1>2, <1>3 DEF Listed
  <2> QED BY <1>1, <1>2, <1>3, <1>4, <2>1, DispatchSet
<1>6. /\ job' \in [Events -> {"none", "waiting", "delayed", "active", "completed", "failed"}]
      /\ Attempted' /\ Working' /\ Serving'
      /\ \A f \in Events \ {e} : job'[f] = job[f]
  <2>1. CASE Added(e)
    BY <1>2, <2>1, AddedKept
  <2>2. CASE job' = job
    BY <1>1, <1>2, <2>2 DEF TypeOK, Attempted, Working, Serving
  <2> QED BY <2>1, <2>2 DEF Enqueue
<1>7. /\ result' \in [Events -> {"none", "disabled", "skipped", "sent", "failed"}]
      /\ \A f \in Events : result'[f] = "sent" => result[f] = "sent"
  BY <1>1 DEF Enqueue, TypeOK
<1>8. SentMeansMailed'
  BY <1>1, <1>2, <1>7 DEF SentMeansMailed
<1>9. TypeOK' /\ LostBound'
  BY <1>1, <1>2, <1>5, <1>6, <1>7 DEF TypeOK, LostBound
<1>10. dispatch'[w] = d /\ \A v \in Workers \ {w} : dispatch'[v] = dispatch[v]
  BY <1>1, <1>2 DEF TypeOK
<1>11. ~Fresh(e)' /\ \A f \in Events \ {e} : Fresh(f)' => Fresh(f)
  BY <1>2, <1>3, <1>10 DEF Fresh
<1>12. /\ lost \in [Events -> Nat] /\ mails \in [Events -> [Recipients -> Nat]]
       /\ mails' = mails /\ lost' = lost
  BY <1>1, <1>2, LostNat DEF TypeOK
<1>13. ASSUME NEW r \in Recipients
       PROVE  Within(mails'[e][r], lost'[e], Fresh(e)', Owed(e, r)')
  <2>1. One(Fresh(e)) = 1 /\ One(Fresh(e)') = 0
    BY <1>4, <1>11 DEF One
  <2>2. One(Owed(e, r)) \in {0, 1} /\ One(Owed(e, r)') \in {0, 1}
    BY OneIs
  <2>3. mails[e][r] \in Nat /\ lost[e] \in Nat
    BY <1>12
  <2>4. Within(mails[e][r], lost[e], Fresh(e), Owed(e, r))
    BY <1>1 DEF Budget
  <2> QED BY <1>12, <2>1, <2>2, <2>3, <2>4 DEF Within
<1>14. ASSUME NEW f \in Events \ {e}, NEW r \in Recipients
       PROVE  Within(mails'[f][r], lost'[f], Fresh(f)', Owed(f, r)')
  <2>1. Owed(f, r)' => Owed(f, r)
    BY <1>2, <1>6 DEF Owed, Unrecorded
  <2>2. Within(mails[f][r], lost[f], Fresh(f), Owed(f, r))
    BY <1>1 DEF Budget
  <2>3. lost[f] <= lost'[f]
    BY <1>12
  <2> QED BY <1>1, <1>11, <1>12, <2>1, <2>2, <2>3, WithinSame
<1>15. Budget'
  BY <1>13, <1>14 DEF Budget
<1> QED BY <1>5, <1>6, <1>8, <1>9, <1>15 DEF Inv

\* A fault that leaves an effect of event e behind is counted.
LEMMA LostKept ==
  ASSUME TypeOK, LostBound, NEW e \in Events, LostEffect(e)
  PROVE  /\ lost' \in [Events -> 0 .. 2 * MaxFaults] /\ faults' \in 0 .. MaxFaults
         /\ LostBound' /\ lost' \in [Events -> Nat] /\ lost'[e] = lost[e] + 1
         /\ \A f \in Events \ {e} : lost'[f] = lost[f]
<1>1. /\ lost \in [Events -> 0 .. 2 * MaxFaults] /\ faults \in 0 .. MaxFaults
      /\ MaxFaults \in Nat /\ faults < MaxFaults /\ faults' = faults + 1
      /\ lost' = [lost EXCEPT ![e] = lost[e] + 1]
  BY DeliveryAssumption DEF TypeOK, LostEffect
<1>2. ASSUME NEW f \in Events PROVE lost[f] \in Nat /\ lost[f] <= 2 * faults
  BY <1>1 DEF LostBound
<1>3. lost'[e] = lost[e] + 1 /\ \A f \in Events \ {e} : lost'[f] = lost[f]
  BY <1>1
<1>4. ASSUME NEW f \in Events
      PROVE  lost'[f] \in 0 .. 2 * MaxFaults /\ lost'[f] <= 2 * faults'
  <2>1. lost'[f] = lost[f] \/ lost'[f] = lost[f] + 1
    BY <1>3
  <2> QED BY <1>1, <1>2, <2>1
<1>5. lost' \in [Events -> 0 .. 2 * MaxFaults] /\ lost' \in [Events -> Nat]
  BY <1>1, <1>4
<1> QED BY <1>1, <1>3, <1>4, <1>5 DEF LostBound

\* The same without an effect.
LEMMA PlainKept ==
  ASSUME TypeOK, LostBound, PlainFault \/ NoFault
  PROVE  /\ lost' = lost /\ faults' \in 0 .. MaxFaults /\ LostBound'
         /\ lost \in [Events -> Nat] /\ lost \in [Events -> 0 .. 2 * MaxFaults]
<1>1. /\ lost \in [Events -> 0 .. 2 * MaxFaults] /\ faults \in 0 .. MaxFaults
      /\ MaxFaults \in Nat /\ lost \in [Events -> Nat]
  BY DeliveryAssumption, LostNat DEF TypeOK
<1>2. lost' = lost /\ faults' \in 0 .. MaxFaults /\ faults <= faults'
  BY <1>1 DEF PlainFault, NoFault
<1>3. ASSUME NEW f \in Events PROVE lost'[f] <= 2 * faults'
  <2>1. lost[f] \in Nat /\ lost[f] <= 2 * faults
    BY <1>1 DEF LostBound
  <2> QED BY <1>1, <1>2, <2>1
<1> QED BY <1>1, <1>2, <1>3 DEF LostBound

LEMMA EnqueueFailsKept ==
  ASSUME Inv, NEW w \in Workers, NEW e \in Events, EnqueueFails(w, e)
  PROVE  Inv'
<1>1. TypeOK /\ OneDispatch /\ Listed /\ LostBound /\ SentMeansMailed
      /\ Attempted /\ Working /\ Serving /\ Budget
  BY DEF Inv
<1>2. /\ UNCHANGED <<enabled, attempts, stalled, accepted, mailer, result, audience, mails>>
      /\ dispatch' = [dispatch EXCEPT ![w] = NoDispatch]
      /\ outbox' = [outbox EXCEPT ![e] = "waiting"]
      /\ dispatch[w].stage = "list" /\ e \in dispatch[w].todo
  BY DEF EnqueueFails
<1>3. Fresh(e) /\ \A v \in Workers \ {w} : dispatch[v] = NoDispatch
  BY <1>2, TodoFresh
<1>4. /\ outbox' \in [Events -> {"none", "pending", "waiting", "queued", "removed"}]
      /\ \A f \in Events \ {e} : outbox'[f] = outbox[f]
  BY <1>1, <1>2 DEF TypeOK
<1>5. dispatch' \in [Workers -> Dispatches] /\ OneDispatch' /\ Listed'
  BY <1>1, <1>2, <1>3, NoDispatchIs, DispatchSet
<1>6. \A v \in Workers : dispatch'[v] = NoDispatch
  BY <1>1, <1>2, <1>3 DEF TypeOK
<1>7. \A f \in Events : Fresh(f)' => Fresh(f)
  <2>1. \A f \in Events \ {e} : Fresh(f)' => Fresh(f)
    BY <1>2, <1>3, <1>4, NoDispatchIs DEF Fresh
  <2> QED BY <1>3, <2>1
<1>8. mails' = mails /\ mails \in [Events -> [Recipients -> Nat]]
  BY <1>1, <1>2 DEF TypeOK
<1>9. SentMeansMailed'
  BY <1>1, <1>2 DEF SentMeansMailed
<1>10. CASE PlainFault /\ UNCHANGED job
  <2>1. /\ lost' = lost /\ faults' \in 0 .. MaxFaults /\ LostBound'
        /\ lost \in [Events -> Nat] /\ lost \in [Events -> 0 .. 2 * MaxFaults]
    BY <1>1, <1>10, PlainKept
  <2>2. TypeOK'
    BY <1>1, <1>2, <1>4, <1>5, <1>10, <2>1 DEF TypeOK
  <2>3. Attempted' /\ Working' /\ Serving'
    BY <1>1, <1>2, <1>10 DEF Attempted, Working, Serving
  <2>4. ASSUME NEW f \in Events, NEW r \in Recipients
        PROVE  Within(mails'[f][r], lost'[f], Fresh(f)', Owed(f, r)')
    <3>1. Owed(f, r)' => Owed(f, r)
      BY <1>2, <1>10 DEF Owed, Unrecorded
    <3>2. Within(mails[f][r], lost[f], Fresh(f), Owed(f, r))
      BY <1>1 DEF Budget
    <3>3. lost[f] <= lost'[f]
      BY <2>1
    <3> QED BY <1>1, <1>7, <1>8, <2>1, <3>1, <3>2, <3>3, WithinSame
  <2> QED BY <1>5, <1>9, <2>1, <2>2, <2>3, <2>4 DEF Inv, Budget
<1>11. CASE LostEffect(e) /\ Added(e)
  <2>1. /\ lost' \in [Events -> 0 .. 2 * MaxFaults] /\ faults' \in 0 .. MaxFaults
        /\ LostBound' /\ lost' \in [Events -> Nat] /\ lost'[e] = lost[e] + 1
        /\ \A f \in Events \ {e} : lost'[f] = lost[f]
    BY <1>1, <1>11, LostKept
  <2>2. /\ job' \in [Events -> {"none", "waiting", "delayed", "active", "completed", "failed"}]
        /\ Attempted' /\ Working' /\ Serving'
        /\ \A f \in Events \ {e} : job'[f] = job[f]
    BY <1>2, <1>11, AddedKept
  <2>3. TypeOK'
    BY <1>1, <1>2, <1>4, <1>5, <2>1, <2>2 DEF TypeOK
  <2>4. ASSUME NEW r \in Recipients
        PROVE  Within(mails'[e][r], lost'[e], Fresh(e)', Owed(e, r)')
    <3>1. One(Fresh(e)) = 1 /\ One(Fresh(e)') \in {0, 1}
      BY <1>3, OneIs
    <3>2. One(Owed(e, r)) \in {0, 1} /\ One(Owed(e, r)') \in {0, 1}
      BY OneIs
    <3>3. mails[e][r] \in Nat /\ lost[e] \in Nat
      BY <1>1, <1>8, LostNat
    <3>4. Within(mails[e][r], lost[e], Fresh(e), Owed(e, r))
      BY <1>1 DEF Budget
    <3> QED BY <1>8, <2>1, <3>1, <3>2, <3>3, <3>4 DEF Within
  <2>5. ASSUME NEW f \in Events \ {e}, NEW r \in Recipients
        PROVE  Within(mails'[f][r], lost'[f], Fresh(f)', Owed(f, r)')
    <3>1. Owed(f, r)' => Owed(f, r)
      BY <1>2, <2>2 DEF Owed, Unrecorded
    <3>2. Within(mails[f][r], lost[f], Fresh(f), Owed(f, r))
      BY <1>1 DEF Budget
    <3>3. lost[f] <= lost'[f]
      BY <2>1
    <3> QED BY <1>1, <1>7, <1>8, <2>1, <3>1, <3>2, <3>3, WithinSame
  <2> QED BY <1>5, <1>9, <2>1, <2>2, <2>3, <2>4, <2>5 DEF Inv, Budget
<1> QED BY <1>10, <1>11 DEF EnqueueFails

-----------------------------------------------------------------------------
(* The mail workers *)

\* A step of a mail worker, put together.
LEMMA MailKept ==
  ASSUME Inv, UNCHANGED outboxVars, UNCHANGED stalled,
         job' \in [Events -> {"none", "waiting", "delayed", "active", "completed", "failed"}],
         attempts' \in [Events -> 0 .. MaxAttempts], accepted' \in [Events -> SUBSET Recipients],
         result' \in [Events -> {"none", "disabled", "skipped", "sent", "failed"}],
         audience' \in [Events -> SUBSET Recipients],
         mails' \in [Events -> [Recipients -> Nat]],
         lost' \in [Events -> 0 .. 2 * MaxFaults], faults' \in 0 .. MaxFaults, LostBound',
         Attempted', mailer' \in [Workers -> Mailers], Working', Serving', SentMeansMailed',
         \A e \in Events, r \in Recipients :
           Within(mails'[e][r], lost'[e], Fresh(e)', Owed(e, r)')
  PROVE  Inv'
<1>1. /\ outbox' \in [Events -> {"none", "pending", "waiting", "queued", "removed"}]
      /\ enabled' \in [Events -> BOOLEAN] /\ dispatch' \in [Workers -> Dispatches]
      /\ OneDispatch' /\ Listed'
  BY OutboxKept DEF Inv
<1>2. stalled' \in [Events -> BOOLEAN]
  BY DEF Inv, TypeOK
<1>3. TypeOK'
  BY <1>1, <1>2 DEF TypeOK
<1> QED BY <1>1, <1>3 DEF Inv, Budget

\* The facts a busy mail worker stands on.
LEMMA BusyIs ==
  ASSUME Inv, NEW w \in Workers, mailer[w].stage # "idle"
  PROVE  /\ mailer[w] \in Mailers /\ mailer[w].event \in Events
         /\ job[mailer[w].event] = "active" /\ mailer[w] # NoMailer
         /\ attempts[mailer[w].event] \in Nat /\ attempts[mailer[w].event] < MaxAttempts
         /\ \A v \in Workers \ {w} : mailer[v].event # mailer[w].event
<1>1. /\ mailer[w] \in Mailers /\ mailer[w] # NoMailer /\ mailer[w].event \in Events
      /\ job[mailer[w].event] = "active"
  BY NoMailerIs DEF Inv, TypeOK, Working
<1>2. attempts[mailer[w].event] < MaxAttempts /\ attempts[mailer[w].event] \in Nat
  BY <1>1, DeliveryAssumption DEF Inv, TypeOK, Attempted
<1>3. \A v \in Workers \ {w} : mailer[v].event # mailer[w].event
  BY <1>1 DEF Inv, Working
<1> QED BY <1>1, <1>2, <1>3

\* Messages are only added.
LEMMA MailsSame ==
  ASSUME TypeOK, mails' = mails
  PROVE  /\ mails' \in [Events -> [Recipients -> Nat]]
         /\ \A e \in Events, r \in Recipients : mails[e][r] <= mails'[e][r]
<1>1. mails \in [Events -> [Recipients -> Nat]]
  BY DEF TypeOK
<1>2. ASSUME NEW e \in Events, NEW r \in Recipients PROVE mails[e][r] <= mails'[e][r]
  BY <1>1
<1> QED BY <1>1, <1>2

LEMMA DeliveredIs ==
  ASSUME TypeOK, NEW e \in Events, NEW r \in Recipients, Delivered(e, r)
  PROVE  /\ mails' \in [Events -> [Recipients -> Nat]]
         /\ mails'[e][r] = mails[e][r] + 1 /\ mails'[e][r] > 0
         /\ \A s \in Recipients \ {r} : mails'[e][s] = mails[e][s]
         /\ \A f \in Events \ {e} : mails'[f] = mails[f]
         /\ \A f \in Events, s \in Recipients : mails[f][s] <= mails'[f][s]
<1>1. mails \in [Events -> [Recipients -> Nat]]
  BY DEF TypeOK
<1>2. mails' = [mails EXCEPT ![e] = [mails[e] EXCEPT ![r] = mails[e][r] + 1]]
  BY DEF Delivered
<1>3. mails[e] \in [Recipients -> Nat] /\ mails[e][r] \in Nat
  BY <1>1
<1>4. [mails[e] EXCEPT ![r] = mails[e][r] + 1] \in [Recipients -> Nat]
  BY <1>3
<1>5. /\ mails' \in [Events -> [Recipients -> Nat]]
      /\ mails'[e] = [mails[e] EXCEPT ![r] = mails[e][r] + 1]
      /\ \A f \in Events \ {e} : mails'[f] = mails[f]
  BY <1>1, <1>2, <1>4
<1>6. mails'[e][r] = mails[e][r] + 1 /\ \A s \in Recipients \ {r} : mails'[e][s] = mails[e][s]
  BY <1>3, <1>5
<1>7. ASSUME NEW f \in Events, NEW s \in Recipients PROVE mails[f][s] <= mails'[f][s]
  <2>1. mails[f][s] \in Nat
    BY <1>1
  <2>2. mails'[f][s] = mails[f][s] \/ mails'[f][s] = mails[f][s] + 1
    BY <1>5, <1>6
  <2> QED BY <2>1, <2>2
<1> QED BY <1>3, <1>5, <1>6, <1>7

\* What was reported as sent stays mailed.
LEMMA SentKept ==
  ASSUME TypeOK, SentMeansMailed, mails' \in [Events -> [Recipients -> Nat]],
         \A e \in Events, r \in Recipients : mails[e][r] <= mails'[e][r],
         audience' = audience, \A e \in Events : accepted'[e] \subseteq accepted[e],
         \A e \in Events : result'[e] = "sent" => result[e] = "sent"
  PROVE  SentMeansMailed'
<1>1. ASSUME NEW e \in Events, NEW r \in Recipients, mails[e][r] > 0 PROVE mails'[e][r] > 0
  <2>1. mails[e][r] \in Nat /\ mails'[e][r] \in Nat /\ mails[e][r] <= mails'[e][r]
    BY DEF TypeOK
  <2> QED BY <1>1, <2>1
<1>2. \A e \in Events : audience[e] \subseteq Recipients /\ accepted[e] \subseteq Recipients
  BY DEF TypeOK
<1> QED BY <1>1, <1>2 DEF SentMeansMailed

\* An attempt that ends with an error.
LEMMA ThrowKept ==
  ASSUME Inv, NEW w \in Workers, mailer[w].stage # "idle", NEW e \in Events,
         e = mailer[w].event, Throw(w, e), UNCHANGED <<accepted, audience>>,
         mails' \in [Events -> [Recipients -> Nat]],
         \A f \in Events, r \in Recipients : mails[f][r] <= mails'[f][r]
  PROVE  /\ job' \in [Events -> {"none", "waiting", "delayed", "active", "completed", "failed"}]
         /\ attempts' \in [Events -> 0 .. MaxAttempts] /\ Attempted'
         /\ result' \in [Events -> {"none", "disabled", "skipped", "sent", "failed"}]
         /\ mailer' \in [Workers -> Mailers] /\ Working' /\ Serving' /\ SentMeansMailed'
         /\ job'[e] # "none" /\ \A f \in Events \ {e} : job'[f] = job[f]
         /\ mailer' = [mailer EXCEPT ![w] = NoMailer]
<1>1. TypeOK /\ Attempted /\ Working /\ Serving /\ SentMeansMailed
  BY DEF Inv
<1>2. PICK n : n = attempts[e] + 1
  OBVIOUS
<1>3. n \in 0 .. MaxAttempts /\ (Retryable(n) => n < MaxAttempts)
  BY <1>2, BusyIs, DeliveryAssumption DEF Retryable
<1>4. /\ attempts' = [attempts EXCEPT ![e] = n]
      /\ job' = [job EXCEPT ![e] = IF Retryable(n) THEN "delayed" ELSE "failed"]
      /\ result' = IF Retryable(n) THEN result ELSE [result EXCEPT ![e] = "failed"]
      /\ mailer' = [mailer EXCEPT ![w] = NoMailer]
  BY <1>2 DEF Throw
<1>5. /\ job' \in [Events -> {"none", "waiting", "delayed", "active", "completed", "failed"}]
      /\ job'[e] = (IF Retryable(n) THEN "delayed" ELSE "failed")
      /\ \A f \in Events \ {e} : job'[f] = job[f]
  BY <1>1, <1>4 DEF TypeOK
<1>6. /\ attempts' \in [Events -> 0 .. MaxAttempts] /\ attempts'[e] = n
      /\ \A f \in Events \ {e} : attempts'[f] = attempts[f]
  BY <1>1, <1>3, <1>4 DEF TypeOK
<1>7. Attempted'
  BY <1>1, <1>3, <1>5, <1>6 DEF Attempted
<1>8. /\ result' \in [Events -> {"none", "disabled", "skipped", "sent", "failed"}]
      /\ \A f \in Events : result'[f] = "sent" => result[f] = "sent"
  BY <1>1, <1>4 DEF TypeOK
<1>9. ServingOf(NoMailer, accepted', mails')
  BY NoMailerIs DEF ServingOf
<1>10. \A v \in Workers \ {w} : mailer[v] # NoMailer =>
          mailer[v].event \in Events /\ mailer[v].event # e
  BY <1>1, BusyIs DEF Working
<1>11. mailer' \in [Workers -> Mailers] /\ Working' /\ Serving'
  <2>1. \A v \in Workers \ {w} :
          mailer[v] # NoMailer => /\ job'[mailer[v].event] = job[mailer[v].event]
                                  /\ accepted'[mailer[v].event] = accepted[mailer[v].event]
    BY <1>5, <1>10
  <2> QED BY <1>1, <1>4, <1>9, <2>1, NoMailerIs, MailerSet
<1>12. SentMeansMailed'
  BY <1>1, <1>8, SentKept
<1> QED BY <1>4, <1>5, <1>6, <1>7, <1>8, <1>11, <1>12

\* The budget of the events that worker w is not busy with, and of the recipients
\* of its event that it is not writing to.
LEMMA OthersKept ==
  ASSUME Inv, UNCHANGED outboxVars, NEW w \in Workers, NEW m \in Mailers,
         mailer' = [mailer EXCEPT ![w] = m],
         mails' \in [Events -> [Recipients -> Nat]], lost' \in [Events -> Nat],
         NEW e \in Events, NEW r \in Recipients,
         mails'[e][r] = mails[e][r], lost[e] <= lost'[e],
         job[e] = "none" => job'[e] = "none",
         r \in accepted[e] => r \in accepted'[e] \/ job'[e] = "none",
         ~(mailer[w].stage = "sent" /\ mailer[w].event = e /\ mailer[w].to = r),
         ~(m.stage = "sent" /\ m.event = e /\ m.to = r)
  PROVE  Within(mails'[e][r], lost'[e], Fresh(e)', Owed(e, r)')
<1>1. TypeOK /\ OneDispatch /\ Listed /\ Within(mails[e][r], lost[e], Fresh(e), Owed(e, r))
  BY DEF Inv, Budget
<1>2. Fresh(e)' => Fresh(e)
  BY <1>1, OutboxKept
<1>3. Unrecorded(e, r)' <=> Unrecorded(e, r)
  BY <1>1, UnrecordedSet
<1>4. Owed(e, r)' => Owed(e, r)
  BY <1>3 DEF Owed
<1> QED BY <1>1, <1>2, <1>4, WithinSame

\* A fault pays for the message that the application does not know of.
LEMMA FaultPays ==
  ASSUME Inv, UNCHANGED outboxVars, NEW e \in Events, NEW r \in Recipients,
         mails'[e][r] = mails[e][r], lost'[e] = lost[e] + 1
  PROVE  Within(mails'[e][r], lost'[e], Fresh(e)', Owed(e, r)')
<1>1. TypeOK /\ OneDispatch /\ Listed /\ Within(mails[e][r], lost[e], Fresh(e), Owed(e, r))
  BY DEF Inv, Budget
<1>2. mails[e][r] \in Nat /\ lost[e] \in Nat
  BY <1>1, LostNat DEF TypeOK
<1>3. One(Fresh(e)') = One(Fresh(e)) /\ One(Fresh(e)) \in {0, 1}
  BY <1>1, OutboxKept DEF One
<1>4. One(Owed(e, r)) \in {0, 1} /\ One(Owed(e, r)') \in {0, 1}
  BY OneIs
<1> QED BY <1>1, <1>2, <1>3, <1>4 DEF Within

\* A message is spent, which was owed.
LEMMA MessageSpent ==
  ASSUME Inv, UNCHANGED outboxVars, NEW e \in Events, NEW r \in Recipients,
         Owed(e, r), mails'[e][r] = mails[e][r] + 1,
         (lost'[e] = lost[e] /\ ~Owed(e, r)') \/ lost'[e] = lost[e] + 1
  PROVE  Within(mails'[e][r], lost'[e], Fresh(e)', Owed(e, r)')
<1>1. TypeOK /\ OneDispatch /\ Listed /\ Within(mails[e][r], lost[e], Fresh(e), Owed(e, r))
  BY DEF Inv, Budget
<1>2. mails[e][r] \in Nat /\ lost[e] \in Nat
  BY <1>1, LostNat DEF TypeOK
<1>3. PICK f \in {0, 1} : f = One(Fresh(e)') /\ f = One(Fresh(e))
  BY <1>1, OutboxKept DEF One
<1>4. PICK o \in {0, 1} : o = One(Owed(e, r)') /\ (Owed(e, r)' \/ o = 0)
  BY DEF One
<1>5. mails[e][r] + f + 1 <= lost[e] + 1
  <2>1. One(Owed(e, r)) = 1
    BY DEF One
  <2> QED BY <1>1, <1>3, <2>1 DEF Within
<1>6. (o = 0 /\ lost'[e] = lost[e]) \/ lost'[e] = lost[e] + 1
  BY <1>4
<1>7. mails[e][r] + 1 + f + o <= lost'[e] + 1
  BY <1>2, <1>5, <1>6
<1> QED BY <1>3, <1>4, <1>7 DEF Within

\* A worker moves between states in which no message waits to be recorded, and
\* nothing is sent.
LEMMA QuietKept ==
  ASSUME Inv, UNCHANGED outboxVars, UNCHANGED <<stalled, accepted, mails>>, NoFault \/ PlainFault,
         NEW w \in Workers, NEW m \in Mailers, mailer' = [mailer EXCEPT ![w] = m],
         mailer[w].stage # "sent", m.stage # "sent", Working', Serving',
         job' \in [Events -> {"none", "waiting", "delayed", "active", "completed", "failed"}],
         \A e \in Events : job[e] = "none" => job'[e] = "none",
         attempts' \in [Events -> 0 .. MaxAttempts], Attempted',
         result' \in [Events -> {"none", "disabled", "skipped", "sent", "failed"}],
         audience' \in [Events -> SUBSET Recipients], SentMeansMailed'
  PROVE  Inv'
<1>1. TypeOK /\ LostBound
  BY DEF Inv
<1>2. /\ lost' = lost /\ faults' \in 0 .. MaxFaults /\ LostBound'
      /\ lost \in [Events -> Nat] /\ lost \in [Events -> 0 .. 2 * MaxFaults]
  BY <1>1, PlainKept
<1>3. mails' \in [Events -> [Recipients -> Nat]] /\ accepted' \in [Events -> SUBSET Recipients]
      /\ mailer' \in [Workers -> Mailers]
  BY <1>1 DEF TypeOK
<1>4. ASSUME NEW e \in Events, NEW r \in Recipients
      PROVE  Within(mails'[e][r], lost'[e], Fresh(e)', Owed(e, r)')
  <2>1. lost[e] <= lost'[e]
    BY <1>2
  <2> QED BY <1>2, <1>3, <2>1, OthersKept
<1> QED BY <1>2, <1>3, <1>4, MailKept

LEMMA TakeKept ==
  ASSUME Inv, NEW w \in Workers, NEW e \in Events, Take(w, e)
  PROVE  Inv'
<1> DEFINE m == [NoMailer EXCEPT !.stage = "prepare", !.event = e]
<1>1. TypeOK /\ Attempted /\ Working /\ Serving /\ SentMeansMailed
  BY DEF Inv
<1>2. /\ UNCHANGED outboxVars /\ UNCHANGED <<stalled, accepted, mails, attempts, result, audience>>
      /\ NoFault /\ mailer' = [mailer EXCEPT ![w] = m] /\ mailer[w] = NoMailer
      /\ job[e] = "waiting" /\ job' = [job EXCEPT ![e] = "active"]
  BY DEF Take
<1>3. m \in Mailers /\ m.stage = "prepare" /\ m.event = e
  BY DEF NoMailer, Mailers
<1> HIDE DEF m
<1>4. /\ job' \in [Events -> {"none", "waiting", "delayed", "active", "completed", "failed"}]
      /\ job'[e] = "active" /\ \A f \in Events \ {e} : job'[f] = job[f]
  BY <1>1, <1>2 DEF TypeOK
<1>5. \A v \in Workers \ {w} : mailer[v].event # e
  BY <1>1, <1>2, NoMailerIs DEF Working
<1>6. \A v \in Workers \ {w} : mailer[v] # NoMailer => mailer[v].event \in Events \ {e}
  BY <1>1, <1>5 DEF Working
<1>7. ServingOf(m, accepted', mails')
  BY <1>3 DEF ServingOf
<1>8. /\ mails' \in [Events -> [Recipients -> Nat]]
      /\ \A f \in Events, r \in Recipients : mails[f][r] <= mails'[f][r]
  BY <1>1, <1>2, MailsSame
<1>9. Working' /\ Serving'
  BY <1>1, <1>2, <1>3, <1>4, <1>5, <1>6, <1>7, <1>8, MailerSet
<1>10. Attempted'
  BY <1>1, <1>2, <1>4 DEF Attempted
<1>11. SentMeansMailed'
  BY <1>1, <1>2 DEF SentMeansMailed
<1>12. attempts' \in [Events -> 0 .. MaxAttempts] /\ audience' \in [Events -> SUBSET Recipients]
       /\ result' \in [Events -> {"none", "disabled", "skipped", "sent", "failed"}]
  BY <1>1, <1>2 DEF TypeOK
<1> QED BY <1>2, <1>3, <1>4, <1>9, <1>10, <1>11, <1>12, NoMailerIs, QuietKept

\* An attempt that fails before or after its messages.
LEMMA QuietThrowKept ==
  ASSUME Inv, NEW w \in Workers, mailer[w].stage \in {"prepare", "send"}, NEW e \in Events,
         e = mailer[w].event, Throw(w, e), NoFault \/ PlainFault, UNCHANGED outboxVars,
         UNCHANGED <<stalled, accepted, audience, mails>>
  PROVE  Inv'
<1>1. TypeOK
  BY DEF Inv
<1>2. /\ mails' \in [Events -> [Recipients -> Nat]]
      /\ \A f \in Events, r \in Recipients : mails[f][r] <= mails'[f][r]
  BY <1>1, MailsSame
<1>3. /\ job' \in [Events -> {"none", "waiting", "delayed", "active", "completed", "failed"}]
      /\ attempts' \in [Events -> 0 .. MaxAttempts] /\ Attempted'
      /\ result' \in [Events -> {"none", "disabled", "skipped", "sent", "failed"}]
      /\ Working' /\ Serving' /\ SentMeansMailed'
      /\ \A f \in Events \ {e} : job'[f] = job[f]
      /\ mailer' = [mailer EXCEPT ![w] = NoMailer]
  BY <1>2, ThrowKept
<1>4. job[e] = "active"
  BY BusyIs
<1>5. audience' \in [Events -> SUBSET Recipients]
  BY <1>1 DEF TypeOK
<1> QED BY <1>3, <1>4, <1>5, NoMailerIs, QuietKept

LEMMA PrepareKept ==
  ASSUME Inv, NEW w \in Workers, NEW found \in SUBSET Recipients, Prepare(w, found)
  PROVE  Inv'
<1>1. TypeOK /\ Attempted /\ Working /\ Serving /\ SentMeansMailed
  BY DEF Inv
<1>2. /\ UNCHANGED outboxVars /\ UNCHANGED <<stalled, accepted, mails, audience>>
      /\ NoFault /\ mailer[w].stage = "prepare"
  BY DEF Prepare
<1>3. PICK e \in Events : e = mailer[w].event /\ job[e] = "active"
                          /\ \A v \in Workers \ {w} : mailer[v].event # e
  BY <1>2, BusyIs
<1>4. CASE Throw(w, e)
  BY <1>2, <1>3, <1>4, QuietThrowKept
<1>5. CASE /\ mailer' = [mailer EXCEPT ![w].stage = "send", ![w].audience = found,
                                       ![w].todo = Unsent(found, e)]
           /\ UNCHANGED <<attempts, job, result>>
  <2> DEFINE m == [mailer[w] EXCEPT !.stage = "send", !.audience = found,
                                    !.todo = Unsent(found, e)]
  <2>1. mailer' = [mailer EXCEPT ![w] = m]
    BY <1>1, <1>5 DEF TypeOK
  <2>2. mailer[w] \in Mailers
    BY <1>1 DEF TypeOK
  <2>3. m \in Mailers /\ m.stage = "send" /\ m.event = e /\ m.audience = found
        /\ m.todo = found \ accepted[e]
    BY <1>3, <2>2 DEF Mailers, Unsent
  <2> HIDE DEF m
  <2>4. ASSUME NEW r \in accepted[e] PROVE mails[e][r] > 0
    BY <1>1, <2>4 DEF SentMeansMailed
  <2>5. ServingOf(m, accepted', mails')
    BY <1>2, <2>3, <2>4 DEF ServingOf
  <2>6. /\ mails' \in [Events -> [Recipients -> Nat]]
        /\ \A f \in Events, r \in Recipients : mails[f][r] <= mails'[f][r]
    BY <1>1, <1>2, MailsSame
  <2>7. job' = job /\ accepted' = accepted /\ job'[e] = "active"
    BY <1>2, <1>3, <1>5
  <2>8. Working' /\ Serving'
    BY <1>1, <1>3, <2>1, <2>3, <2>5, <2>6, <2>7, MailerSet
  <2>9. Attempted' /\ SentMeansMailed'
    BY <1>1, <1>2, <1>5 DEF Attempted, SentMeansMailed
  <2>10. /\ attempts' \in [Events -> 0 .. MaxAttempts]
         /\ audience' \in [Events -> SUBSET Recipients]
         /\ result' \in [Events -> {"none", "disabled", "skipped", "sent", "failed"}]
         /\ job' \in [Events -> {"none", "waiting", "delayed", "active", "completed", "failed"}]
    BY <1>1, <1>2, <1>5 DEF TypeOK
  <2> QED BY <1>2, <2>1, <2>3, <2>7, <2>8, <2>9, <2>10, QuietKept
<1> QED BY <1>3, <1>4, <1>5 DEF Prepare

\* A job completes: skipped, or sent to its whole audience.
LEMMA CompleteKept ==
  ASSUME Inv, NEW w \in Workers, Skip(w) \/ Complete(w)
  PROVE  Inv'
<1>1. TypeOK /\ Attempted /\ Working /\ Serving /\ SentMeansMailed
  BY DEF Inv
<1>2. /\ UNCHANGED outboxVars /\ UNCHANGED <<stalled, accepted, mails, attempts>>
      /\ NoFault /\ mailer[w].stage \in {"prepare", "send"}
      /\ mailer' = [mailer EXCEPT ![w] = NoMailer]
  BY DEF Skip, Complete
<1>3. PICK e \in Events : e = mailer[w].event /\ job[e] = "active"
                          /\ \A v \in Workers \ {w} : mailer[v].event # e
  BY <1>2, BusyIs
<1>4. job' = [job EXCEPT ![e] = "completed"]
  BY <1>3 DEF Skip, Complete
<1>5. /\ job' \in [Events -> {"none", "waiting", "delayed", "active", "completed", "failed"}]
      /\ job'[e] = "completed" /\ \A f \in Events \ {e} : job'[f] = job[f]
  BY <1>1, <1>4 DEF TypeOK
<1>6. \A v \in Workers \ {w} : mailer[v] # NoMailer => mailer[v].event \in Events \ {e}
  BY <1>1, <1>3 DEF Working
<1>7. ServingOf(NoMailer, accepted', mails')
  BY NoMailerIs DEF ServingOf
<1>8. /\ mails' \in [Events -> [Recipients -> Nat]]
      /\ \A f \in Events, r \in Recipients : mails[f][r] <= mails'[f][r]
  BY <1>1, <1>2, MailsSame
<1>9. Working' /\ Serving'
  BY <1>1, <1>2, <1>5, <1>6, <1>7, <1>8, NoMailerIs, MailerSet
<1>10. Attempted' /\ attempts' \in [Events -> 0 .. MaxAttempts]
  BY <1>1, <1>2, <1>5 DEF Attempted, TypeOK
<1>11. mailer[w] \in Mailers
  BY <1>1 DEF TypeOK
<1>12. /\ result' \in [Events -> {"none", "disabled", "skipped", "sent", "failed"}]
       /\ audience' \in [Events -> SUBSET Recipients] /\ SentMeansMailed'
  <2>1. CASE Skip(w)
    <3>1. result' = [result EXCEPT ![e] = "skipped"] /\ audience' = audience
      BY <1>3, <2>1 DEF Skip
    <3> QED BY <1>1, <1>2, <3>1 DEF TypeOK, SentMeansMailed
  <2>2. CASE Complete(w)
    <3>1. result' = [result EXCEPT ![e] = "sent"] /\ mailer[w].todo = {}
          /\ audience' = [audience EXCEPT ![e] = mailer[w].audience] /\ mailer[w].stage = "send"
      BY <1>3, <2>2 DEF Complete
    <3>2. mailer[w].audience \subseteq Recipients
      BY <1>11 DEF Mailers
    <3>3. ASSUME NEW r \in mailer[w].audience PROVE mails[e][r] > 0
      BY <1>1, <1>3, <3>1, <3>3 DEF Serving, ServingOf
    <3>4. audience' \in [Events -> SUBSET Recipients] /\ audience'[e] = mailer[w].audience
          /\ \A f \in Events \ {e} : audience'[f] = audience[f]
      BY <1>1, <3>1, <3>2 DEF TypeOK
    <3>5. /\ result' \in [Events -> {"none", "disabled", "skipped", "sent", "failed"}]
          /\ \A f \in Events \ {e} : result'[f] = result[f]
      BY <1>1, <3>1 DEF TypeOK
    <3> QED BY <1>1, <1>2, <3>3, <3>4, <3>5 DEF SentMeansMailed
  <2> QED BY <2>1, <2>2
<1> QED BY <1>2, <1>3, <1>5, <1>9, <1>10, <1>12, NoMailerIs, QuietKept

LEMMA CompleteFailsKept ==
  ASSUME Inv, NEW w \in Workers, CompleteFails(w)
  PROVE  Inv'
<1>1. /\ UNCHANGED outboxVars /\ UNCHANGED <<stalled, accepted, mails, audience>>
      /\ PlainFault /\ mailer[w].stage = "send" /\ Throw(w, mailer[w].event)
  BY DEF CompleteFails
<1>2. mailer[w].event \in Events
  BY <1>1, BusyIs
<1> QED BY <1>1, <1>2, QuietThrowKept

\* What a worker is about to send is owed.
LEMMA TodoOwed ==
  ASSUME Inv, NEW w \in Workers, mailer[w].stage = "send", NEW e \in Events,
         e = mailer[w].event, NEW r \in mailer[w].todo
  PROVE  Owed(e, r) /\ r \in Recipients
<1>1. /\ mailer[w] \in Mailers /\ job[e] = "active"
      /\ \A v \in Workers \ {w} : mailer[v].event # e
  BY BusyIs
<1>2. r \in Recipients
  BY <1>1 DEF Mailers
<1>3. r \notin accepted[e]
  BY DEF Inv, Serving, ServingOf
<1>4. ~Unrecorded(e, r)
  BY <1>1 DEF Unrecorded
<1> QED BY <1>1, <1>2, <1>3, <1>4 DEF Owed

LEMMA SendKept ==
  ASSUME Inv, NEW w \in Workers, NEW r \in Recipients, Send(w, r)
  PROVE  Inv'
<1> DEFINE m == [mailer[w] EXCEPT !.stage = "sent", !.to = r]
<1>1. TypeOK /\ Attempted /\ Working /\ Serving /\ SentMeansMailed /\ LostBound
      /\ mailer[w] \in Mailers
  BY DEF Inv, TypeOK
<1>2. /\ UNCHANGED outboxVars /\ UNCHANGED <<job, attempts, stalled, accepted, result, audience>>
      /\ NoFault /\ mailer[w].stage = "send" /\ r \in mailer[w].todo
      /\ mailer' = [mailer EXCEPT ![w] = m]
  BY <1>1 DEF Send, jobVars, TypeOK
<1>3. PICK e \in Events : e = mailer[w].event /\ job[e] = "active"
                          /\ \A v \in Workers \ {w} : mailer[v].event # e
  BY <1>2, BusyIs
<1>4. Delivered(e, r)
  BY <1>3 DEF Send
<1>5. /\ mails' \in [Events -> [Recipients -> Nat]]
      /\ mails'[e][r] = mails[e][r] + 1 /\ mails'[e][r] > 0
      /\ \A s \in Recipients \ {r} : mails'[e][s] = mails[e][s]
      /\ \A f \in Events \ {e} : mails'[f] = mails[f]
      /\ \A f \in Events, s \in Recipients : mails[f][s] <= mails'[f][s]
  BY <1>1, <1>4, DeliveredIs
<1>6. /\ m \in Mailers /\ m.stage = "sent" /\ m.event = e /\ m.to = r
      /\ m.todo = mailer[w].todo /\ m.audience = mailer[w].audience
  BY <1>1, <1>3 DEF Mailers
<1> HIDE DEF m
<1>7. ServingOf(m, accepted', mails')
  <2>1. mailer[w].event \in Events /\ mailer[w] \in Mailers
        /\ accepted'[mailer[w].event] = accepted[mailer[w].event]
    BY <1>1, <1>2, <1>3
  <2>2. ServingOf(mailer[w], accepted, mails)
    BY <1>1 DEF Serving
  <2>3. mails \in [Events -> [Recipients -> Nat]] /\ accepted' = accepted
    BY <1>1, <1>2 DEF TypeOK
  <2>4. /\ mails' \in [Events -> [Recipients -> Nat]]
        /\ \A f \in Events, s \in Recipients : mails[f][s] <= mails'[f][s]
    BY <1>5
  <2>5. ServingOf(mailer[w], accepted', mails')
    BY <2>1, <2>2, <2>3, <2>4, ServingMore
  <2> QED BY <1>2, <1>3, <1>5, <1>6, <2>5 DEF ServingOf
<1>8. mailer' \in [Workers -> Mailers] /\ Working' /\ Serving'
  <2>1. job' = job /\ accepted' = accepted /\ job'[m.event] = "active"
    BY <1>2, <1>3, <1>6
  <2>2. \/ m = NoMailer
        \/ /\ m.stage # "idle" /\ m.event \in Events /\ job'[m.event] = "active"
           /\ \A v \in Workers \ {w} : mailer[v].event # m.event
    BY <1>3, <1>6, <2>1
  <2>3. /\ mails' \in [Events -> [Recipients -> Nat]]
        /\ \A f \in Events, s \in Recipients : mails[f][s] <= mails'[f][s]
    BY <1>5
  <2> QED BY <1>1, <1>2, <1>6, <1>7, <2>1, <2>2, <2>3, MailerSet
<1>9. SentMeansMailed'
  BY <1>1, <1>2, <1>5, SentKept
<1>10. /\ job' \in [Events -> {"none", "waiting", "delayed", "active", "completed", "failed"}]
       /\ attempts' \in [Events -> 0 .. MaxAttempts] /\ accepted' \in [Events -> SUBSET Recipients]
       /\ result' \in [Events -> {"none", "disabled", "skipped", "sent", "failed"}]
       /\ audience' \in [Events -> SUBSET Recipients] /\ Attempted'
  BY <1>1, <1>2 DEF TypeOK, Attempted
<1>11. /\ lost' = lost /\ faults' \in 0 .. MaxFaults /\ LostBound'
       /\ lost \in [Events -> Nat] /\ lost \in [Events -> 0 .. 2 * MaxFaults]
  BY <1>1, <1>2, PlainKept
<1>12. Within(mails'[e][r], lost'[e], Fresh(e)', Owed(e, r)')
  <2>1. Owed(e, r)
    BY <1>2, <1>3, TodoOwed
  <2>2. mailer'[w] = m
    BY <1>1, <1>2 DEF TypeOK
  <2>3. ~Owed(e, r)'
    BY <1>6, <2>2 DEF Owed, Unrecorded
  <2> QED BY <1>2, <1>5, <1>11, <2>1, <2>3, MessageSpent
<1>13. ASSUME NEW f \in Events, NEW s \in Recipients, f # e \/ s # r
       PROVE  Within(mails'[f][s], lost'[f], Fresh(f)', Owed(f, s)')
  <2>1. mails'[f][s] = mails[f][s]
    BY <1>5, <1>13
  <2>2. lost[f] <= lost'[f]
    BY <1>11
  <2> QED BY <1>2, <1>5, <1>6, <1>11, <1>13, <2>1, <2>2, OthersKept
<1> QED BY <1>2, <1>5, <1>8, <1>9, <1>10, <1>11, <1>12, <1>13, MailKept

LEMMA SendFailsKept ==
  ASSUME Inv, NEW w \in Workers, NEW r \in Recipients, SendFails(w, r)
  PROVE  Inv'
<1>1. TypeOK /\ LostBound
  BY DEF Inv
<1>2. /\ UNCHANGED outboxVars /\ UNCHANGED <<stalled, accepted, audience>>
      /\ mailer[w].stage = "send" /\ r \in mailer[w].todo
  BY DEF SendFails
<1>3. PICK e \in Events : e = mailer[w].event /\ job[e] = "active"
  BY <1>2, BusyIs
<1>4. Throw(w, e)
  BY <1>3 DEF SendFails
<1>5. CASE NoFault /\ UNCHANGED mails
  BY <1>2, <1>3, <1>4, <1>5, QuietThrowKept
<1>6. CASE LostEffect(e) /\ Delivered(e, r)
  <2>1. /\ mails' \in [Events -> [Recipients -> Nat]]
        /\ mails'[e][r] = mails[e][r] + 1
        /\ \A s \in Recipients \ {r} : mails'[e][s] = mails[e][s]
        /\ \A f \in Events \ {e} : mails'[f] = mails[f]
        /\ \A f \in Events, s \in Recipients : mails[f][s] <= mails'[f][s]
    BY <1>1, <1>6, DeliveredIs
  <2>2. /\ lost' \in [Events -> 0 .. 2 * MaxFaults] /\ faults' \in 0 .. MaxFaults
        /\ LostBound' /\ lost' \in [Events -> Nat] /\ lost'[e] = lost[e] + 1
        /\ \A f \in Events \ {e} : lost'[f] = lost[f]
    BY <1>1, <1>6, LostKept
  <2>3. /\ job' \in [Events -> {"none", "waiting", "delayed", "active", "completed", "failed"}]
        /\ attempts' \in [Events -> 0 .. MaxAttempts] /\ Attempted'
        /\ result' \in [Events -> {"none", "disabled", "skipped", "sent", "failed"}]
        /\ mailer' \in [Workers -> Mailers] /\ Working' /\ Serving' /\ SentMeansMailed'
        /\ \A f \in Events \ {e} : job'[f] = job[f]
        /\ mailer' = [mailer EXCEPT ![w] = NoMailer]
    BY <1>2, <1>3, <1>4, <2>1, ThrowKept
  <2>4. audience' \in [Events -> SUBSET Recipients] /\ accepted' \in [Events -> SUBSET Recipients]
    BY <1>1, <1>2 DEF TypeOK
  <2>5. Within(mails'[e][r], lost'[e], Fresh(e)', Owed(e, r)')
    BY <1>2, <1>3, <2>1, <2>2, TodoOwed, MessageSpent
  <2>6. ASSUME NEW s \in Recipients \ {r}
        PROVE  Within(mails'[e][s], lost'[e], Fresh(e)', Owed(e, s)')
    BY <1>2, <2>1, <2>2, FaultPays
  <2>7. ASSUME NEW f \in Events \ {e}, NEW s \in Recipients
        PROVE  Within(mails'[f][s], lost'[f], Fresh(f)', Owed(f, s)')
    <3>1. lost[f] <= lost'[f]
      <4>1. lost[f] \in Nat
        BY <1>1, LostNat
      <4> QED BY <2>2, <4>1
    <3> QED BY <1>2, <2>1, <2>2, <2>3, <3>1, NoMailerIs, OthersKept
  <2> QED BY <1>2, <2>1, <2>2, <2>3, <2>4, <2>5, <2>6, <2>7, MailKept
<1> QED BY <1>3, <1>5, <1>6 DEF SendFails

LEMMA RecordFailsKept ==
  ASSUME Inv, NEW w \in Workers, RecordFails(w)
  PROVE  Inv'
<1>1. TypeOK /\ LostBound
  BY DEF Inv
<1>2. /\ UNCHANGED outboxVars /\ UNCHANGED <<stalled, accepted, audience, mails>>
      /\ mailer[w].stage = "sent"
  BY DEF RecordFails
<1>3. PICK e \in Events : e = mailer[w].event
  BY <1>2, BusyIs
<1>4. Throw(w, e) /\ LostEffect(e)
  BY <1>3 DEF RecordFails
<1>5. /\ mails' \in [Events -> [Recipients -> Nat]]
      /\ \A f \in Events, s \in Recipients : mails[f][s] <= mails'[f][s]
  BY <1>1, <1>2, MailsSame
<1>6. /\ lost' \in [Events -> 0 .. 2 * MaxFaults] /\ faults' \in 0 .. MaxFaults
      /\ LostBound' /\ lost' \in [Events -> Nat] /\ lost'[e] = lost[e] + 1
      /\ \A f \in Events \ {e} : lost'[f] = lost[f]
  BY <1>1, <1>4, LostKept
<1>7. /\ job' \in [Events -> {"none", "waiting", "delayed", "active", "completed", "failed"}]
      /\ attempts' \in [Events -> 0 .. MaxAttempts] /\ Attempted'
      /\ result' \in [Events -> {"none", "disabled", "skipped", "sent", "failed"}]
      /\ mailer' \in [Workers -> Mailers] /\ Working' /\ Serving' /\ SentMeansMailed'
      /\ \A f \in Events \ {e} : job'[f] = job[f]
      /\ mailer' = [mailer EXCEPT ![w] = NoMailer]
  BY <1>2, <1>3, <1>4, <1>5, ThrowKept
<1>8. audience' \in [Events -> SUBSET Recipients] /\ accepted' \in [Events -> SUBSET Recipients]
  BY <1>1, <1>2 DEF TypeOK
<1>9. ASSUME NEW s \in Recipients
      PROVE  Within(mails'[e][s], lost'[e], Fresh(e)', Owed(e, s)')
  BY <1>2, <1>6, FaultPays
<1>10. ASSUME NEW f \in Events \ {e}, NEW s \in Recipients
       PROVE  Within(mails'[f][s], lost'[f], Fresh(f)', Owed(f, s)')
  <2>1. lost[f] <= lost'[f]
    <3>1. lost[f] \in Nat
      BY <1>1, LostNat
    <3> QED BY <1>6, <3>1
  <2> QED BY <1>2, <1>3, <1>5, <1>6, <1>7, <2>1, NoMailerIs, OthersKept
<1> QED BY <1>2, <1>5, <1>6, <1>7, <1>8, <1>9, <1>10, MailKept

LEMMA RecordKept ==
  ASSUME Inv, NEW w \in Workers, RecordAccepted(w)
  PROVE  Inv'
<1>1. TypeOK /\ Attempted /\ Working /\ Serving /\ SentMeansMailed /\ LostBound
      /\ mailer[w] \in Mailers
  BY DEF Inv, TypeOK
<1>2. mailer[w].stage = "sent"
  BY DEF RecordAccepted
<1>3. PICK e \in Events : e = mailer[w].event /\ job[e] = "active"
                          /\ \A v \in Workers \ {w} : mailer[v].event # e
  BY <1>2, BusyIs
<1>4. PICK r : r = mailer[w].to
  OBVIOUS
<1> DEFINE m == [mailer[w] EXCEPT !.stage = "send", !.todo = mailer[w].todo \ {r}, !.to = Nobody]
<1>5. /\ UNCHANGED outboxVars /\ UNCHANGED <<job, attempts, stalled, result, audience, mails>>
      /\ NoFault /\ mailer' = [mailer EXCEPT ![w] = m]
      /\ accepted' = [accepted EXCEPT ![e] = accepted[e] \cup {r}]
  BY <1>1, <1>3, <1>4 DEF RecordAccepted, Recorded, TypeOK
<1>6. r \in mailer[w].todo /\ mails[e][r] > 0 /\ r \in Recipients
  BY <1>1, <1>2, <1>3, <1>4 DEF Serving, ServingOf, Mailers
<1>7. /\ m \in Mailers /\ m.stage = "send" /\ m.event = e
      /\ m.todo = mailer[w].todo \ {r} /\ m.audience = mailer[w].audience
  BY <1>1, <1>3 DEF Mailers
<1> HIDE DEF m
<1>8. /\ accepted' \in [Events -> SUBSET Recipients] /\ accepted'[e] = accepted[e] \cup {r}
      /\ \A f \in Events \ {e} : accepted'[f] = accepted[f]
  BY <1>1, <1>5, <1>6 DEF TypeOK
<1>9. /\ mails' \in [Events -> [Recipients -> Nat]]
      /\ \A f \in Events, s \in Recipients : mails[f][s] <= mails'[f][s]
  BY <1>1, <1>5, MailsSame
<1>10. ServingOf(m, accepted', mails')
  <2>1. ServingOf(mailer[w], accepted, mails)
    BY <1>1 DEF Serving
  <2>2. \A s \in m.todo : s \notin accepted'[e]
    BY <1>2, <1>3, <1>7, <1>8, <2>1 DEF ServingOf
  <2>3. \A s \in m.audience : s \in m.todo \/ mails'[e][s] > 0
    BY <1>2, <1>3, <1>5, <1>6, <1>7, <2>1 DEF ServingOf
  <2> QED BY <1>7, <2>2, <2>3 DEF ServingOf
<1>11. mailer' \in [Workers -> Mailers] /\ Working' /\ Serving'
  <2>1. job' = job /\ job'[m.event] = "active"
    BY <1>3, <1>5, <1>7
  <2>2. \A v \in Workers \ {w} : mailer[v] # NoMailer => mailer[v].event \in Events \ {e}
    BY <1>1, <1>3 DEF Working
  <2>3. \A v \in Workers \ {w} :
          mailer[v] # NoMailer => /\ job'[mailer[v].event] = job[mailer[v].event]
                                  /\ accepted'[mailer[v].event] = accepted[mailer[v].event]
    BY <1>8, <2>1, <2>2
  <2>4. \/ m = NoMailer
        \/ /\ m.stage # "idle" /\ m.event \in Events /\ job'[m.event] = "active"
           /\ \A v \in Workers \ {w} : mailer[v].event # m.event
    BY <1>3, <1>7, <2>1
  <2> QED BY <1>1, <1>5, <1>7, <1>9, <1>10, <2>3, <2>4, MailerSet
<1>12. SentMeansMailed'
  BY <1>1, <1>5, <1>6, <1>8 DEF SentMeansMailed
<1>13. /\ job' \in [Events -> {"none", "waiting", "delayed", "active", "completed", "failed"}]
       /\ attempts' \in [Events -> 0 .. MaxAttempts]
       /\ result' \in [Events -> {"none", "disabled", "skipped", "sent", "failed"}]
       /\ audience' \in [Events -> SUBSET Recipients] /\ Attempted'
  BY <1>1, <1>5 DEF TypeOK, Attempted
<1>14. /\ lost' = lost /\ faults' \in 0 .. MaxFaults /\ LostBound'
       /\ lost \in [Events -> Nat] /\ lost \in [Events -> 0 .. 2 * MaxFaults]
  BY <1>1, <1>5, PlainKept
<1>15. Within(mails'[e][r], lost'[e], Fresh(e)', Owed(e, r)')
  <2>1. ~Owed(e, r)'
    BY <1>8 DEF Owed
  <2>2. Fresh(e)' => Fresh(e)
    BY <1>1, <1>5, OutboxKept DEF Inv
  <2>3. Within(mails[e][r], lost[e], Fresh(e), Owed(e, r))
    BY <1>6 DEF Inv, Budget
  <2>4. lost[e] <= lost'[e] /\ mails'[e][r] = mails[e][r]
    BY <1>5, <1>14
  <2> QED BY <1>1, <1>6, <1>9, <1>14, <2>1, <2>2, <2>3, <2>4, WithinSame
<1>16. ASSUME NEW f \in Events, NEW s \in Recipients, f # e \/ s # r
       PROVE  Within(mails'[f][s], lost'[f], Fresh(f)', Owed(f, s)')
  <2>1. mails'[f][s] = mails[f][s] /\ job'[f] = job[f]
        /\ (s \in accepted[f] => s \in accepted'[f])
    BY <1>5, <1>8
  <2>2. lost[f] <= lost'[f]
    BY <1>14
  <2> QED BY <1>3, <1>4, <1>5, <1>7, <1>9, <1>14, <1>16, <2>1, <2>2, OthersKept
<1> QED BY <1>5, <1>8, <1>9, <1>11, <1>12, <1>13, <1>14, <1>15, <1>16, MailKept

-----------------------------------------------------------------------------
(* The queue and its failures *)

\* Nothing but the state of a job changes, and the job does not appear.
LEMMA JobKept ==
  ASSUME Inv, UNCHANGED outboxVars, UNCHANGED <<mailer, audience, mails>>, NoFault,
         job' \in [Events -> {"none", "waiting", "delayed", "active", "completed", "failed"}],
         attempts' \in [Events -> 0 .. MaxAttempts], stalled' \in [Events -> BOOLEAN],
         accepted' \in [Events -> SUBSET Recipients], Attempted',
         result' \in [Events -> {"none", "disabled", "skipped", "sent", "failed"}],
         \A e \in Events : result'[e] = "sent" => result[e] = "sent",
         \A e \in Events : job[e] = "none" => job'[e] = "none",
         \A e \in Events : accepted'[e] = accepted[e] \/ (accepted'[e] = {} /\ job'[e] = "none"),
         \A w \in Workers : mailer[w] # NoMailer =>
           /\ job'[mailer[w].event] = job[mailer[w].event]
           /\ accepted'[mailer[w].event] = accepted[mailer[w].event]
  PROVE  Inv'
<1>1. TypeOK /\ OneDispatch /\ Listed /\ LostBound /\ Working /\ Serving /\ SentMeansMailed
      /\ Budget
  BY DEF Inv
<1>2. /\ outbox' \in [Events -> {"none", "pending", "waiting", "queued", "removed"}]
      /\ enabled' \in [Events -> BOOLEAN] /\ dispatch' \in [Workers -> Dispatches]
      /\ OneDispatch' /\ Listed'
      /\ \A e : Fresh(e)' <=> Fresh(e)
  BY <1>1, OutboxKept
<1>3. /\ lost' = lost /\ faults' \in 0 .. MaxFaults /\ LostBound'
      /\ lost \in [Events -> Nat] /\ lost \in [Events -> 0 .. 2 * MaxFaults]
  BY <1>1, PlainKept
<1>4. TypeOK'
  BY <1>1, <1>2, <1>3 DEF TypeOK
<1>5. Working'
  BY <1>1 DEF Working
<1>6. Serving'
  <2>1. ASSUME NEW w \in Workers PROVE ServingOf(mailer[w], accepted', mails)
    <3>1. CASE mailer[w] = NoMailer
      BY <3>1, NoMailerIs DEF ServingOf
    <3>2. CASE mailer[w] # NoMailer
      BY <1>1, <3>2 DEF Serving, ServingOf
    <3> QED BY <3>1, <3>2
  <2> QED BY <2>1 DEF Serving
<1>7. SentMeansMailed'
  <2>1. \A e \in Events : accepted'[e] \subseteq accepted[e]
    OBVIOUS
  <2> QED BY <1>1, <2>1, MailsSame, SentKept
<1>8. ASSUME NEW e \in Events, NEW r \in Recipients
      PROVE  Within(mails'[e][r], lost'[e], Fresh(e)', Owed(e, r)')
  <2>1. Owed(e, r)' => Owed(e, r)
    BY DEF Owed, Unrecorded
  <2>2. Within(mails[e][r], lost[e], Fresh(e), Owed(e, r))
    BY <1>1 DEF Budget
  <2>3. lost[e] <= lost'[e] /\ mails'[e][r] = mails[e][r] /\ lost' \in [Events -> Nat]
        /\ mails' \in [Events -> [Recipients -> Nat]]
    BY <1>1, <1>3 DEF TypeOK
  <2> QED BY <1>1, <1>2, <2>1, <2>2, <2>3, WithinSame
<1> QED BY <1>2, <1>3, <1>4, <1>5, <1>6, <1>7, <1>8 DEF Inv, Budget

LEMMA QueueStepKept ==
  ASSUME Inv, NEW e \in Events,
         DelayEnds(e) \/ RecoverStalled(e) \/ RetryDelivery(e) \/ ForgetJob(e)
  PROVE  Inv'
<1>1. TypeOK /\ Attempted /\ Working
  BY DEF Inv
<1>2. UNCHANGED outboxVars /\ UNCHANGED <<mailer, audience, mails>> /\ NoFault
  BY DEF DelayEnds, RecoverStalled, RetryDelivery, ForgetJob
<1>3. /\ job' \in [Events -> {"none", "waiting", "delayed", "active", "completed", "failed"}]
      /\ job[e] # "none" /\ \A f \in Events \ {e} : job'[f] = job[f]
  BY <1>1 DEF DelayEnds, RecoverStalled, RetryDelivery, ForgetJob, TypeOK
<1>4. /\ stalled' \in [Events -> BOOLEAN]
      /\ result' \in [Events -> {"none", "disabled", "skipped", "sent", "failed"}]
      /\ \A f \in Events : result'[f] = "sent" => result[f] = "sent"
  <2>1. stalled' = stalled \/ \E b \in BOOLEAN : stalled' = [stalled EXCEPT ![e] = b]
    BY DEF DelayEnds, RecoverStalled, RetryDelivery, ForgetJob
  <2>2. result' = result \/ result' = [result EXCEPT ![e] = "failed"]
    BY DEF DelayEnds, RecoverStalled, RetryDelivery, ForgetJob
  <2>3. /\ stalled \in [Events -> BOOLEAN]
        /\ result \in [Events -> {"none", "disabled", "skipped", "sent", "failed"}]
    BY <1>1 DEF TypeOK
  <2>4. stalled' \in [Events -> BOOLEAN]
    BY <2>1, <2>3
  <2> QED BY <2>2, <2>3, <2>4
<1>5. 0 \in 0 .. MaxAttempts /\ 0 < MaxAttempts
  BY DeliveryAssumption
<1>6. /\ attempts' \in [Events -> 0 .. MaxAttempts]
      /\ \A f \in Events \ {e} : attempts'[f] = attempts[f]
  <2>1. attempts' = attempts \/ attempts' = [attempts EXCEPT ![e] = 0]
    BY DEF DelayEnds, RecoverStalled, RetryDelivery, ForgetJob
  <2>2. attempts \in [Events -> 0 .. MaxAttempts]
    BY <1>1 DEF TypeOK
  <2> QED BY <1>5, <2>1, <2>2
<1>7. /\ job'[e] \in {"waiting", "delayed", "active"} => attempts'[e] < MaxAttempts
      /\ job'[e] = "none" => attempts'[e] = 0
  BY <1>1, <1>5 DEF DelayEnds, RecoverStalled, RetryDelivery, ForgetJob, TypeOK, Attempted
<1>8. Attempted'
  BY <1>1, <1>3, <1>6, <1>7 DEF Attempted
<1>9. /\ accepted' \in [Events -> SUBSET Recipients]
      /\ \A f \in Events \ {e} : accepted'[f] = accepted[f]
      /\ accepted'[e] = accepted[e] \/ (accepted'[e] = {} /\ job'[e] = "none")
  BY <1>1 DEF DelayEnds, RecoverStalled, RetryDelivery, ForgetJob, TypeOK
<1>10. \A w \in Workers : mailer[w] # NoMailer => mailer[w].event \in Events \ {e}
  BY <1>1 DEF DelayEnds, RecoverStalled, RetryDelivery, ForgetJob, Working
<1> QED BY <1>2, <1>3, <1>4, <1>6, <1>8, <1>9, <1>10, JobKept

LEMMA CrashKept ==
  ASSUME Inv, NEW w \in Workers, Crash(w)
  PROVE  Inv'
<1> DEFINE U(e) == dispatch[w].stage = "added" /\ dispatch[w].event = e
<1> DEFINE V(e) == mailer[w].stage = "sent" /\ mailer[w].event = e
<1>1. TypeOK /\ OneDispatch /\ Listed /\ LostBound /\ Working /\ Serving /\ SentMeansMailed
      /\ Attempted /\ Budget
  BY DEF Inv
<1>2. /\ UNCHANGED <<outbox, enabled, result, audience, mails, job, attempts, stalled, accepted>>
      /\ dispatch' = [dispatch EXCEPT ![w] = NoDispatch]
      /\ mailer' = [mailer EXCEPT ![w] = NoMailer]
  BY DEF Crash, jobVars
<1>3. /\ lost' = [e \in Events |-> lost[e] + One(U(e)) + One(V(e))]
      /\ faults < MaxFaults /\ faults' = faults + 1
  BY DEF Crash, One
<1>4. /\ lost \in [Events -> Nat] /\ faults \in Nat /\ MaxFaults \in Nat
      /\ faults' \in 0 .. MaxFaults
  BY <1>1, <1>3, LostNat, DeliveryAssumption DEF TypeOK
<1>5. ASSUME NEW e \in Events
      PROVE  /\ lost'[e] \in 0 .. 2 * MaxFaults /\ lost'[e] <= 2 * faults'
             /\ lost'[e] = lost[e] + One(U(e)) + One(V(e)) /\ lost'[e] \in Nat
  <2> HIDE DEF U, V
  <2>1. One(U(e)) \in {0, 1} /\ One(V(e)) \in {0, 1}
    BY OneIs
  <2>2. lost[e] \in Nat /\ lost[e] <= 2 * faults
    BY <1>1, <1>4 DEF LostBound
  <2>3. lost'[e] = lost[e] + One(U(e)) + One(V(e))
    BY <1>3
  <2> QED BY <1>3, <1>4, <2>1, <2>2, <2>3
<1>6. lost' \in [Events -> 0 .. 2 * MaxFaults] /\ LostBound' /\ lost' \in [Events -> Nat]
  BY <1>3, <1>5 DEF LostBound
<1>7. dispatch' \in [Workers -> Dispatches] /\ OneDispatch' /\ Listed'
  BY <1>1, <1>2, NoDispatchIs, DispatchSet DEF Listed
<1>8. /\ mails' \in [Events -> [Recipients -> Nat]]
      /\ \A f \in Events, s \in Recipients : mails[f][s] <= mails'[f][s]
  BY <1>1, <1>2, MailsSame
<1>9. ServingOf(NoMailer, accepted', mails')
  BY NoMailerIs DEF ServingOf
<1>10. mailer' \in [Workers -> Mailers] /\ Working' /\ Serving'
  BY <1>1, <1>2, <1>8, <1>9, NoMailerIs, MailerSet
<1>11. TypeOK'
  BY <1>1, <1>2, <1>4, <1>6, <1>7, <1>10 DEF TypeOK
<1>12. Attempted' /\ SentMeansMailed'
  BY <1>1, <1>2 DEF Attempted, SentMeansMailed
<1>13. /\ dispatch'[w] = NoDispatch /\ \A v \in Workers \ {w} : dispatch'[v] = dispatch[v]
       /\ mailer'[w] = NoMailer /\ \A v \in Workers \ {w} : mailer'[v] = mailer[v]
  BY <1>1, <1>2 DEF TypeOK
<1>14. ASSUME NEW e \in Events, NEW r \in Recipients
       PROVE  Within(mails'[e][r], lost'[e], Fresh(e)', Owed(e, r)')
  <2>1. Fresh(e)' => Fresh(e) \/ U(e)
    BY <1>2, <1>13 DEF Fresh
  <2>2. Owed(e, r)' => Owed(e, r) \/ V(e)
    BY <1>2, <1>13 DEF Owed, Unrecorded
  <2> HIDE DEF U, V
  <2>3. PICK f \in {0, 1}, g \in {0, 1}, u \in {0, 1} :
          f = One(Fresh(e)) /\ g = One(Fresh(e)') /\ u = One(U(e)) /\ (g = 0 \/ f = 1 \/ u = 1)
    BY <2>1 DEF One
  <2>4. PICK o \in {0, 1}, p \in {0, 1}, v \in {0, 1} :
          o = One(Owed(e, r)) /\ p = One(Owed(e, r)') /\ v = One(V(e)) /\ (p = 0 \/ o = 1 \/ v = 1)
    BY <2>2 DEF One
  <2>5. mails[e][r] \in Nat /\ lost[e] \in Nat /\ mails'[e][r] = mails[e][r]
    BY <1>1, <1>2, <1>4 DEF TypeOK
  <2>6. Within(mails[e][r], lost[e], Fresh(e), Owed(e, r))
    BY <1>1 DEF Budget
  <2>7. mails[e][r] + f + o <= lost[e] + 1
    BY <2>3, <2>4, <2>6 DEF Within
  <2>8. lost'[e] = lost[e] + u + v
    BY <1>5, <2>3, <2>4
  <2>9. mails'[e][r] + g + p <= lost'[e] + 1
    BY <2>3, <2>4, <2>5, <2>7, <2>8
  <2> QED BY <2>3, <2>4, <2>9 DEF Within
<1> QED BY <1>6, <1>7, <1>10, <1>11, <1>12, <1>14 DEF Inv, Budget

-----------------------------------------------------------------------------
(* The theorems *)

LEMMA InitInv == Init => Inv
<1> SUFFICES ASSUME Init PROVE Inv
  OBVIOUS
<1>1. MaxAttempts \in Nat /\ MaxAttempts > 0 /\ MaxFaults \in Nat
      /\ 0 \in 0 .. MaxAttempts /\ 0 \in 0 .. MaxFaults /\ 0 \in 0 .. 2 * MaxFaults
  BY DeliveryAssumption
<1>2. TypeOK
  BY <1>1, NoDispatchIs, NoMailerIs DEF Init, TypeOK
<1>3. Attempted /\ LostBound
  BY <1>1 DEF Init, Attempted, LostBound
<1>4. OneDispatch /\ Listed
  BY NoDispatchIs DEF Init, OneDispatch, Listed
<1>5. Working /\ Serving
  BY NoMailerIs DEF Init, Working, Serving, ServingOf
<1>6. SentMeansMailed
  BY DEF Init, SentMeansMailed
<1>7. ASSUME NEW e \in Events, NEW r \in Recipients
      PROVE  Within(mails[e][r], lost[e], Fresh(e), Owed(e, r))
  <2>1. mails[e][r] = 0 /\ lost[e] = 0 /\ ~Owed(e, r)
    BY DEF Init, Owed
  <2>2. One(Owed(e, r)) = 0 /\ One(Fresh(e)) \in {0, 1}
    BY <2>1 DEF One
  <2> QED BY <2>1, <2>2 DEF Within
<1> QED BY <1>2, <1>3, <1>4, <1>5, <1>6, <1>7 DEF Inv, Budget

LEMMA InvStep == Inv /\ [Next]_vars => Inv'
<1>1. ASSUME Inv, UNCHANGED vars PROVE Inv'
  <2>1. /\ UNCHANGED <<job, attempts, stalled, accepted, mailer, result, audience, mails>>
        /\ UNCHANGED <<lost, faults>> /\ UNCHANGED outboxVars
    BY <1>1 DEF vars, outboxVars
  <2> QED BY <1>1, <2>1, OutboxKept, QueueKept DEF Inv
<1>2. ASSUME Inv, OutboxNext PROVE Inv'
  BY <1>2, RowKept, TickKept, EnqueueKept, EnqueueFailsKept DEF OutboxNext
<1>3. ASSUME Inv, MailNext PROVE Inv'
  BY <1>3, TakeKept, PrepareKept, SendKept, SendFailsKept, CompleteKept, RecordKept,
     RecordFailsKept, CompleteFailsKept DEF MailNext
<1>4. ASSUME Inv, QueueNext PROVE Inv'
  BY <1>4, QueueStepKept, CrashKept DEF QueueNext
<1> QED BY <1>1, <1>2, <1>3, <1>4 DEF Next

LEMMA InvKept == Spec => []Inv
BY InitInv, InvStep, PTL DEF Spec

\* The outbox rows, the jobs and the mail workers have their types, a job never
\* makes more attempts than it is allowed (worker.ts, notification.service.ts),
\* and a fault hides at most two effects of an event.
THEOREM TypeCorrect == Spec => []TypeOK
BY InvKept, PTL DEF Inv

\* However the rows are dispatched again, the jobs retried, taken back from dead
\* workers or retried by an administrator, an address gets a message once, and once
\* more for every hand-over or acceptance that a fault hid (notification-outbox.ts
\* dispatchOutbox, notification.service.ts process).
THEOREM DuplicatesAlwaysNeedFault == Spec => []DuplicatesNeedFault
<1>1. Inv => DuplicatesNeedFault
  <2> SUFFICES ASSUME Inv, NEW e \in Events, NEW r \in Recipients
               PROVE  mails[e][r] <= 1 + lost[e]
    BY DEF DuplicatesNeedFault
  <2>1. mails[e][r] \in Nat /\ lost[e] \in Nat
    BY LostNat DEF Inv, TypeOK
  <2>2. Within(mails[e][r], lost[e], Fresh(e), Owed(e, r))
    BY DEF Inv, Budget
  <2>3. One(Fresh(e)) \in {0, 1} /\ One(Owed(e, r)) \in {0, 1}
    BY OneIs
  <2> QED BY <2>1, <2>2, <2>3 DEF Within
<1> QED BY <1>1, InvKept, PTL

\* A delivery reported as sent reached every address of its audience, and every
\* address that the job remembers was served (notification.service.ts process).
THEOREM SentAlwaysMailed == Spec => []SentMeansMailed
BY InvKept, PTL DEF Inv
=============================================================================
