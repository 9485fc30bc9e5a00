----------------------------- MODULE AuditChain -----------------------------
(***************************************************************************)
(* The audit journal and its hash chain (apps/api/src/audit-chain.ts).     *)
(*                                                                         *)
(* API requests insert AuditEvent rows inside database transactions; the   *)
(* worker's scheduler tick, one transaction under an advisory lock, purges *)
(* rows older than the retention period, appends the settled rows to the   *)
(* hash chain and seals the chain.  A task outside that transaction, run   *)
(* by every worker, asks a time-stamp authority for one token per seal.    *)
(*                                                                         *)
(* SHA-256 is the ideal hash: a digest is the list of everything hashed    *)
(* into it, so two digests are equal exactly when they cover the same      *)
(* rows with the same contents in the same order.                          *)
(***************************************************************************)
EXTENDS Integers, Sequences, FiniteSets

CONSTANTS
  EventIds,        \* primary keys of AuditEvent rows (numbers: UUIDs are ordered)
  Workers,         \* worker processes
  Settle,          \* SETTLE_MS
  MaxTx,           \* longest transaction: Prisma's timeout (5 s, 120 s for the tick)
  Batch,           \* BATCH rows chained per tick
  RetentionAge,    \* AUDIT_RETENTION_DAYS; 0 disables the purge
  PurgeBatch,      \* rows purged per maintenance (1000)
  MaintenanceEvery,\* one day between two maintenances of one worker process
  SealInterval,    \* AUDIT_SEAL_INTERVAL_MINUTES
  StampWindow,     \* seals older than this are not time-stamped any more (7 days)
  StampBatch,      \* seals per time-stamping task (5)
  LastBegin,       \* bound: no event is recorded after this time
  MaxTime,         \* bound on the clock
  MaxTokens,       \* bound on the tokens the authority issues
  MaxAlterations   \* bound on the rows altered behind the application's back

ASSUME AuditAssumption ==
  /\ EventIds \subseteq Nat
  /\ IsFiniteSet(EventIds)
  /\ Settle \in Nat /\ MaxTx \in Nat /\ MaxTx <= Settle
  /\ Batch \in Nat \ {0} /\ PurgeBatch \in Nat
  /\ RetentionAge \in Nat /\ (RetentionAge = 0 \/ RetentionAge > Settle)
  /\ MaintenanceEvery \in Nat /\ SealInterval \in Nat
  /\ StampWindow \in Nat /\ StampBatch \in Nat
  /\ LastBegin \in Nat /\ MaxTime \in Nat
  /\ MaxTokens \in Nat /\ MaxAlterations \in Nat

VARIABLES
  now,             \* the clock
  row,             \* per id: "none", "open" (uncommitted), "stored" or "deleted"
  occurredAt,      \* AuditEvent.occurredAt
  body,            \* the hashed columns: "recorded", or "altered" afterwards
  chainIndex,      \* AuditEvent.chainIndex, 0 for NULL
  prevHash,        \* AuditEvent.prevHash
  chainHash,       \* AuditEvent.chainHash
  seals,           \* AuditSeal rows by createdAt
  lastMaintenance, \* per worker process: when it last ran the maintenance
  stamping,        \* per worker: the seals its task has read and not yet stamped
  issued           \* tokens issued so far

rowVars == <<row, occurredAt, body>>
chainVars == <<chainIndex, prevHash, chainHash>>
vars == <<now, row, occurredAt, body, chainIndex, prevHash, chainHash,
          seals, lastMaintenance, stamping, issued>>

GENESIS == << >>
Bodies == {"recorded", "altered"}
Hashes == Seq(EventIds \X Bodies)

\* Fault: the columns are left out of the digest.
auditEventHash_NoColumns(previous, e) == Append(previous, <<e, "recorded">>)

\* auditEventHash: the digest of the previous digest followed by the row.
auditEventHash(previous, e) == Append(previous, <<e, body[e]>>)

Stored == {e \in EventIds : row[e] = "stored"}
Chained == {e \in Stored : chainIndex[e] # 0}

Init ==
  /\ now = 0
  /\ row = [e \in EventIds |-> "none"]
  /\ occurredAt = [e \in EventIds |-> 0]
  /\ body = [e \in EventIds |-> "recorded"]
  /\ chainIndex = [e \in EventIds |-> 0]
  /\ prevHash = [e \in EventIds |-> GENESIS]
  /\ chainHash = [e \in EventIds |-> GENESIS]
  /\ seals = << >>
  \* "let lastMaintenance = 0": the epoch, always more than a day ago.
  /\ lastMaintenance = [w \in Workers |-> -MaintenanceEvery]
  /\ stamping = [w \in Workers |-> << >>]
  /\ issued = 0

-----------------------------------------------------------------------------
(* The clock and the transactions that record events.                      *)

\* Time passes; an open transaction is aborted at its timeout at the latest.
Advance ==
  /\ now < MaxTime
  /\ \A e \in EventIds : row[e] = "open" => now - occurredAt[e] < MaxTx
  /\ now' = now + 1
  /\ UNCHANGED <<rowVars, chainVars, seals, lastMaintenance, stamping, issued>>

\* persistAudit inserts the row: occurredAt is fixed, other sessions do not
\* see the row before the surrounding transaction commits.
PersistAudit(e) ==
  /\ now <= LastBegin
  /\ row[e] = "none"
  /\ row' = [row EXCEPT ![e] = "open"]
  /\ occurredAt' = [occurredAt EXCEPT ![e] = now]
  /\ UNCHANGED <<now, body, chainVars, seals, lastMaintenance, stamping, issued>>

Commit(e) ==
  /\ row[e] = "open"
  /\ row' = [row EXCEPT ![e] = "stored"]
  /\ UNCHANGED <<now, occurredAt, body, chainVars, seals, lastMaintenance,
                 stamping, issued>>

Abort(e) ==
  /\ row[e] = "open"
  /\ row' = [row EXCEPT ![e] = "deleted"]
  /\ UNCHANGED <<now, occurredAt, body, chainVars, seals, lastMaintenance,
                 stamping, issued>>

\* A chained row is rewritten directly in the database (environment): what
\* the chain exists to reveal.
Alter(e) ==
  /\ e \in Chained /\ body[e] = "recorded"
  /\ Cardinality({f \in EventIds : body[f] = "altered"}) < MaxAlterations
  /\ body' = [body EXCEPT ![e] = "altered"]
  /\ UNCHANGED <<now, row, occurredAt, chainVars, seals, lastMaintenance,
                 stamping, issued>>

-----------------------------------------------------------------------------
(* The scheduler tick.                                                     *)

MaintenanceDue(w) == now - lastMaintenance[w] >= MaintenanceEvery

Oldest(k, S, T) ==
  /\ S \subseteq T
  /\ Cardinality(S) = k
  /\ \A x \in S, y \in T \ S : occurredAt[x] <= occurredAt[y]

\* maintainHistory: the sets of rows one maintenance may delete.  The query
\* orders by occurredAt alone, so rows with one time stamp come in any order.
PurgeChoices ==
  LET old == {e \in Stored : occurredAt[e] < now - RetentionAge}
      k   == IF Cardinality(old) < PurgeBatch THEN Cardinality(old) ELSE PurgeBatch
  IN  IF RetentionAge = 0 THEN {{}} ELSE {S \in SUBSET old : Oldest(k, S, old)}

Before(e, f) ==
  \/ occurredAt[e] < occurredAt[f]
  \/ occurredAt[e] = occurredAt[f] /\ e < f

\* Fault: rows are chained as soon as they are visible.
Settled_NoDelay(e) == chainIndex[e] = 0

\* Rows that no transaction still open can precede.
Settled(e) == chainIndex[e] = 0 /\ occurredAt[e] < now - Settle

\* The rows one tick chains, first to last: orderBy [occurredAt, id], take BATCH.
ChainOrders(kept) ==
  LET ready == {e \in kept : Settled(e)}
      k     == IF Cardinality(ready) < Batch THEN Cardinality(ready) ELSE Batch
  IN  {s \in [1..k -> ready] :
         /\ \A i, j \in 1..k : i < j => Before(s[i], s[j])
         /\ \A e \in ready : (\E i \in 1..k : s[i] = e)
                             \/ \A i \in 1..k : Before(s[i], e)}

\* Fault: the chain is continued from its first row (orderBy asc).
IsLast_Lowest(e, kept) ==
  /\ e \in kept /\ chainIndex[e] # 0
  /\ \A f \in kept : chainIndex[f] # 0 => chainIndex[e] <= chainIndex[f]

IsLast(e, kept) ==
  /\ e \in kept /\ chainIndex[e] # 0
  /\ \A f \in kept : chainIndex[f] <= chainIndex[e]

\* findFirst(chainIndex desc) over the rows left by the purge.
LastIndex(kept) ==
  IF \E e \in kept : IsLast(e, kept)
  THEN chainIndex[CHOOSE e \in kept : IsLast(e, kept)] ELSE 0
LastHash(kept) ==
  IF \E e \in kept : IsLast(e, kept)
  THEN chainHash[CHOOSE e \in kept : IsLast(e, kept)] ELSE GENESIS

\* Fault: "previous" is not advanced inside the loop.
Digest_NotAdvanced(previous, order, i) ==
  IF i = 0 THEN previous ELSE Append(previous, <<order[i], body[order[i]]>>)

\* chainAuditEvents: row order[i] gets index last+i and the digest of all
\* rows up to it.
Digest(previous, order, i) == previous \o [j \in 1..i |-> <<order[j], body[order[j]]>>]
Position(order, e) == CHOOSE i \in DOMAIN order : order[i] = e
ChainAuditEvents(kept, order) ==
  LET added == {order[i] : i \in DOMAIN order} IN
  /\ chainIndex' = [e \in EventIds |->
        IF e \in added THEN LastIndex(kept) + Position(order, e) ELSE chainIndex[e]]
  /\ prevHash' = [e \in EventIds |->
        IF e \in added THEN Digest(LastHash(kept), order, Position(order, e) - 1)
        ELSE prevHash[e]]
  /\ chainHash' = [e \in EventIds |->
        IF e \in added THEN Digest(LastHash(kept), order, Position(order, e))
        ELSE chainHash[e]]

\* Faults: an empty chain is sealed; the interval test is inverted.
SealDue_EmptyChain(last) ==
  seals # << >> =>
    /\ seals[Len(seals)].lastChainIndex < last
    /\ now - seals[Len(seals)].createdAt >= SealInterval
SealDue_Inverted(last) ==
  /\ last # 0
  /\ seals # << >> =>
       /\ seals[Len(seals)].lastChainIndex < last
       /\ now - seals[Len(seals)].createdAt < SealInterval

\* sealAuditChain, given the last index and digest after this tick's chaining.
SealDue(last) ==
  /\ last # 0
  /\ seals # << >> =>
       /\ seals[Len(seals)].lastChainIndex < last
       /\ now - seals[Len(seals)].createdAt >= SealInterval
\* Fault: the seal counts the whole chain.
NewSeal_CountsAll(last, hash) ==
  [lastChainIndex |-> last, chainHash |-> hash, eventCount |-> last,
   createdAt |-> now, token |-> 0]

NewSeal(last, hash) ==
  [lastChainIndex |-> last, chainHash |-> hash,
   eventCount |-> last - (IF seals = << >> THEN 0 ELSE seals[Len(seals)].lastChainIndex),
   createdAt |-> now, token |-> 0]
SealAuditChain(kept, order) ==
  LET last == LastIndex(kept) + Len(order)
      hash == Digest(LastHash(kept), order, Len(order))
  IN  seals' = IF SealDue(last) THEN Append(seals, NewSeal(last, hash)) ELSE seals

\* tick: maintenance, chaining and sealing in one transaction.
Tick(w) ==
  \E purged \in (IF MaintenanceDue(w) THEN PurgeChoices ELSE {{}}) :
    LET kept == Stored \ purged IN
    \E order \in ChainOrders(kept) :
      /\ row' = [e \in EventIds |-> IF e \in purged THEN "deleted" ELSE row[e]]
      /\ ChainAuditEvents(kept, order)
      /\ SealAuditChain(kept, order)
      /\ lastMaintenance' = [lastMaintenance EXCEPT
                               ![w] = IF MaintenanceDue(w) THEN now ELSE @]
      /\ UNCHANGED <<now, occurredAt, body, stamping, issued>>

-----------------------------------------------------------------------------
(* timestampAuditSeals, run by every worker outside the tick.              *)

Unstamped == {i \in 1..Len(seals) : seals[i].token = 0
                                     /\ seals[i].createdAt > now - StampWindow}
StampOrders ==
  LET k == IF Cardinality(Unstamped) < StampBatch
           THEN Cardinality(Unstamped) ELSE StampBatch
  IN  {s \in [1..k -> Unstamped] :
         /\ \A i, j \in 1..k : i < j => s[i] < s[j]
         /\ \A u \in Unstamped : (\E i \in 1..k : s[i] = u)
                                 \/ \A i \in 1..k : s[i] < u}
StartStamping(w) ==
  /\ stamping[w] = << >>
  /\ Unstamped # {}
  /\ \E s \in StampOrders : stamping' = [stamping EXCEPT ![w] = s]
  /\ UNCHANGED <<now, rowVars, chainVars, seals, lastMaintenance, issued>>

\* A token arrives and is written to the seal that was read.
StampSeal(w) ==
  /\ stamping[w] # << >>
  /\ issued < MaxTokens
  /\ issued' = issued + 1
  /\ seals' = [seals EXCEPT ![Head(stamping[w])].token = issued + 1]
  /\ stamping' = [stamping EXCEPT ![w] = Tail(@)]
  /\ UNCHANGED <<now, rowVars, chainVars, lastMaintenance>>

\* The authority does not answer: the exception ends the task.
StampFails(w) ==
  /\ stamping[w] # << >>
  /\ stamping' = [stamping EXCEPT ![w] = << >>]
  /\ UNCHANGED <<now, rowVars, chainVars, seals, lastMaintenance, issued>>

\* The worker process restarts; an unfinished tick rolls back as a whole.
Restart(w) ==
  /\ lastMaintenance[w] # -MaintenanceEvery \/ stamping[w] # << >>
  /\ lastMaintenance' = [lastMaintenance EXCEPT ![w] = -MaintenanceEvery]
  /\ stamping' = [stamping EXCEPT ![w] = << >>]
  /\ UNCHANGED <<now, rowVars, chainVars, seals, issued>>

Next ==
  \/ Advance
  \/ \E e \in EventIds : PersistAudit(e) \/ Commit(e) \/ Abort(e) \/ Alter(e)
  \/ \E w \in Workers : Tick(w) \/ StartStamping(w) \/ StampSeal(w)
                        \/ StampFails(w) \/ Restart(w)

Spec == Init /\ [][Next]_vars

\* The scheduler's timer fires every minute and transactions end.
Fairness ==
  /\ WF_vars(Advance)
  /\ \A e \in EventIds : WF_vars(Commit(e))
  /\ \A w \in Workers : WF_vars(Tick(w))
FairSpec == Spec /\ Fairness

-----------------------------------------------------------------------------
(* verifyAuditChain: what "verify integrity" reports.                      *)

\* The chained row that precedes e in the scan, if any.
Precedes(f, e) ==
  /\ chainIndex[f] < chainIndex[e]
  /\ \A g \in Chained : ~(chainIndex[f] < chainIndex[g] /\ chainIndex[g] < chainIndex[e])
MissingEvents(e) == \E f \in Chained : Precedes(f, e) /\ chainIndex[f] + 1 # chainIndex[e]
LinkMismatch(e) ==
  \E f \in Chained : /\ Precedes(f, e) /\ chainIndex[f] + 1 = chainIndex[e]
                     /\ prevHash[e] # chainHash[f]
ContentAltered(e) == auditEventHash(prevHash[e], e) # chainHash[e]
SealMismatch(i) ==
  \E e \in Chained : /\ chainIndex[e] = seals[i].lastChainIndex
                     /\ chainHash[e] # seals[i].chainHash
\* The code looks at the newest 500 seals: the bound on the rows keeps these below it,
\* and an alarm about fewer seals is one about all of them.
VerifyAuditChain ==
  /\ \A e \in Chained : ~MissingEvents(e) /\ ~LinkMismatch(e) /\ ~ContentAltered(e)
  /\ \A i \in 1..Len(seals) : ~SealMismatch(i)

-----------------------------------------------------------------------------
Seal == [lastChainIndex : Nat \ {0}, chainHash : Hashes, eventCount : Int,
         createdAt : Nat, token : Nat]

(* Every variable keeps its type. *)
TypeOK ==
  /\ now \in Nat /\ issued \in Nat
  /\ row \in [EventIds -> {"none", "open", "stored", "deleted"}]
  /\ occurredAt \in [EventIds -> Nat]
  /\ body \in [EventIds -> Bodies]
  /\ chainIndex \in [EventIds -> Nat]
  /\ prevHash \in [EventIds -> Hashes]
  /\ chainHash \in [EventIds -> Hashes]
  /\ seals \in Seq(Seal)
  /\ lastMaintenance \in [Workers -> Int]
  /\ stamping \in [Workers -> Seq(Nat)]

(* What a chained row carries: the columns of a row not yet chained are as *)
(* recorded, and the digest of a chained row covers them.                  *)
RowsHashed ==
  \A e \in EventIds :
    /\ chainIndex[e] = 0 => body[e] = "recorded"
    /\ chainIndex[e] # 0 => chainHash[e] = Append(prevHash[e], <<e, "recorded">>)

(* Why the settling delay works: an open row is younger than every chained *)
(* one, so is a committed row that waits to be chained.                    *)
PendingAfterChained ==
  /\ \A e \in EventIds : row[e] = "open" => occurredAt[e] + MaxTx >= now
  /\ \A e \in EventIds : chainIndex[e] # 0 => occurredAt[e] + Settle < now
  /\ \A e \in Stored : chainIndex[e] = 0 =>
       \A c \in Chained : occurredAt[c] <= occurredAt[e]

(* Without a purge the chain has no gap: every row after the first stores  *)
(* the digest of the row before it, and every seal is that of a row.       *)
ChainLinked ==
  /\ \A e \in EventIds : chainIndex[e] # 0 => row[e] = "stored"
  /\ \A e \in EventIds : chainIndex[e] > 1 =>
       \E f \in EventIds : /\ chainIndex[f] = chainIndex[e] - 1
                           /\ chainHash[f] = prevHash[e]
  /\ \A i \in 1..Len(seals) :
       \E e \in EventIds : /\ chainIndex[e] = seals[i].lastChainIndex
                           /\ chainHash[e] = seals[i].chainHash

(* The unique constraint on chainIndex is never hit by a tick: two rows    *)
(* still in the journal never share an index.                              *)
ChainIndexUnique ==
  \A e, f \in Chained : chainIndex[e] = chainIndex[f] => e = f

(* The chain follows the time line: the settling delay is long enough that *)
(* no row committed late has an earlier occurredAt than a row chained      *)
(* before it, which is also what lets retention cut the chain's old end.   *)
ChainInTimeOrder ==
  \A e, f \in Chained : chainIndex[e] < chainIndex[f] => occurredAt[e] <= occurredAt[f]

(* verifyAuditChain raises no false alarm: while nobody rewrote a row, the *)
(* integrity report is valid.                                              *)
NoFalseAlarm ==
  (\A e \in EventIds : body[e] = "recorded") => VerifyAuditChain

(* verifyAuditChain misses no rewritten row: whatever was chained and      *)
(* sealed after it, a chained row whose columns changed is reported.       *)
AlterationReported ==
  (\E e \in Chained : body[e] = "altered") => ~VerifyAuditChain

(* The seals cut the chain into consecutive pieces: each seal covers more  *)
(* than the one before it and counts exactly the rows added since.         *)
SealsPartitionChain ==
  \A i \in 1..Len(seals) :
    LET before == IF i = 1 THEN 0 ELSE seals[i - 1].lastChainIndex IN
    /\ seals[i].lastChainIndex > before
    /\ seals[i].eventCount = seals[i].lastChainIndex - before
    /\ Len(seals[i].chainHash) = seals[i].lastChainIndex

(* Every committed row is chained and covered by a seal in the end, unless *)
(* retention deleted it first.                                             *)
Sealed(e) ==
  row[e] = "stored" => /\ chainIndex[e] # 0
                       /\ \E i \in 1..Len(seals) : seals[i].lastChainIndex >= chainIndex[e]
EventuallySealed == \A e \in EventIds : row[e] = "stored" ~> Sealed(e)
=============================================================================
