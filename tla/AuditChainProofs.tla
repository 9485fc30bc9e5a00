-------------------------- MODULE AuditChainProofs --------------------------
(***************************************************************************)
(* Proofs about the audit chain, for any number of events, workers, ticks  *)
(* and any settling, sealing and retention periods.                        *)
(***************************************************************************)
EXTENDS AuditChain, FiniteSetTheorems, SequenceTheorems,
        WellFoundedInduction, TLAPS

-----------------------------------------------------------------------------
(* What the operators of a tick return.                                    *)

(* Row sets a tick works on are finite, so their sizes are numbers.        *)
LEMMA FiniteRows ==
  ASSUME NEW S \in SUBSET EventIds
  PROVE  IsFiniteSet(S) /\ Cardinality(S) \in Nat
BY FS_Subset, FS_CardinalityType, AuditAssumption

(* The rows chained by one tick form a sequence of distinct settled rows   *)
(* among the ones the purge kept (the findMany of chainAuditEvents).       *)
LEMMA OrderType ==
  ASSUME TypeOK, NEW kept \in SUBSET EventIds, NEW order \in ChainOrders(kept)
  PROVE  /\ order \in Seq(kept)
         /\ order \in Seq(EventIds)
         /\ DOMAIN order = 1..Len(order)
         /\ Len(order) \in Nat
         /\ \A i \in 1..Len(order) : order[i] \in kept /\ Settled(order[i])
         /\ \A i, j \in 1..Len(order) : order[i] = order[j] => i = j
<1> DEFINE ready == {e \in kept : Settled(e)}
           k     == IF Cardinality(ready) < Batch THEN Cardinality(ready) ELSE Batch
<1>1. k \in Nat
  BY FiniteRows, AuditAssumption
<1>2. /\ order \in [1..k -> ready]
      /\ \A i, j \in 1..k : i < j => Before(order[i], order[j])
  BY DEF ChainOrders
<1>2a. \A i \in 1..k : order[i] \in kept /\ Settled(order[i])
  BY <1>2
<1> HIDE DEF ready, k
<1>3. order \in Seq(ready) /\ Len(order) = k /\ DOMAIN order = 1..k
  BY <1>1, <1>2
<1>4. \A e \in EventIds : ~Before(e, e)
  BY AuditAssumption DEF Before, TypeOK
<1>5. \A i, j \in 1..k : order[i] = order[j] => i = j
  <2> SUFFICES ASSUME NEW i \in 1..k, NEW j \in 1..k, order[i] = order[j], i # j
               PROVE  FALSE
    OBVIOUS
  <2>1. i < j \/ j < i
    BY <1>1
  <2>2. order[i] \in EventIds /\ order[j] \in EventIds
    BY <1>2a
  <2> QED
    BY <1>2, <1>4, <2>1, <2>2
<1>7. order \in Seq(kept) /\ order \in Seq(EventIds)
  BY <1>1, <1>3, <1>2a
<1> QED
  BY <1>1, <1>2a, <1>3, <1>5, <1>7

(* The last chained row kept: its index and digest, or 0 and GENESIS.      *)
LEMMA LastRow ==
  ASSUME TypeOK, NEW kept \in SUBSET EventIds
  PROVE  /\ LastIndex(kept) \in Nat
         /\ LastHash(kept) \in Hashes
         /\ \/ \E e \in kept : /\ IsLast(e, kept)
                               /\ LastIndex(kept) = chainIndex[e]
                               /\ LastHash(kept) = chainHash[e]
            \/ /\ ~\E e \in kept : IsLast(e, kept)
               /\ LastIndex(kept) = 0 /\ LastHash(kept) = GENESIS
<1>1. CASE \E e \in kept : IsLast(e, kept)
  <2> DEFINE m == CHOOSE e \in kept : IsLast(e, kept)
  <2>1. m \in kept /\ IsLast(m, kept)
    BY <1>1
  <2>2. LastIndex(kept) = chainIndex[m] /\ LastHash(kept) = chainHash[m]
    BY <1>1 DEF LastIndex, LastHash
  <2> HIDE DEF m
  <2> QED
    BY <2>1, <2>2 DEF TypeOK
<1>2. CASE ~\E e \in kept : IsLast(e, kept)
  <2>1. LastIndex(kept) = 0 /\ LastHash(kept) = GENESIS
    BY <1>2 DEF LastIndex, LastHash
  <2>2. GENESIS \in Hashes
    BY DEF GENESIS, Hashes
  <2> QED
    BY <1>2, <2>1, <2>2
<1> QED
  BY <1>1, <1>2

(* A digest over i further rows is a digest, longer by i.                  *)
LEMMA DigestType ==
  ASSUME TypeOK, NEW previous \in Hashes, NEW order \in Seq(EventIds),
         NEW i \in 0..Len(order)
  PROVE  /\ Digest(previous, order, i) \in Hashes
         /\ Len(Digest(previous, order, i)) = Len(previous) + i
<1> DEFINE tail == [j \in 1..i |-> <<order[j], body[order[j]]>>]
<1>1. \A j \in 1..i : <<order[j], body[order[j]]>> \in EventIds \X Bodies
  BY DEF TypeOK
<1>2. tail \in Seq(EventIds \X Bodies) /\ Len(tail) = i
  BY <1>1
<1> DEFINE Items == EventIds \X Bodies
<1>3. Digest(previous, order, i) = previous \o tail
  BY DEF Digest
<1>4. previous \in Seq(Items) /\ tail \in Seq(Items) /\ Hashes = Seq(Items)
  BY <1>2 DEF Hashes
<1> HIDE DEF tail, Items
<1>5. previous \o tail \in Seq(Items) /\ Len(previous \o tail) = Len(previous) + i
  BY <1>2, <1>4, ConcatProperties
<1> QED
  BY <1>3, <1>4, <1>5

(* A row added by a tick has a position in its order.                      *)
LEMMA PositionType ==
  ASSUME NEW order, NEW e, \E i \in DOMAIN order : order[i] = e
  PROVE  Position(order, e) \in DOMAIN order /\ order[Position(order, e)] = e
BY DEF Position

-----------------------------------------------------------------------------
(* The type invariant.                                                     *)

LEMMA InitType == Init => TypeOK
BY AuditAssumption DEF Init, TypeOK, GENESIS, Hashes, Bodies

(* A tick keeps every type: new indices are numbers, new digests and seals *)
(* are well formed.                                                        *)
LEMMA TickType ==
  ASSUME TypeOK, NEW w \in Workers, Tick(w)
  PROVE  TypeOK'
<1>1. PICK purged \in (IF MaintenanceDue(w) THEN PurgeChoices ELSE {{}}) :
        \E order \in ChainOrders(Stored \ purged) :
          /\ row' = [e \in EventIds |-> IF e \in purged THEN "deleted" ELSE row[e]]
          /\ ChainAuditEvents(Stored \ purged, order)
          /\ SealAuditChain(Stored \ purged, order)
          /\ lastMaintenance' = [lastMaintenance EXCEPT
                                   ![w] = IF MaintenanceDue(w) THEN now ELSE @]
          /\ UNCHANGED <<now, occurredAt, body, stamping, issued>>
  BY DEF Tick
<1> DEFINE kept == Stored \ purged
<1>2. PICK order \in ChainOrders(kept) :
          /\ row' = [e \in EventIds |-> IF e \in purged THEN "deleted" ELSE row[e]]
          /\ ChainAuditEvents(kept, order)
          /\ SealAuditChain(kept, order)
          /\ lastMaintenance' = [lastMaintenance EXCEPT
                                   ![w] = IF MaintenanceDue(w) THEN now ELSE @]
          /\ UNCHANGED <<now, occurredAt, body, stamping, issued>>
  BY <1>1
<1>3. kept \in SUBSET EventIds
  BY DEF Stored
<1> HIDE DEF kept
<1>4. /\ order \in Seq(EventIds) /\ Len(order) \in Nat
      /\ DOMAIN order = 1..Len(order)
  BY <1>3, OrderType
<1>5. LastIndex(kept) \in Nat /\ LastHash(kept) \in Hashes
  BY <1>3, LastRow
<1> DEFINE added == {order[i] : i \in DOMAIN order}
<1>6. ASSUME NEW e \in added
      PROVE  /\ Position(order, e) \in 1..Len(order)
             /\ Digest(LastHash(kept), order, Position(order, e)) \in Hashes
             /\ Digest(LastHash(kept), order, Position(order, e) - 1) \in Hashes
  <2>1. Position(order, e) \in 1..Len(order)
    BY <1>4, PositionType
  <2> QED
    BY <2>1, <1>4, <1>5, DigestType
<1>7. /\ chainIndex' \in [EventIds -> Nat]
      /\ prevHash' \in [EventIds -> Hashes]
      /\ chainHash' \in [EventIds -> Hashes]
  <2>1. chainIndex' \in [EventIds -> Nat]
    <3>1. chainIndex' = [e \in EventIds |->
            IF e \in added THEN LastIndex(kept) + Position(order, e) ELSE chainIndex[e]]
      BY <1>2 DEF ChainAuditEvents
    <3>2. ASSUME NEW e \in added PROVE LastIndex(kept) + Position(order, e) \in Nat
      BY <1>4, <1>5, <1>6
    <3> HIDE DEF added
    <3> QED
      BY <3>1, <3>2 DEF TypeOK
  <2>2. prevHash' \in [EventIds -> Hashes]
    <3>1. prevHash' = [e \in EventIds |->
            IF e \in added THEN Digest(LastHash(kept), order, Position(order, e) - 1)
            ELSE prevHash[e]]
      BY <1>2 DEF ChainAuditEvents
    <3> HIDE DEF added
    <3> QED
      BY <3>1, <1>6 DEF TypeOK
  <2>3. chainHash' \in [EventIds -> Hashes]
    <3>1. chainHash' = [e \in EventIds |->
            IF e \in added THEN Digest(LastHash(kept), order, Position(order, e))
            ELSE chainHash[e]]
      BY <1>2 DEF ChainAuditEvents
    <3> HIDE DEF added
    <3> QED
      BY <3>1, <1>6 DEF TypeOK
  <2> QED
    BY <2>1, <2>2, <2>3
<1>8. seals' \in Seq(Seal)
  <2> DEFINE last == LastIndex(kept) + Len(order)
             hash == Digest(LastHash(kept), order, Len(order))
  <2>1. last \in Nat /\ hash \in Hashes
    BY <1>4, <1>5, DigestType
  <2>2. seals' = IF SealDue(last) THEN Append(seals, NewSeal(last, hash)) ELSE seals
    BY <1>2 DEF SealAuditChain
  <2>3. SealDue(last) => last # 0
    BY DEF SealDue
  <2> HIDE DEF last, hash
  <2>4. ASSUME last # 0 PROVE NewSeal(last, hash) \in Seal
    <3>1. CASE seals = << >>
      BY <2>1, <2>4, <3>1 DEF NewSeal, Seal, TypeOK
    <3>2. CASE seals # << >>
      <4>1. seals[Len(seals)] \in Seal
        BY <3>2 DEF TypeOK
      <4>2. seals[Len(seals)].lastChainIndex \in Nat
        BY <4>1 DEF Seal
      <4> QED
        BY <2>1, <2>4, <3>2, <4>2 DEF NewSeal, Seal, TypeOK
    <3> QED
      BY <3>1, <3>2
  <2> QED
    BY <2>2, <2>3, <2>4 DEF TypeOK
<1>9. lastMaintenance' \in [Workers -> Int]
  BY <1>2 DEF TypeOK
<1>10. row' \in [EventIds -> {"none", "open", "stored", "deleted"}]
  BY <1>2 DEF TypeOK
<1> QED
  BY <1>2, <1>7, <1>8, <1>9, <1>10 DEF TypeOK

(* A time-stamping worker reads a sequence of seal positions.              *)
LEMMA StampOrdersType ==
  ASSUME TypeOK, NEW s \in StampOrders
  PROVE  s \in Seq(1..Len(seals))
<1> DEFINE k == IF Cardinality(Unstamped) < StampBatch
                THEN Cardinality(Unstamped) ELSE StampBatch
<1>1. Unstamped \subseteq 1..Len(seals) /\ Len(seals) \in Nat
  BY DEF Unstamped, TypeOK
<1>2. Cardinality(Unstamped) \in Nat
  <2>1. IsFiniteSet(1..Len(seals))
    BY <1>1, FS_Interval
  <2>2. IsFiniteSet(Unstamped)
    BY <1>1, <2>1, FS_Subset
  <2> QED
    BY <2>2, FS_CardinalityType
<1>3. k \in Nat
  BY <1>2, AuditAssumption
<1>4. s \in [1..k -> Unstamped]
  BY DEF StampOrders
<1> HIDE DEF k
<1>5. s \in Seq(Unstamped)
  BY <1>3, <1>4
<1> QED
  BY <1>1, <1>5, SeqMonotonic

(* Every step keeps the type invariant. *)
LEMMA NextType == TypeOK /\ [Next]_vars => TypeOK'
<1> SUFFICES ASSUME TypeOK, [Next]_vars PROVE TypeOK'
  OBVIOUS
<1>1. CASE Advance
  BY <1>1 DEF Advance, rowVars, chainVars, TypeOK
<1>2. ASSUME NEW e \in EventIds, PersistAudit(e) \/ Commit(e) \/ Abort(e) \/ Alter(e)
      PROVE  TypeOK'
  <2>1. CASE PersistAudit(e)
    BY <2>1 DEF PersistAudit, chainVars, TypeOK
  <2>2. CASE Commit(e)
    BY <2>2 DEF Commit, chainVars, TypeOK
  <2>3. CASE Abort(e)
    BY <2>3 DEF Abort, chainVars, TypeOK
  <2>4. CASE Alter(e)
    BY <2>4 DEF Alter, chainVars, TypeOK, Bodies
  <2> QED
    BY <1>2, <2>1, <2>2, <2>3, <2>4
<1>3. ASSUME NEW w \in Workers, StartStamping(w)
      PROVE  TypeOK'
  <2>1. PICK s \in StampOrders : stamping' = [stamping EXCEPT ![w] = s]
    BY <1>3 DEF StartStamping
  <2>2. s \in Seq(Nat)
    BY StampOrdersType
  <2> QED
    BY <1>3, <2>1, <2>2 DEF StartStamping, rowVars, chainVars, TypeOK
<1>4. ASSUME NEW w \in Workers, StampSeal(w)
      PROVE  TypeOK'
  <2>1. stamping[w] \in Seq(Nat) /\ stamping[w] # << >>
    BY <1>4 DEF StampSeal, TypeOK
  <2>2. Tail(stamping[w]) \in Seq(Nat)
    BY <2>1
  <2>3. seals' \in Seq(Seal)
    <3> DEFINE h == Head(stamping[w])
               stamped == [seals[h] EXCEPT !.token = issued + 1]
    <3>1. seals' = [seals EXCEPT ![h] = stamped] /\ seals \in Seq(Seal)
      BY <1>4 DEF StampSeal, TypeOK
    <3>2. CASE h \in 1..Len(seals)
      <4>1. stamped \in Seal
        <5>1. seals[h] \in Seal /\ issued + 1 \in Nat
          BY <3>1, <3>2, ElementOfSeq DEF TypeOK
        <5> HIDE DEF h
        <5> QED
          BY <5>1 DEF Seal
      <4> HIDE DEF h, stamped
      <4> QED
        BY <3>1, <3>2, <4>1, ExceptSeq
    <3>3. CASE h \notin 1..Len(seals)
      <4> HIDE DEF h, stamped
      <4>1. seals' = seals
        BY <3>1, <3>3
      <4> QED
        BY <3>1, <4>1
    <3> QED
      BY <3>2, <3>3
  <2> QED
    BY <1>4, <2>2, <2>3 DEF StampSeal, rowVars, chainVars, TypeOK
<1>5. ASSUME NEW w \in Workers, StampFails(w) \/ Restart(w)
      PROVE  TypeOK'
  <2>1. /\ lastMaintenance' \in [Workers -> Int]
        /\ stamping' \in [Workers -> Seq(Nat)]
    <3>1. << >> \in Seq(Nat) /\ -MaintenanceEvery \in Int
      BY EmptySeq, AuditAssumption
    <3>2. CASE StampFails(w)
      BY <3>1, <3>2 DEF StampFails, TypeOK
    <3>3. CASE Restart(w)
      BY <3>1, <3>3 DEF Restart, TypeOK
    <3> QED
      BY <1>5, <3>2, <3>3
  <2> QED
    BY <1>5, <2>1 DEF StampFails, Restart, rowVars, chainVars, TypeOK
<1>6. CASE UNCHANGED vars
  BY <1>6 DEF vars, TypeOK
<1> QED
  BY <1>1, <1>2, <1>3, <1>4, <1>5, <1>6, TickType DEF Next

(* Every behaviour of requests, scheduler ticks, time-stamping tasks and   *)
(* restarts keeps the journal, the chain columns and the seals well typed. *)
THEOREM TypeCorrect == Spec => []TypeOK
<1>1. Init => TypeOK
  BY InitType
<1>2. TypeOK /\ [Next]_vars => TypeOK'
  BY NextType
<1> QED
  BY <1>1, <1>2, PTL DEF Spec

-----------------------------------------------------------------------------
(* The chain.                                                              *)

(* What a tick does, row by row: the rows of order get the next indices    *)
(* and digests, every other row keeps its chain columns.                   *)
TickEffect(kept, order) ==
  /\ row' = [e \in EventIds |-> IF e \in Stored \ kept THEN "deleted" ELSE row[e]]
  /\ \A i \in 1..Len(order) :
       /\ chainIndex'[order[i]] = LastIndex(kept) + i
       /\ prevHash'[order[i]] = Digest(LastHash(kept), order, i - 1)
       /\ chainHash'[order[i]] = Digest(LastHash(kept), order, i)
  /\ \A e \in EventIds : (\A i \in 1..Len(order) : order[i] # e) =>
       /\ chainIndex'[e] = chainIndex[e]
       /\ prevHash'[e] = prevHash[e]
       /\ chainHash'[e] = chainHash[e]
  /\ SealAuditChain(kept, order)
  /\ UNCHANGED <<now, occurredAt, body, stamping, issued>>

LEMMA TickStep ==
  ASSUME TypeOK, NEW w \in Workers, Tick(w)
  PROVE  \E kept \in SUBSET Stored :
           /\ RetentionAge = 0 => kept = Stored
           /\ \E order \in ChainOrders(kept) : TickEffect(kept, order)
<1>1. PICK purged \in (IF MaintenanceDue(w) THEN PurgeChoices ELSE {{}}) :
        \E order \in ChainOrders(Stored \ purged) :
          /\ row' = [e \in EventIds |-> IF e \in purged THEN "deleted" ELSE row[e]]
          /\ ChainAuditEvents(Stored \ purged, order)
          /\ SealAuditChain(Stored \ purged, order)
          /\ UNCHANGED <<now, occurredAt, body, stamping, issued>>
  BY DEF Tick
<1> DEFINE kept == Stored \ purged
<1>2. PICK order \in ChainOrders(kept) :
          /\ row' = [e \in EventIds |-> IF e \in purged THEN "deleted" ELSE row[e]]
          /\ ChainAuditEvents(kept, order)
          /\ SealAuditChain(kept, order)
          /\ UNCHANGED <<now, occurredAt, body, stamping, issued>>
  BY <1>1
<1>3. purged \subseteq Stored /\ (RetentionAge = 0 => purged = {})
  BY <1>1 DEF PurgeChoices
<1>4. /\ kept \in SUBSET Stored
      /\ kept \in SUBSET EventIds
      /\ RetentionAge = 0 => kept = Stored
      /\ purged = Stored \ kept
  BY <1>3 DEF Stored
<1> HIDE DEF kept
<1>5. /\ order \in Seq(EventIds) /\ Len(order) \in Nat
      /\ DOMAIN order = 1..Len(order)
      /\ \A i, j \in 1..Len(order) : order[i] = order[j] => i = j
  BY <1>4, OrderType
<1>6. ASSUME NEW i \in 1..Len(order)
      PROVE  /\ chainIndex'[order[i]] = LastIndex(kept) + i
             /\ prevHash'[order[i]] = Digest(LastHash(kept), order, i - 1)
             /\ chainHash'[order[i]] = Digest(LastHash(kept), order, i)
  <2>1. Position(order, order[i]) = i
    BY <1>5, PositionType
  <2>2. order[i] \in EventIds /\ order[i] \in {order[j] : j \in DOMAIN order}
    BY <1>5, ElementOfSeq
  <2> QED
    BY <1>2, <2>1, <2>2 DEF ChainAuditEvents
<1>7. ASSUME NEW e \in EventIds, \A i \in 1..Len(order) : order[i] # e
      PROVE  /\ chainIndex'[e] = chainIndex[e]
             /\ prevHash'[e] = prevHash[e]
             /\ chainHash'[e] = chainHash[e]
  <2>1. e \notin {order[j] : j \in DOMAIN order}
    BY <1>5, <1>7
  <2> QED
    BY <1>2, <2>1 DEF ChainAuditEvents
<1>8. TickEffect(kept, order)
  BY <1>2, <1>4, <1>6, <1>7 DEF TickEffect
<1> QED
  BY <1>2, <1>4, <1>8

(* Adding one row to a digest is what auditEventHash does.                 *)
LEMMA DigestStep ==
  ASSUME TypeOK, NEW previous \in Hashes, NEW order \in Seq(EventIds),
         NEW i \in 1..Len(order)
  PROVE  Digest(previous, order, i) =
           Append(Digest(previous, order, i - 1), <<order[i], body[order[i]]>>)
<1> DEFINE Items == EventIds \X Bodies
           item(j) == <<order[j], body[order[j]]>>
           short == [j \in 1..(i - 1) |-> item(j)]
           long  == [j \in 1..i |-> item(j)]
<1>1. \A j \in 1..i : item(j) \in Items
  BY DEF TypeOK
<1>2. /\ short \in Seq(Items) /\ Len(short) = i - 1
      /\ long \in Seq(Items) /\ Len(long) = i
  <2> HIDE DEF item, Items
  <2> QED
    BY <1>1
<1>3. \A j \in 1..i : long[j] = IF j <= i - 1 THEN short[j] ELSE item(i)
  <2> HIDE DEF item
  <2> QED
    OBVIOUS
<1>4. /\ Digest(previous, order, i) = previous \o long
      /\ Digest(previous, order, i - 1) = previous \o short
      /\ previous \in Seq(Items) /\ item(i) \in Items
  <2>1. Digest(previous, order, i) = previous \o long
    BY DEF Digest
  <2>2. Digest(previous, order, i - 1) = previous \o short
    BY DEF Digest
  <2>3. previous \in Seq(Items)
    BY DEF Hashes
  <2> HIDE DEF Items, short, long, item
  <2> QED
    BY <1>1, <2>1, <2>2, <2>3
<1> HIDE DEF Items, short, long, item
<1>5. /\ previous \o long \in Seq(Items)
      /\ Len(previous \o long) = Len(previous) + i
      /\ \A j \in 1..(Len(previous) + i) : (previous \o long)[j] =
           IF j <= Len(previous) THEN previous[j] ELSE long[j - Len(previous)]
  BY <1>2, <1>4, ConcatProperties
<1>6. /\ previous \o short \in Seq(Items)
      /\ Len(previous \o short) = Len(previous) + (i - 1)
      /\ \A j \in 1..(Len(previous) + (i - 1)) : (previous \o short)[j] =
           IF j <= Len(previous) THEN previous[j] ELSE short[j - Len(previous)]
  BY <1>2, <1>4, ConcatProperties
<1> DEFINE s == previous \o long
           t == Append(previous \o short, item(i))
<1>7. Len(previous) \in Nat
  BY <1>4, LenProperties
<1>8. /\ t \in Seq(Items) /\ Len(t) = Len(previous) + i
      /\ \A j \in 1..(Len(previous) + i) : t[j] =
           IF j = Len(previous) + i THEN item(i) ELSE (previous \o short)[j]
  BY <1>4, <1>6, <1>7
<1>9. \A j \in 1..(Len(previous) + i) : s[j] = t[j]
  <2> SUFFICES ASSUME NEW j \in 1..(Len(previous) + i) PROVE s[j] = t[j]
    OBVIOUS
  <2>1. CASE j <= Len(previous)
    BY <2>1, <1>5, <1>6, <1>7, <1>8
  <2>2. CASE j > Len(previous) /\ j < Len(previous) + i
    BY <2>2, <1>3, <1>5, <1>6, <1>7, <1>8
  <2>3. CASE j = Len(previous) + i
    BY <2>3, <1>3, <1>5, <1>7, <1>8
  <2>4. \/ j <= Len(previous)
        \/ j > Len(previous) /\ j < Len(previous) + i
        \/ j = Len(previous) + i
    BY <1>7
  <2> QED
    BY <2>1, <2>2, <2>3, <2>4
<1> HIDE DEF t
<1>10. s = t
  BY <1>5, <1>8, <1>9, SeqEqual
<1> QED
  BY <1>4, <1>10 DEF item, t

(* A digest over no further row is the previous digest.                    *)
LEMMA DigestEmpty ==
  ASSUME NEW previous \in Hashes, NEW order
  PROVE  Digest(previous, order, 0) = previous
<1>1. [j \in 1..0 |-> <<order[j], body[order[j]]>>] = << >>
  OBVIOUS
<1> QED
  BY <1>1, ConcatEmptySeq DEF Digest, Hashes

(* Some row kept carries the highest index, when any row kept is chained:  *)
(* counting the rows above each row, one has none above it.                *)
LEMMA LastExists ==
  ASSUME TypeOK, NEW kept \in SUBSET EventIds,
         NEW c \in kept, chainIndex[c] # 0
  PROVE  \E e \in kept : IsLast(e, kept)
<1> DEFINE above(e) == {f \in kept : chainIndex[f] > chainIndex[e]}
           counts == {Cardinality(above(e)) : e \in kept}
<1>1. \A e \in kept : above(e) \in SUBSET EventIds
  OBVIOUS
<1>2. \A e \in kept : IsFiniteSet(above(e)) /\ Cardinality(above(e)) \in Nat
  <2> HIDE DEF above
  <2> QED
    BY <1>1, FiniteRows
<1>3. counts \subseteq Nat /\ counts # {}
  <2> HIDE DEF above
  <2> QED
    BY <1>2
<1>4. PICK n \in counts : \A m \in counts : ~(<<m, n>> \in OpToRel(<, Nat))
  <2> HIDE DEF counts
  <2> QED
    BY <1>3, NatLessThanWellFounded, WFMin
<1>5. \A m \in counts : ~(m < n)
  <2> HIDE DEF counts
  <2> QED
    BY <1>3, <1>4 DEF OpToRel
<1>6. PICK e \in kept : n = Cardinality(above(e))
  <2> HIDE DEF above
  <2> QED
    OBVIOUS
<1>7. ASSUME NEW f \in kept PROVE chainIndex[f] <= chainIndex[e]
  <2> SUFFICES ASSUME ~(chainIndex[f] <= chainIndex[e]) PROVE FALSE
    OBVIOUS
  <2>1. chainIndex[f] > chainIndex[e] /\ chainIndex[f] \in Nat /\ chainIndex[e] \in Nat
    BY DEF TypeOK
  <2>2. above(f) \subseteq above(e) /\ f \in above(e) /\ f \notin above(f)
    BY <2>1 DEF TypeOK
  <2>3. Cardinality(above(f)) <= Cardinality(above(e))
        /\ Cardinality(above(f)) # Cardinality(above(e))
    <3> HIDE DEF above
    <3>1. above(f) \in SUBSET above(e) /\ above(f) # above(e)
      BY <2>2
    <3> QED
      BY <1>2, <3>1, FS_Subset
  <2>4. Cardinality(above(f)) \in counts /\ Cardinality(above(f)) \in Nat
        /\ Cardinality(above(e)) \in Nat
    <3> HIDE DEF above
    <3> QED
      BY <1>2
  <2> HIDE DEF above, counts
  <2> QED
    BY <1>5, <1>6, <2>3, <2>4
<1>8. chainIndex[e] # 0
  BY <1>7 DEF TypeOK
<1> QED
  BY <1>7, <1>8 DEF IsLast

(* No kept row has an index above the one the tick continues from.         *)
LEMMA LastIsUpperBound ==
  ASSUME TypeOK, NEW kept \in SUBSET EventIds, NEW e \in kept
  PROVE  chainIndex[e] <= LastIndex(kept)
<1>1. CASE chainIndex[e] = 0
  BY <1>1, LastRow
<1>2. CASE chainIndex[e] # 0
  <2>1. PICK m \in kept : IsLast(m, kept) /\ LastIndex(kept) = chainIndex[m]
    BY <1>2, LastExists, LastRow
  <2> QED
    BY <2>1 DEF IsLast
<1> QED
  BY <1>1, <1>2

-----------------------------------------------------------------------------
(* The digests cover what was recorded: alterations are reported.          *)

LEMMA RowsHashedStep == TypeOK /\ RowsHashed /\ [Next]_vars => RowsHashed'
<1> SUFFICES ASSUME TypeOK, RowsHashed, [Next]_vars PROVE RowsHashed'
  OBVIOUS
<1>1. ASSUME NEW w \in Workers, Tick(w)
      PROVE  RowsHashed'
  <2>1. PICK kept \in SUBSET Stored :
          \E order \in ChainOrders(kept) : TickEffect(kept, order)
    BY <1>1, TickStep
  <2>2. PICK order \in ChainOrders(kept) : TickEffect(kept, order)
    BY <2>1
  <2>3. kept \in SUBSET EventIds
    BY DEF Stored
  <2>4. /\ order \in Seq(EventIds) /\ Len(order) \in Nat
        /\ \A i \in 1..Len(order) : order[i] \in EventIds /\ chainIndex[order[i]] = 0
    BY <2>3, OrderType DEF Settled
  <2>5. LastIndex(kept) \in Nat /\ LastHash(kept) \in Hashes
    BY <2>3, LastRow
  <2>6. body' = body
    BY <2>2 DEF TickEffect
  <2>7. ASSUME NEW i \in 1..Len(order)
        PROVE  /\ chainIndex'[order[i]] # 0
               /\ chainHash'[order[i]] = Append(prevHash'[order[i]], <<order[i], "recorded">>)
    <3>1. body[order[i]] = "recorded"
      BY <2>4 DEF RowsHashed
    <3>2. Digest(LastHash(kept), order, i) =
            Append(Digest(LastHash(kept), order, i - 1), <<order[i], "recorded">>)
      BY <2>4, <2>5, <3>1, DigestStep
    <3>3. /\ chainIndex'[order[i]] = LastIndex(kept) + i
          /\ prevHash'[order[i]] = Digest(LastHash(kept), order, i - 1)
          /\ chainHash'[order[i]] = Digest(LastHash(kept), order, i)
      BY <2>2 DEF TickEffect
    <3> QED
      BY <2>4, <2>5, <3>2, <3>3
  <2>8. ASSUME NEW e \in EventIds, \A i \in 1..Len(order) : order[i] # e
        PROVE  /\ chainIndex'[e] = chainIndex[e]
               /\ prevHash'[e] = prevHash[e]
               /\ chainHash'[e] = chainHash[e]
    BY <2>2, <2>8 DEF TickEffect
  <2>9. ASSUME NEW e \in EventIds
        PROVE  /\ chainIndex'[e] = 0 => body'[e] = "recorded"
               /\ chainIndex'[e] # 0 => chainHash'[e] = Append(prevHash'[e], <<e, "recorded">>)
    <3>1. CASE \E i \in 1..Len(order) : order[i] = e
      BY <3>1, <2>7
    <3>2. CASE \A i \in 1..Len(order) : order[i] # e
      BY <3>2, <2>6, <2>8 DEF RowsHashed
    <3> QED
      BY <3>1, <3>2
  <2> QED
    BY <2>9 DEF RowsHashed
<1>2. ASSUME NEW e \in EventIds, Alter(e)
      PROVE  RowsHashed'
  BY <1>2 DEF Alter, Chained, Stored, chainVars, RowsHashed, TypeOK
<1>3. ASSUME UNCHANGED <<body, chainVars>>
      PROVE  RowsHashed'
  BY <1>3 DEF chainVars, RowsHashed
<1>4. ASSUME NEW e \in EventIds, PersistAudit(e) \/ Commit(e) \/ Abort(e)
      PROVE  UNCHANGED <<body, chainVars>>
  BY <1>4 DEF PersistAudit, Commit, Abort, chainVars
<1>5. ASSUME NEW w \in Workers,
             StartStamping(w) \/ StampSeal(w) \/ StampFails(w) \/ Restart(w)
      PROVE  UNCHANGED <<body, chainVars>>
  BY <1>5 DEF StartStamping, StampSeal, StampFails, Restart, rowVars, chainVars
<1>6. Advance \/ UNCHANGED vars => UNCHANGED <<body, chainVars>>
  BY DEF Advance, vars, rowVars, chainVars
<1> QED
  BY <1>1, <1>2, <1>3, <1>4, <1>5, <1>6 DEF Next

(* A rewritten row never goes unnoticed, with or without retention: once a *)
(* row is chained, verifyAuditChain recomputes its digest from the stored  *)
(* columns and finds it different, however the chain grew or was cut.      *)
THEOREM AlterationsAreReported == Spec => []AlterationReported
<1>1. Init => RowsHashed
  BY DEF Init, RowsHashed
<1>2. TypeOK /\ RowsHashed => AlterationReported
  <2> SUFFICES ASSUME TypeOK, RowsHashed, NEW e \in Chained, body[e] = "altered"
               PROVE  ~VerifyAuditChain
    BY DEF AlterationReported
  <2>1. e \in EventIds /\ chainIndex[e] # 0 /\ prevHash[e] \in Hashes
    BY DEF Chained, Stored, TypeOK
  <2>2. chainHash[e] = Append(prevHash[e], <<e, "recorded">>)
    BY <2>1 DEF RowsHashed
  <2>3. Append(prevHash[e], <<e, "recorded">>)[Len(prevHash[e]) + 1] = <<e, "recorded">>
        /\ Append(prevHash[e], <<e, "altered">>)[Len(prevHash[e]) + 1] = <<e, "altered">>
    BY <2>1 DEF Hashes
  <2>4. ContentAltered(e)
    BY <2>2, <2>3 DEF ContentAltered, auditEventHash
  <2> QED
    BY <2>4 DEF VerifyAuditChain
<1> QED
  BY <1>1, <1>2, TypeCorrect, RowsHashedStep, PTL DEF Spec

-----------------------------------------------------------------------------
(* Indices are unique and follow the time line.                            *)

(* A tick appends: kept rows keep their index, which is at most LastIndex, *)
(* and the rows it adds get the indices above, one each.                   *)
LEMMA TickAppends ==
  ASSUME TypeOK, NEW kept \in SUBSET Stored, NEW order \in ChainOrders(kept),
         TickEffect(kept, order)
  PROVE  /\ Stored' = kept
         /\ \A e \in EventIds :
              \/ /\ chainIndex'[e] = chainIndex[e]
                 /\ e \in kept => chainIndex'[e] <= LastIndex(kept)
                 /\ \A i \in 1..Len(order) : order[i] # e
              \/ \E i \in 1..Len(order) :
                   /\ order[i] = e
                   /\ chainIndex'[e] = LastIndex(kept) + i
                   /\ chainIndex[e] = 0
<1>1. kept \in SUBSET EventIds
  BY DEF Stored
<1>2. Stored' = kept
  BY DEF TickEffect, Stored
<1>3. \A i \in 1..Len(order) : chainIndex[order[i]] = 0
  BY <1>1, OrderType DEF Settled
<1>4. ASSUME NEW e \in EventIds, \A i \in 1..Len(order) : order[i] # e
      PROVE  /\ chainIndex'[e] = chainIndex[e]
             /\ e \in kept => chainIndex'[e] <= LastIndex(kept)
  BY <1>1, <1>4, LastIsUpperBound DEF TickEffect
<1>5. ASSUME NEW e \in EventIds, NEW i \in 1..Len(order), order[i] = e
      PROVE  chainIndex'[e] = LastIndex(kept) + i /\ chainIndex[e] = 0
  BY <1>3, <1>5 DEF TickEffect
<1> QED
  BY <1>2, <1>4, <1>5

(* Steps other than a tick may commit a row, which is not chained yet, but *)
(* change no index and no time of a row already inserted.                  *)
LEMMA OtherSteps ==
  ASSUME TypeOK, [Next]_vars, ~\E w \in Workers : Tick(w)
  PROVE  /\ chainVars' = chainVars
         /\ \A e \in EventIds : e \in Stored' => e \in Stored \/ row[e] = "open"
         /\ \A e \in EventIds : row[e] # "none" => occurredAt'[e] = occurredAt[e]
<1>1. CASE Advance
  BY <1>1 DEF Advance, rowVars, chainVars, Stored
<1>2. ASSUME NEW e \in EventIds, PersistAudit(e)
      PROVE  /\ chainVars' = chainVars
             /\ \A f \in EventIds : f \in Stored' => f \in Stored \/ row[f] = "open"
             /\ \A f \in EventIds : row[f] # "none" => occurredAt'[f] = occurredAt[f]
  BY <1>2 DEF PersistAudit, chainVars, Stored, TypeOK
<1>3. ASSUME NEW e \in EventIds, Commit(e) \/ Abort(e) \/ Alter(e)
      PROVE  /\ chainVars' = chainVars
             /\ \A f \in EventIds : f \in Stored' => f \in Stored \/ row[f] = "open"
             /\ \A f \in EventIds : row[f] # "none" => occurredAt'[f] = occurredAt[f]
  BY <1>3 DEF Commit, Abort, Alter, chainVars, Stored, TypeOK
<1>4. ASSUME NEW w \in Workers,
             StartStamping(w) \/ StampSeal(w) \/ StampFails(w) \/ Restart(w)
      PROVE  UNCHANGED <<rowVars, chainVars>>
  BY <1>4 DEF StartStamping, StampSeal, StampFails, Restart
<1>5. UNCHANGED vars => UNCHANGED <<rowVars, chainVars>>
  BY DEF vars, rowVars, chainVars
<1>6. UNCHANGED <<rowVars, chainVars>> =>
        /\ chainVars' = chainVars
        /\ \A e \in EventIds : e \in Stored' => e \in Stored \/ row[e] = "open"
        /\ \A e \in EventIds : row[e] # "none" => occurredAt'[e] = occurredAt[e]
  BY DEF rowVars, Stored
<1> QED
  BY <1>1, <1>2, <1>3, <1>4, <1>5, <1>6 DEF Next

(* A row not committed has no index.                                       *)
OpenUnchained == \A e \in EventIds : row[e] \in {"none", "open"} => chainIndex[e] = 0

LEMMA OpenUnchainedStep == TypeOK /\ OpenUnchained /\ [Next]_vars => OpenUnchained'
<1> SUFFICES ASSUME TypeOK, OpenUnchained, [Next]_vars PROVE OpenUnchained'
  OBVIOUS
<1>1. ASSUME NEW w \in Workers, Tick(w)
      PROVE  OpenUnchained'
  <2>1. PICK kept \in SUBSET Stored :
          \E order \in ChainOrders(kept) : TickEffect(kept, order)
    BY <1>1, TickStep
  <2>2. PICK order \in ChainOrders(kept) : TickEffect(kept, order)
    BY <2>1
  <2>3. kept \in SUBSET EventIds
    BY DEF Stored
  <2>4. \A i \in 1..Len(order) : row[order[i]] = "stored"
    BY <2>3, OrderType DEF Stored
  <2>5. \A e \in EventIds : row'[e] \in {"none", "open"} => row[e] = row'[e]
    BY <2>2 DEF TickEffect
  <2> QED
    BY <2>2, <2>4, <2>5 DEF TickEffect, OpenUnchained
<1>2. CASE ~\E w \in Workers : Tick(w)
  <2>1. chainIndex' = chainIndex
    BY <1>2, OtherSteps DEF chainVars
  <2>2. \A e \in EventIds : row'[e] \in {"none", "open"} => row[e] \in {"none", "open"}
    <3>1. ASSUME NEW e \in EventIds,
                 PersistAudit(e) \/ Commit(e) \/ Abort(e) \/ Alter(e)
          PROVE  \A f \in EventIds : row'[f] \in {"none", "open"} => row[f] \in {"none", "open"}
      BY <3>1 DEF PersistAudit, Commit, Abort, Alter, TypeOK
    <3>2. ASSUME NEW w \in Workers,
                 StartStamping(w) \/ StampSeal(w) \/ StampFails(w) \/ Restart(w)
          PROVE  row' = row
      BY <3>2 DEF StartStamping, StampSeal, StampFails, Restart, rowVars
    <3>3. Advance \/ UNCHANGED vars => row' = row
      BY DEF Advance, vars, rowVars
    <3> QED
      BY <1>2, <3>1, <3>2, <3>3 DEF Next
  <2> QED
    BY <2>1, <2>2 DEF OpenUnchained
<1> QED
  BY <1>1, <1>2

LEMMA UniqueStep ==
  TypeOK /\ OpenUnchained /\ ChainIndexUnique /\ [Next]_vars => ChainIndexUnique'
<1> SUFFICES ASSUME TypeOK, OpenUnchained, ChainIndexUnique, [Next]_vars
             PROVE  ChainIndexUnique'
  OBVIOUS
<1>1. ASSUME NEW w \in Workers, Tick(w)
      PROVE  ChainIndexUnique'
  <2>1. PICK kept \in SUBSET Stored :
          \E order \in ChainOrders(kept) : TickEffect(kept, order)
    BY <1>1, TickStep
  <2>2. PICK order \in ChainOrders(kept) : TickEffect(kept, order)
    BY <2>1
  <2>3. kept \in SUBSET EventIds /\ LastIndex(kept) \in Nat /\ Len(order) \in Nat
    BY LastRow, OrderType DEF Stored
  <2>6. Chained' = {e \in kept : chainIndex'[e] # 0}
    BY <2>2, TickAppends DEF Chained
  <2> SUFFICES ASSUME NEW e \in EventIds, NEW f \in EventIds,
                      e \in kept, f \in kept, chainIndex'[e] # 0,
                      chainIndex'[e] = chainIndex'[f]
               PROVE  e = f
    BY <2>3, <2>6 DEF ChainIndexUnique
  <2>4. CASE chainIndex'[e] <= LastIndex(kept)
    <3>1. chainIndex'[e] = chainIndex[e] /\ chainIndex'[f] = chainIndex[f]
      BY <2>2, <2>3, <2>4, TickAppends
    <3> QED
      BY <3>1 DEF ChainIndexUnique, Chained
  <2>5. CASE ~(chainIndex'[e] <= LastIndex(kept))
    <3>1. PICK i \in 1..Len(order) : order[i] = e /\ chainIndex'[e] = LastIndex(kept) + i
      BY <2>2, <2>5, TickAppends
    <3>2. PICK j \in 1..Len(order) : order[j] = f /\ chainIndex'[f] = LastIndex(kept) + j
      BY <2>2, <2>5, TickAppends
    <3>3. LastIndex(kept) + i = LastIndex(kept) + j
      BY <3>1, <3>2
    <3>4. i = j
      BY <2>3, <3>3
    <3> QED
      BY <3>1, <3>2, <3>4
  <2> QED
    BY <2>4, <2>5
<1>2. CASE ~\E w \in Workers : Tick(w)
  <2>1. chainIndex' = chainIndex
    BY <1>2, OtherSteps DEF chainVars
  <2>2. \A e \in Chained' : e \in Chained
    BY <1>2, <2>1, OtherSteps DEF OpenUnchained, Chained, Stored
  <2> QED
    BY <2>1, <2>2 DEF ChainIndexUnique
<1> QED
  BY <1>1, <1>2

(* The scheduler never breaks the unique constraint on chainIndex, however *)
(* retention, restarts and late commits interleave with its ticks.         *)
THEOREM IndicesAreUnique == Spec => []ChainIndexUnique
<1>1. Init => OpenUnchained /\ ChainIndexUnique
  BY DEF Init, OpenUnchained, ChainIndexUnique, Chained, Stored
<1> QED
  BY <1>1, TypeCorrect, OpenUnchainedStep, UniqueStep, PTL DEF Spec

(* The order in which a tick chains: by time, and whatever it leaves for a *)
(* later tick is not older than what it takes.                             *)
LEMMA OrderTimes ==
  ASSUME TypeOK, NEW kept \in SUBSET EventIds, NEW order \in ChainOrders(kept)
  PROVE  /\ \A i, j \in 1..Len(order) : i < j => occurredAt[order[i]] <= occurredAt[order[j]]
         /\ \A i \in 1..Len(order) : occurredAt[order[i]] + Settle < now
         /\ \A e \in kept : /\ Settled(e)
                            /\ \A i \in 1..Len(order) : order[i] # e
                            => \A i \in 1..Len(order) : occurredAt[order[i]] <= occurredAt[e]
<1> DEFINE ready == {e \in kept : Settled(e)}
           k     == IF Cardinality(ready) < Batch THEN Cardinality(ready) ELSE Batch
<1>1. k \in Nat
  BY FiniteRows, AuditAssumption
<1>2. /\ order \in [1..k -> ready]
      /\ \A i, j \in 1..k : i < j => Before(order[i], order[j])
      /\ \A e \in ready : (\E i \in 1..k : order[i] = e)
                          \/ \A i \in 1..k : Before(order[i], e)
  BY DEF ChainOrders
<1> HIDE DEF k
<1>3. Len(order) = k
  BY <1>1, <1>2
<1>4. \A i \in 1..k : order[i] \in EventIds /\ Settled(order[i])
  BY <1>2
<1>5. \A e, f \in EventIds : Before(e, f) => occurredAt[e] <= occurredAt[f]
  BY DEF Before, TypeOK
<1>6. \A e \in EventIds : Settled(e) => occurredAt[e] + Settle < now
  BY AuditAssumption DEF Settled, TypeOK
<1>7. ASSUME NEW e \in kept, Settled(e), \A i \in 1..k : order[i] # e, NEW i \in 1..k
      PROVE  occurredAt[order[i]] <= occurredAt[e]
  <2>1. Before(order[i], e)
    BY <1>2, <1>7
  <2> QED
    BY <1>4, <1>5, <2>1
<1>8. \A i, j \in 1..k : i < j => occurredAt[order[i]] <= occurredAt[order[j]]
  BY <1>2, <1>4, <1>5
<1> HIDE DEF ready
<1> QED
  BY <1>3, <1>4, <1>6, <1>7, <1>8

TimeInv == OpenUnchained /\ PendingAfterChained /\ ChainInTimeOrder

LEMMA TickKeepsTime ==
  ASSUME TypeOK, TimeInv, NEW w \in Workers, Tick(w)
  PROVE  PendingAfterChained' /\ ChainInTimeOrder'
<1>1. PICK kept \in SUBSET Stored :
        \E order \in ChainOrders(kept) : TickEffect(kept, order)
  BY TickStep
<1>2. PICK order \in ChainOrders(kept) : TickEffect(kept, order)
  BY <1>1
<1>3. kept \in SUBSET EventIds /\ LastIndex(kept) \in Nat /\ Len(order) \in Nat
  BY LastRow, OrderType DEF Stored
<1>4. /\ Stored' = kept
      /\ Chained' = {e \in kept : chainIndex'[e] # 0}
      /\ now' = now /\ occurredAt' = occurredAt
      /\ \A e \in EventIds : row'[e] = "open" => row[e] = "open"
  BY <1>2, TickAppends DEF TickEffect, Chained
<1>5. /\ \A e \in EventIds : occurredAt[e] \in Nat /\ chainIndex[e] \in Nat
      /\ now \in Nat /\ MaxTx \in Nat /\ Settle \in Nat /\ MaxTx <= Settle
  BY AuditAssumption DEF TypeOK
<1>6. ASSUME NEW e \in EventIds, chainIndex'[e] # 0
      PROVE  occurredAt[e] + Settle < now
  BY <1>2, <1>3, <1>6, TickAppends, OrderTimes DEF TimeInv, PendingAfterChained
<1>7. ASSUME NEW i \in 1..Len(order), NEW c \in kept, chainIndex[c] # 0
      PROVE  occurredAt[c] <= occurredAt[order[i]]
  <2>1. order[i] \in kept /\ chainIndex[order[i]] = 0
    BY <1>3, OrderType DEF Settled
  <2> QED
    BY <1>7, <2>1 DEF TimeInv, PendingAfterChained, Chained
<1>8. ASSUME NEW e \in kept, NEW c \in kept, chainIndex'[e] = 0, chainIndex'[c] # 0
      PROVE  occurredAt[c] <= occurredAt[e]
  <2>1. chainIndex[e] = 0 /\ \A i \in 1..Len(order) : order[i] # e
    BY <1>2, <1>3, <1>8, TickAppends
  <2>2. CASE chainIndex[c] # 0
    BY <2>1, <2>2 DEF TimeInv, PendingAfterChained, Chained
  <2>3. CASE chainIndex[c] = 0
    <3>1. PICK i \in 1..Len(order) : order[i] = c
      BY <1>2, <1>3, <1>8, <2>3, TickAppends
    <3>2. CASE Settled(e)
      BY <1>3, <2>1, <3>1, <3>2, OrderTimes
    <3>3. CASE ~Settled(e)
      <4>1. occurredAt[c] + Settle < now
        BY <1>3, <1>8, <1>6
      <4> QED
        BY <1>3, <1>5, <2>1, <3>3, <4>1 DEF Settled
    <3> QED
      BY <3>2, <3>3
  <2> QED
    BY <2>2, <2>3
<1>9. ASSUME NEW e \in kept, NEW f \in kept, chainIndex'[e] # 0, chainIndex'[f] # 0,
             chainIndex'[e] < chainIndex'[f]
      PROVE  occurredAt[e] <= occurredAt[f]
  <2>1. CASE \E j \in 1..Len(order) : order[j] = f /\ chainIndex'[f] = LastIndex(kept) + j
    <3>1. PICK j \in 1..Len(order) : order[j] = f /\ chainIndex'[f] = LastIndex(kept) + j
      BY <2>1
    <3>2. CASE \E i \in 1..Len(order) : order[i] = e /\ chainIndex'[e] = LastIndex(kept) + i
      <4>1. PICK i \in 1..Len(order) : order[i] = e /\ chainIndex'[e] = LastIndex(kept) + i
        BY <3>2
      <4>2. i < j
        BY <1>3, <1>9, <3>1, <4>1
      <4> QED
        BY <1>3, <3>1, <4>1, <4>2, OrderTimes
    <3>3. CASE chainIndex'[e] = chainIndex[e]
      BY <1>7, <1>9, <3>1, <3>3
    <3> QED
      BY <1>2, <1>3, <3>2, <3>3, TickAppends
  <2>2. CASE chainIndex'[f] = chainIndex[f] /\ chainIndex'[f] <= LastIndex(kept)
    <3>1. chainIndex'[e] = chainIndex[e]
      BY <1>2, <1>3, <1>5, <1>9, <2>2, TickAppends
    <3> QED
      BY <1>9, <2>2, <3>1 DEF TimeInv, ChainInTimeOrder, Chained
  <2> QED
    BY <1>2, <1>3, <2>1, <2>2, TickAppends
<1>10. \A e \in EventIds : row'[e] = "open" => occurredAt[e] + MaxTx >= now
  BY <1>4 DEF TimeInv, PendingAfterChained
<1> QED
  BY <1>4, <1>6, <1>8, <1>9, <1>10 DEF PendingAfterChained, ChainInTimeOrder

(* No other step disturbs the time line: time passes no faster than open   *)
(* transactions allow, and a committing row is younger than the chain.     *)
LEMMA OthersKeepTime ==
  ASSUME TypeOK, TimeInv, [Next]_vars, ~\E w \in Workers : Tick(w)
  PROVE  PendingAfterChained' /\ ChainInTimeOrder'
<1>1. /\ \A e \in EventIds : occurredAt[e] \in Nat /\ chainIndex[e] \in Nat
      /\ now \in Nat /\ MaxTx \in Nat /\ Settle \in Nat /\ MaxTx <= Settle
  BY AuditAssumption DEF TypeOK
<1>2. /\ chainIndex' = chainIndex
      /\ \A e \in Stored' : e \in Stored \/ row[e] = "open"
      /\ \A e \in EventIds : chainIndex[e] # 0 => occurredAt'[e] = occurredAt[e]
      /\ \A e \in Stored' : occurredAt'[e] = occurredAt[e]
  BY OtherSteps DEF chainVars, TimeInv, OpenUnchained, Stored
<1>3. \A c \in Chained' : c \in Chained
  BY <1>2 DEF TimeInv, OpenUnchained, Chained, Stored
<1>4. ChainInTimeOrder'
  BY <1>2, <1>3 DEF TimeInv, ChainInTimeOrder, Chained, Stored
<1>5. ASSUME NEW e \in Stored', chainIndex'[e] = 0, NEW c \in Chained'
      PROVE  occurredAt'[c] <= occurredAt'[e]
  <2>1. /\ c \in Chained /\ c \in EventIds /\ e \in EventIds /\ chainIndex[e] = 0
        /\ occurredAt'[c] = occurredAt[c] /\ occurredAt'[e] = occurredAt[e]
    BY <1>2, <1>3, <1>5 DEF Chained, Stored
  <2>2. CASE e \in Stored
    BY <2>1, <2>2 DEF TimeInv, PendingAfterChained
  <2>3. CASE row[e] = "open"
    BY <1>1, <2>1, <2>3 DEF TimeInv, PendingAfterChained, Chained
  <2> QED
    BY <1>2, <2>2, <2>3
<1>6. now' \in Nat /\ now <= now'
  <2>1. Advance => now' = now + 1
    BY DEF Advance
  <2>2. ASSUME NEW e \in EventIds, PersistAudit(e) \/ Commit(e) \/ Abort(e) \/ Alter(e)
        PROVE  now' = now
    BY <2>2 DEF PersistAudit, Commit, Abort, Alter
  <2>3. ASSUME NEW w \in Workers,
               StartStamping(w) \/ StampSeal(w) \/ StampFails(w) \/ Restart(w)
        PROVE  now' = now
    BY <2>3 DEF StartStamping, StampSeal, StampFails, Restart
  <2>4. UNCHANGED vars => now' = now
    BY DEF vars
  <2> QED
    BY <1>1, <2>1, <2>2, <2>3, <2>4 DEF Next
<1>7. \A e \in EventIds : chainIndex'[e] # 0 => occurredAt'[e] + Settle < now'
  BY <1>1, <1>2, <1>6 DEF TimeInv, PendingAfterChained
<1>8. \A e \in EventIds : row'[e] = "open" => occurredAt'[e] + MaxTx >= now'
  <2>1. CASE Advance
    BY <1>1, <2>1 DEF Advance, rowVars
  <2>2. ASSUME NEW e \in EventIds, PersistAudit(e)
        PROVE  \A f \in EventIds : row'[f] = "open" => occurredAt'[f] + MaxTx >= now'
    BY <1>1, <2>2 DEF PersistAudit, TimeInv, PendingAfterChained, TypeOK
  <2>3. ASSUME NEW e \in EventIds, Commit(e) \/ Abort(e) \/ Alter(e)
        PROVE  \A f \in EventIds : row'[f] = "open" => occurredAt'[f] + MaxTx >= now'
    BY <2>3 DEF Commit, Abort, Alter, TimeInv, PendingAfterChained, TypeOK
  <2>4. ASSUME NEW w \in Workers,
               StartStamping(w) \/ StampSeal(w) \/ StampFails(w) \/ Restart(w)
        PROVE  UNCHANGED <<now, row, occurredAt>>
    BY <2>4 DEF StartStamping, StampSeal, StampFails, Restart, rowVars
  <2>5. UNCHANGED vars => UNCHANGED <<now, row, occurredAt>>
    BY DEF vars
  <2>6. UNCHANGED <<now, row, occurredAt>> =>
          \A f \in EventIds : row'[f] = "open" => occurredAt'[f] + MaxTx >= now'
    BY DEF TimeInv, PendingAfterChained
  <2> QED
    BY <2>1, <2>2, <2>3, <2>4, <2>5, <2>6 DEF Next
<1> QED
  BY <1>4, <1>5, <1>7, <1>8 DEF PendingAfterChained

(* The settling delay is long enough: as no transaction outlives it, the   *)
(* chain follows the time line for every interleaving of late commits,     *)
(* ticks, purges and restarts.                                             *)
THEOREM ChainFollowsTime == Spec => []ChainInTimeOrder
<1>1. Init => TimeInv
  BY DEF Init, TimeInv, OpenUnchained, PendingAfterChained, ChainInTimeOrder, Chained, Stored
<1>2. TypeOK /\ TimeInv /\ [Next]_vars => TimeInv'
  <2> SUFFICES ASSUME TypeOK, TimeInv, [Next]_vars PROVE TimeInv'
    OBVIOUS
  <2>1. OpenUnchained'
    BY OpenUnchainedStep DEF TimeInv
  <2>2. PendingAfterChained' /\ ChainInTimeOrder'
    BY TickKeepsTime, OthersKeepTime
  <2> QED
    BY <2>1, <2>2 DEF TimeInv
<1>3. TimeInv => ChainInTimeOrder
  BY DEF TimeInv
<1> QED
  BY <1>1, <1>2, <1>3, TypeCorrect, PTL DEF Spec

-----------------------------------------------------------------------------
(* Without retention the integrity report never raises a false alarm.      *)

LinkInv == OpenUnchained /\ RowsHashed /\ ChainIndexUnique /\ ChainLinked

LEMMA TickKeepsLinks ==
  ASSUME RetentionAge = 0, TypeOK, LinkInv, NEW w \in Workers, Tick(w)
  PROVE  ChainLinked'
<1>1. PICK kept \in SUBSET Stored :
        kept = Stored /\ \E order \in ChainOrders(kept) : TickEffect(kept, order)
  BY TickStep
<1>2. PICK order \in ChainOrders(kept) : TickEffect(kept, order)
  BY <1>1
<1>3. /\ kept \in SUBSET EventIds
      /\ LastIndex(kept) \in Nat /\ LastHash(kept) \in Hashes
      /\ Len(order) \in Nat /\ order \in Seq(EventIds)
      /\ \A i \in 1..Len(order) : order[i] \in EventIds /\ order[i] \in Stored
  BY <1>1, LastRow, OrderType DEF Stored
<1>4. /\ row' = row
      /\ \A e \in EventIds : chainIndex[e] \in Nat
  BY <1>1, <1>2 DEF TickEffect, Stored, TypeOK
<1>5. ASSUME NEW i \in 1..Len(order)
      PROVE  /\ chainIndex'[order[i]] = LastIndex(kept) + i
             /\ prevHash'[order[i]] = Digest(LastHash(kept), order, i - 1)
             /\ chainHash'[order[i]] = Digest(LastHash(kept), order, i)
  BY <1>2 DEF TickEffect
<1>6. ASSUME NEW e \in EventIds, chainIndex[e] # 0
      PROVE  /\ chainIndex'[e] = chainIndex[e]
             /\ prevHash'[e] = prevHash[e]
             /\ chainHash'[e] = chainHash[e]
  <2>1. \A i \in 1..Len(order) : order[i] # e
    BY <1>3, <1>6, OrderType DEF Settled
  <2> QED
    BY <1>2, <2>1 DEF TickEffect
<1>7. LastIndex(kept) # 0 =>
        \E m \in EventIds : chainIndex'[m] = LastIndex(kept) /\ chainHash'[m] = LastHash(kept)
  BY <1>3, <1>6, LastRow
<1>8. \A e \in EventIds : chainIndex'[e] # 0 => row'[e] = "stored"
  BY <1>2, <1>3, <1>4, TickAppends DEF LinkInv, ChainLinked, Stored
<1>9. ASSUME NEW e \in EventIds, chainIndex'[e] > 1
      PROVE  \E f \in EventIds : /\ chainIndex'[f] = chainIndex'[e] - 1
                                 /\ chainHash'[f] = prevHash'[e]
  <2>1. CASE chainIndex[e] # 0
    <3>1. PICK f \in EventIds : /\ chainIndex[f] = chainIndex[e] - 1
                                /\ chainHash[f] = prevHash[e]
      BY <1>6, <1>9, <2>1 DEF LinkInv, ChainLinked
    <3>2. chainIndex[f] # 0
      BY <1>4, <1>6, <1>9, <2>1, <3>1
    <3> QED
      BY <1>6, <2>1, <3>1, <3>2
  <2>2. CASE chainIndex[e] = 0
    <3>1. PICK i \in 1..Len(order) : order[i] = e /\ chainIndex'[e] = LastIndex(kept) + i
      BY <1>2, <1>9, <2>2, TickAppends
    <3>2. CASE i = 1
      <4>1. LastIndex(kept) # 0 /\ LastIndex(kept) = chainIndex'[e] - 1
        BY <1>3, <1>9, <3>1, <3>2
      <4>2. prevHash'[e] = LastHash(kept)
        BY <1>3, <1>5, <3>1, <3>2, DigestEmpty
      <4> QED
        BY <1>7, <4>1, <4>2
    <3>3. CASE i # 1
      <4>1. i - 1 \in 1..Len(order)
        BY <1>3, <3>3
      <4>2. chainIndex'[order[i - 1]] = chainIndex'[e] - 1
        <5>1. chainIndex'[order[i - 1]] = LastIndex(kept) + (i - 1)
          BY <1>5, <4>1
        <5>2. LastIndex(kept) + (i - 1) = (LastIndex(kept) + i) - 1
          BY <1>3
        <5> QED
          BY <3>1, <5>1, <5>2
      <4>3. chainHash'[order[i - 1]] = prevHash'[e]
        BY <1>5, <3>1, <4>1
      <4> QED
        BY <1>3, <4>1, <4>2, <4>3
    <3> QED
      BY <3>2, <3>3
  <2> QED
    BY <2>1, <2>2
<1>10. ASSUME NEW i \in 1..Len(seals')
       PROVE  \E e \in EventIds : /\ chainIndex'[e] = seals'[i].lastChainIndex
                                  /\ chainHash'[e] = seals'[i].chainHash
  <2> DEFINE last == LastIndex(kept) + Len(order)
             hash == Digest(LastHash(kept), order, Len(order))
  <2>1. seals' = IF SealDue(last) THEN Append(seals, NewSeal(last, hash)) ELSE seals
    BY <1>2 DEF TickEffect, SealAuditChain
  <2>2. SealDue(last) => last # 0
    BY DEF SealDue
  <2>3. /\ NewSeal(last, hash).lastChainIndex = last
        /\ NewSeal(last, hash).chainHash = hash
    <3> HIDE DEF last, hash
    <3> QED
      BY DEF NewSeal
  <2>4. ASSUME last # 0
        PROVE  \E e \in EventIds : chainIndex'[e] = last /\ chainHash'[e] = hash
    <3>1. CASE Len(order) = 0
      <4>1. last = LastIndex(kept) /\ hash = LastHash(kept)
        BY <1>3, <3>1, DigestEmpty
      <4> HIDE DEF last, hash
      <4> QED
        BY <1>7, <2>4, <4>1
    <3>2. CASE Len(order) # 0
      <4>1. Len(order) \in 1..Len(order)
        BY <1>3, <3>2
      <4> QED
        BY <1>3, <1>5, <4>1
    <3> QED
      BY <3>1, <3>2
  <2> HIDE DEF last, hash
  <2>5. seals \in Seq(Seal) /\ Len(seals) \in Nat
    BY DEF TypeOK
  <2>6. CASE i \in 1..Len(seals) /\ seals'[i] = seals[i]
    <3>1. PICK e \in EventIds : /\ chainIndex[e] = seals[i].lastChainIndex
                                /\ chainHash[e] = seals[i].chainHash
      BY <2>6 DEF LinkInv, ChainLinked
    <3>2. chainIndex[e] # 0
      <4>1. seals[i] \in Seal
        BY <2>5, <2>6, ElementOfSeq
      <4>2. seals[i].lastChainIndex # 0
        BY <4>1 DEF Seal
      <4> QED
        BY <3>1, <4>2
    <3> QED
      BY <1>6, <2>6, <3>1, <3>2
  <2>7. CASE SealDue(last) /\ seals'[i] = NewSeal(last, hash)
    BY <2>2, <2>3, <2>4, <2>7
  <2>8. \/ i \in 1..Len(seals) /\ seals'[i] = seals[i]
        \/ SealDue(last) /\ seals'[i] = NewSeal(last, hash)
    BY <2>1, <2>5
  <2> QED
    BY <2>6, <2>7, <2>8
<1> QED
  BY <1>8, <1>9, <1>10 DEF ChainLinked

(* Only a tick adds seals; a time-stamp changes nothing but the token.     *)
LEMMA SealsStay ==
  ASSUME TypeOK, [Next]_vars, ~\E w \in Workers : Tick(w)
  PROVE  /\ Len(seals') = Len(seals)
         /\ \A i \in 1..Len(seals) : /\ seals'[i].lastChainIndex = seals[i].lastChainIndex
                                     /\ seals'[i].chainHash = seals[i].chainHash
                                     /\ seals'[i].eventCount = seals[i].eventCount
<1>1. ASSUME NEW w \in Workers, StampSeal(w)
      PROVE  /\ Len(seals') = Len(seals)
             /\ \A i \in 1..Len(seals) :
                  /\ seals'[i].lastChainIndex = seals[i].lastChainIndex
                  /\ seals'[i].chainHash = seals[i].chainHash
                  /\ seals'[i].eventCount = seals[i].eventCount
  <2> DEFINE h == Head(stamping[w])
             stamped == [seals[h] EXCEPT !.token = issued + 1]
  <2>1. seals' = [seals EXCEPT ![h] = stamped] /\ seals \in Seq(Seal)
    BY <1>1 DEF StampSeal, TypeOK
  <2>2. \A i \in 1..Len(seals) : seals[i] \in Seal
    BY <2>1, ElementOfSeq
  <2>3. CASE h \in 1..Len(seals)
    <3>1. /\ stamped.lastChainIndex = seals[h].lastChainIndex
          /\ stamped.chainHash = seals[h].chainHash
          /\ stamped.eventCount = seals[h].eventCount
      <4>1. seals[h] \in Seal
        BY <2>2, <2>3
      <4> HIDE DEF h
      <4> QED
        BY <4>1 DEF Seal
    <3> HIDE DEF h, stamped
    <3>2. \A i \in 1..Len(seals) : seals'[i] = IF i = h THEN stamped ELSE seals[i]
      BY <2>1
    <3>3. Len(seals') = Len(seals)
      BY <2>1
    <3> QED
      BY <3>1, <3>2, <3>3
  <2>4. CASE h \notin 1..Len(seals)
    <3> HIDE DEF h, stamped
    <3>1. seals' = seals
      BY <2>1, <2>4
    <3> QED
      BY <3>1
  <2> QED
    BY <2>3, <2>4
<1>2. ASSUME NEW e \in EventIds, PersistAudit(e) \/ Commit(e) \/ Abort(e) \/ Alter(e)
      PROVE  seals' = seals
  BY <1>2 DEF PersistAudit, Commit, Abort, Alter
<1>3. ASSUME NEW w \in Workers, StartStamping(w) \/ StampFails(w) \/ Restart(w)
      PROVE  seals' = seals
  BY <1>3 DEF StartStamping, StampFails, Restart
<1>4. Advance \/ UNCHANGED vars => seals' = seals
  BY DEF Advance, vars
<1> QED
  BY <1>1, <1>2, <1>3, <1>4 DEF Next

LEMMA OthersKeepLinks ==
  ASSUME TypeOK, LinkInv, [Next]_vars, ~\E w \in Workers : Tick(w)
  PROVE  ChainLinked'
<1>1. UNCHANGED <<chainIndex, prevHash, chainHash>>
  BY OtherSteps DEF chainVars
<1>2. \A e \in EventIds : row[e] = "stored" => row'[e] = "stored"
  <2>1. ASSUME NEW e \in EventIds, PersistAudit(e) \/ Commit(e) \/ Abort(e) \/ Alter(e)
        PROVE  \A f \in EventIds : row[f] = "stored" => row'[f] = "stored"
    BY <2>1 DEF PersistAudit, Commit, Abort, Alter, TypeOK
  <2>2. ASSUME NEW w \in Workers,
               StartStamping(w) \/ StampSeal(w) \/ StampFails(w) \/ Restart(w)
        PROVE  row' = row
    BY <2>2 DEF StartStamping, StampSeal, StampFails, Restart, rowVars
  <2>3. Advance \/ UNCHANGED vars => row' = row
    BY DEF Advance, vars, rowVars
  <2> QED
    BY <2>1, <2>2, <2>3 DEF Next
<1>3. /\ Len(seals') = Len(seals)
      /\ \A i \in 1..Len(seals) : /\ seals'[i].lastChainIndex = seals[i].lastChainIndex
                                  /\ seals'[i].chainHash = seals[i].chainHash
  BY SealsStay
<1> QED
  BY <1>1, <1>2, <1>3 DEF LinkInv, ChainLinked

(* What verifyAuditChain tests follows from the links.                     *)
LEMMA LinksVerify ==
  ASSUME TypeOK, LinkInv PROVE NoFalseAlarm
<1> SUFFICES ASSUME \A e \in EventIds : body[e] = "recorded"
             PROVE  VerifyAuditChain
  BY DEF NoFalseAlarm
<1>1. \A e \in EventIds : chainIndex[e] # 0 <=> e \in Chained
  BY DEF LinkInv, ChainLinked, Chained, Stored
<1>2. \A e \in EventIds : chainIndex[e] \in Nat
  BY DEF TypeOK
<1>3. \A e, f \in EventIds : chainIndex[e] # 0 /\ chainIndex[e] = chainIndex[f] => e = f
  BY <1>1 DEF LinkInv, ChainIndexUnique
<1>4. ASSUME NEW e \in Chained
      PROVE  ~MissingEvents(e) /\ ~LinkMismatch(e) /\ ~ContentAltered(e)
  <2>1. e \in EventIds /\ chainIndex[e] # 0
    BY DEF Chained, Stored
  <2>2. ~ContentAltered(e)
    BY <2>1 DEF LinkInv, RowsHashed, ContentAltered, auditEventHash
  <2>3. ASSUME NEW f \in Chained, Precedes(f, e)
        PROVE  chainIndex[f] + 1 = chainIndex[e] /\ prevHash[e] = chainHash[f]
    <3>1. f \in EventIds /\ chainIndex[f] # 0 /\ chainIndex[f] < chainIndex[e]
      BY <2>3 DEF Precedes, Chained, Stored
    <3>2. chainIndex[e] > 1
      BY <1>2, <2>1, <3>1
    <3>3. PICK g \in EventIds : chainIndex[g] = chainIndex[e] - 1 /\ chainHash[g] = prevHash[e]
      BY <2>1, <3>2 DEF LinkInv, ChainLinked
    <3>4. g \in Chained /\ chainIndex[g] < chainIndex[e]
      BY <1>1, <1>2, <2>1, <3>2, <3>3
    <3>5. ~(chainIndex[f] < chainIndex[g])
      BY <2>3, <3>4 DEF Precedes
    <3>6. chainIndex[f] = chainIndex[g]
      BY <1>2, <2>1, <3>1, <3>3, <3>5
    <3>7. f = g
      BY <1>3, <3>1, <3>6
    <3> QED
      BY <1>2, <2>1, <3>3, <3>7
  <2> QED
    BY <2>2, <2>3 DEF MissingEvents, LinkMismatch
<1>5. ASSUME NEW i \in 1..Len(seals)
      PROVE  ~SealMismatch(i)
  <2> SUFFICES ASSUME NEW e \in Chained, chainIndex[e] = seals[i].lastChainIndex
               PROVE  chainHash[e] = seals[i].chainHash
    BY DEF SealMismatch
  <2>1. PICK f \in EventIds : /\ chainIndex[f] = seals[i].lastChainIndex
                              /\ chainHash[f] = seals[i].chainHash
    BY DEF LinkInv, ChainLinked
  <2>2. e \in EventIds /\ chainIndex[e] # 0
    BY DEF Chained, Stored
  <2> QED
    BY <1>3, <2>1, <2>2
<1> QED
  BY <1>4, <1>5 DEF VerifyAuditChain

(* When audit retention is disabled (AUDIT_RETENTION_DAYS unset), the      *)
(* integrity report is valid for as long as nobody rewrites a row: late    *)
(* commits, restarts, batches cut short and time-stamping never make       *)
(* verifyAuditChain report a gap, a broken link or a seal mismatch.        *)
THEOREM NoFalseAlarmWithoutRetention == RetentionAge = 0 => (Spec => []NoFalseAlarm)
<1> SUFFICES ASSUME RetentionAge = 0 PROVE Spec => []NoFalseAlarm
  OBVIOUS
<1>1. Init => LinkInv
  BY DEF Init, LinkInv, OpenUnchained, RowsHashed, ChainIndexUnique, ChainLinked,
         Chained, Stored
<1>2. TypeOK /\ LinkInv /\ [Next]_vars => LinkInv'
  <2> SUFFICES ASSUME TypeOK, LinkInv, [Next]_vars PROVE LinkInv'
    OBVIOUS
  <2>1. OpenUnchained' /\ RowsHashed' /\ ChainIndexUnique'
    BY OpenUnchainedStep, RowsHashedStep, UniqueStep DEF LinkInv
  <2>2. ChainLinked'
    BY TickKeepsLinks, OthersKeepLinks
  <2> QED
    BY <2>1, <2>2 DEF LinkInv
<1>3. TypeOK /\ LinkInv => NoFalseAlarm
  BY LinksVerify
<1> QED
  BY <1>1, <1>2, <1>3, TypeCorrect, PTL DEF Spec

-----------------------------------------------------------------------------
(* The seals cut the chain, with or without retention.                     *)

(* The digest of a chained row covers as many rows as its index says: the  *)
(* purge that empties the chain resets both.                               *)
DigestsMeasure ==
  \A e \in EventIds : chainIndex[e] # 0 => Len(chainHash[e]) = chainIndex[e]

SealInv == DigestsMeasure /\ SealsPartitionChain

(* What a tick chains onto is as long as the last index.                   *)
LEMMA LastMeasure ==
  ASSUME TypeOK, DigestsMeasure, NEW kept \in SUBSET EventIds
  PROVE  Len(LastHash(kept)) = LastIndex(kept)
<1>1. CASE \E e \in kept : /\ IsLast(e, kept)
                           /\ LastIndex(kept) = chainIndex[e]
                           /\ LastHash(kept) = chainHash[e]
  BY <1>1 DEF DigestsMeasure, IsLast
<1>2. CASE LastIndex(kept) = 0 /\ LastHash(kept) = GENESIS
  BY <1>2 DEF GENESIS
<1> QED
  BY <1>1, <1>2, LastRow

LEMMA TickKeepsSeals ==
  ASSUME TypeOK, SealInv, NEW w \in Workers, Tick(w)
  PROVE  SealInv'
<1>1. PICK kept \in SUBSET Stored : \E order \in ChainOrders(kept) : TickEffect(kept, order)
  BY TickStep
<1>2. PICK order \in ChainOrders(kept) : TickEffect(kept, order)
  BY <1>1
<1>3. kept \in SUBSET EventIds
  BY DEF Stored
<1>4. PICK n \in Nat : n = LastIndex(kept)
  BY <1>3, LastRow
<1>5. PICK h \in Hashes : h = LastHash(kept)
  BY <1>3, LastRow
<1>6. Len(h) = n
  BY <1>3, <1>4, <1>5, LastMeasure DEF SealInv
<1>7. order \in Seq(EventIds) /\ Len(order) \in Nat
  BY <1>3, OrderType
<1>8. DigestsMeasure'
  <2> SUFFICES ASSUME NEW e \in EventIds, chainIndex'[e] # 0
               PROVE  Len(chainHash'[e]) = chainIndex'[e]
    BY DEF DigestsMeasure
  <2>1. ASSUME NEW i \in 1..Len(order), order[i] = e
        PROVE  Len(chainHash'[e]) = chainIndex'[e]
    <3>1. chainIndex'[e] = n + i /\ chainHash'[e] = Digest(h, order, i)
      BY <1>2, <1>4, <1>5, <2>1 DEF TickEffect
    <3>2. Len(Digest(h, order, i)) = Len(h) + i
      BY <1>7, DigestType
    <3> QED
      BY <1>6, <3>1, <3>2
  <2>2. CASE \A i \in 1..Len(order) : order[i] # e
    BY <1>2, <2>2 DEF TickEffect, SealInv, DigestsMeasure
  <2> QED
    BY <2>1, <2>2
<1>9. PICK last \in Nat : last = n + Len(order)
  BY <1>7
<1>10. PICK hash \in Hashes : hash = Digest(h, order, Len(order)) /\ Len(hash) = last
  BY <1>6, <1>7, <1>9, DigestType
<1>11. seals' = IF SealDue(last) THEN Append(seals, NewSeal(last, hash)) ELSE seals
  BY <1>2, <1>4, <1>5, <1>9, <1>10 DEF TickEffect, SealAuditChain
<1>12. SealsPartitionChain'
  <2>1. CASE ~SealDue(last)
    BY <1>11, <2>1 DEF SealInv, SealsPartitionChain
  <2>2. CASE SealDue(last)
    <3>1. seals \in Seq(Seal) /\ Len(seals) \in Nat
      BY DEF TypeOK
    <3>2. PICK k \in Nat : k = Len(seals)
      BY <3>1
    <3> DEFINE new == NewSeal(last, hash)
               before == IF k = 0 THEN 0 ELSE seals[k].lastChainIndex
    <3>3. /\ Len(seals') = k + 1
          /\ seals'[k + 1] = new
          /\ \A i \in 1..k : seals'[i] = seals[i]
      BY <1>11, <2>2, <3>1, <3>2
    <3>4. seals = << >> <=> k = 0
      BY <3>1, <3>2
    <3>5. new.lastChainIndex = last /\ new.chainHash = hash /\ new.eventCount = last - before
      BY <3>2, <3>4 DEF NewSeal
    <3>6. before \in Nat /\ last > before
      <4>1. CASE k = 0
        BY <2>2, <4>1 DEF SealDue
      <4>2. CASE k # 0
        <5>1. seals[k] \in Seal
          BY <3>1, <3>2, <4>2, ElementOfSeq
        <5>2. seals[k].lastChainIndex \in Nat
          BY <5>1 DEF Seal
        <5>3. seals[k].lastChainIndex < last
          BY <2>2, <3>2, <3>4, <4>2 DEF SealDue
        <5> QED
          BY <4>2, <5>2, <5>3
      <4> QED
        BY <4>1, <4>2
    <3> HIDE DEF new
    <3> SUFFICES ASSUME NEW i \in 1..k + 1
                 PROVE  LET b == IF i = 1 THEN 0 ELSE seals'[i - 1].lastChainIndex IN
                        /\ seals'[i].lastChainIndex > b
                        /\ seals'[i].eventCount = seals'[i].lastChainIndex - b
                        /\ Len(seals'[i].chainHash) = seals'[i].lastChainIndex
      BY <3>3 DEF SealsPartitionChain
    <3>7. CASE i = k + 1
      <4>1. (IF i = 1 THEN 0 ELSE seals'[i - 1].lastChainIndex) = before
        <5>1. CASE k = 0
          BY <3>7, <5>1
        <5>2. CASE k # 0
          <6>1. i # 1 /\ i - 1 = k /\ k \in 1..k
            BY <3>7, <5>2
          <6> QED
            BY <3>3, <5>2, <6>1
        <5> QED
          BY <5>1, <5>2
      <4> HIDE DEF before
      <4> QED
        BY <1>10, <3>3, <3>5, <3>6, <3>7, <4>1
    <3>8. CASE i \in 1..k
      <4>1. seals'[i] = seals[i]
        BY <3>3, <3>8
      <4>2. (IF i = 1 THEN 0 ELSE seals'[i - 1].lastChainIndex)
              = IF i = 1 THEN 0 ELSE seals[i - 1].lastChainIndex
        <5>1. i # 1 => i - 1 \in 1..k
          BY <3>8
        <5> QED
          BY <3>3, <5>1
      <4> QED
        BY <3>2, <3>8, <4>1, <4>2 DEF SealInv, SealsPartitionChain
    <3> QED
      BY <3>7, <3>8
  <2> QED
    BY <2>1, <2>2
<1> QED
  BY <1>8, <1>12 DEF SealInv

LEMMA OthersKeepSeals ==
  ASSUME TypeOK, SealInv, [Next]_vars, ~\E w \in Workers : Tick(w)
  PROVE  SealInv'
<1>1. DigestsMeasure'
  BY OtherSteps DEF chainVars, SealInv, DigestsMeasure
<1>2. Len(seals) \in Nat
  BY DEF TypeOK
<1>3. SealsPartitionChain'
  <2> SUFFICES ASSUME NEW i \in 1..Len(seals)
               PROVE  LET b == IF i = 1 THEN 0 ELSE seals'[i - 1].lastChainIndex IN
                      /\ seals'[i].lastChainIndex > b
                      /\ seals'[i].eventCount = seals'[i].lastChainIndex - b
                      /\ Len(seals'[i].chainHash) = seals'[i].lastChainIndex
    BY SealsStay DEF SealsPartitionChain
  <2>1. (IF i = 1 THEN 0 ELSE seals'[i - 1].lastChainIndex)
          = IF i = 1 THEN 0 ELSE seals[i - 1].lastChainIndex
    <3>1. i # 1 => i - 1 \in 1..Len(seals)
      BY <1>2
    <3> QED
      BY <3>1, SealsStay
  <2>2. /\ seals'[i].lastChainIndex = seals[i].lastChainIndex
        /\ seals'[i].eventCount = seals[i].eventCount
        /\ seals'[i].chainHash = seals[i].chainHash
    BY SealsStay
  <2> QED
    BY <2>1, <2>2 DEF SealInv, SealsPartitionChain
<1> QED
  BY <1>1, <1>3 DEF SealInv

(* Each seal covers more than the one before it and counts exactly the     *)
(* rows added since (sealAuditChain), whatever the purge removed, however  *)
(* ticks of several workers interleave with time-stamps and restarts.      *)
THEOREM SealsCutTheChain == Spec => []SealsPartitionChain
<1>1. Init => SealInv
  BY DEF Init, SealInv, DigestsMeasure, SealsPartitionChain
<1>2. TypeOK /\ SealInv /\ [Next]_vars => SealInv'
  BY TickKeepsSeals, OthersKeepSeals
<1>3. SealInv => SealsPartitionChain
  BY DEF SealInv
<1> QED
  BY <1>1, <1>2, <1>3, TypeCorrect, PTL DEF Spec
=============================================================================
