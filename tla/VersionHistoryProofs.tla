------------------------ MODULE VersionHistoryProofs ------------------------
(***************************************************************************)
(* Proofs about the versions of a document, for every number of languages, *)
(* attempts, names and overlapping requests.                               *)
(***************************************************************************)
EXTENDS VersionHistory, FiniteSetTheorems, TLAPS

(***************************************************************************)
(* The inductive invariant                                                 *)
(***************************************************************************)

Requests == [step : Steps, att : Attempts \cup {NoReceipt, None},
             loc : Locales \cup {None}, key : Names \cup {None},
             prev : Attempts \cup Names \cup {None},
             n : Numbers, major : Numbers, minor : Numbers, files : SUBSET Names]

Storing == {"stored", "read"}
Uploading == {"stored", "read", "cleanup"}
Restoring == {"restore", "restoreRead"}
Reading == {"read", "restoreRead"}

\* What a request keeps from its first reads to its write.
Prepared(r) ==
  /\ r.step \in {"checked", "stored", "read", "cleanup"} => r.att \in Attempts \cup {NoReceipt}
  /\ r.step \in {"checked", "stored", "read", "restore", "restoreRead"} => r.loc \in Locales
  /\ r.step \in Uploading \cup Restoring => r.key \in Names
  /\ r.step \in {"idle", "checked", "delete"} => r.key = None

\* Every row has a name of its own: its id, or for a receipt its object's key.
NameOf(v) == IF v.id \in Names THEN v.id ELSE v.key
Taken == {NameOf(v) : v \in versions}
Majors == {v \in versions : v.minor = 0}
MajorNames == {NameOf(v) : v \in Majors}

RowsDistinct ==
  /\ \A v, w \in versions : v.id = w.id => v = w
  /\ \A v, w \in versions : NameOf(v) = NameOf(w) => v = w
  /\ \A v, w \in versions : v.loc = w.loc /\ v.n = w.n => v = w

\* A row carries the attempt that made it, and only that one its id.
ReceiptIds ==
  \A v \in versions : /\ v.request \in Attempts => v.id = v.request
                      /\ v.id \in Attempts => v.request = v.id

\* A number is at most the number of rows, a major one that of the major rows.
Counted ==
  \A v \in versions : /\ 1 <= v.n /\ v.n <= Cardinality(Taken)
                      /\ v.minor <= v.n /\ v.major <= Cardinality(MajorNames)

RequestsCounted ==
  \A s \in Slots : req[s].step \in Reading /\ place # "gone" =>
    /\ req[s].n <= Cardinality(Taken) /\ req[s].minor <= req[s].n
    /\ req[s].major <= Cardinality(MajorNames)

\* An object a request has stored is named by no row yet, used by no other
\* upload and not being restored.
KeysHeld ==
  /\ \A s \in Slots : req[s].step \in Storing =>
       \A v \in versions : v.id # req[s].key /\ v.key # req[s].key
  /\ \A s, t \in Slots : req[s].step \in Uploading /\ req[t].step \in Uploading
                           /\ req[s].key = req[t].key => s = t
  /\ \A s, t \in Slots : req[s].step \in Storing /\ req[t].step \in Restoring
                           => req[s].key # req[t].key

RowInv ==
  /\ TypeOK /\ \A s \in Slots : Prepared(req[s])
  /\ RowsDistinct /\ ReceiptIds /\ Counted /\ RequestsCounted /\ KeysHeld

\* Nothing of a document that was deleted is left.
GoneEmpty == place = "gone" => versions = {}

\* What a request has stored is there until the document is deleted; only the
\* row of its own attempt uses it; what a deletion has listed is in use; and a
\* file that is being restored is not forgotten.
Used(k) == \E v \in versions : v.key = k

StoredThere ==
  \A s \in Slots : req[s].step \in Storing /\ place # "gone" => req[s].key \in objects
CleanupOwn ==
  \A s \in Slots : req[s].step = "cleanup" =>
    \A v \in versions : v.id \in Attempts /\ v.key = req[s].key => v.id = req[s].att
ListedUsed ==
  \A s \in Slots : req[s].step = "delete" /\ place # "gone" =>
    \A k \in req[s].files : Used(k)
RestoredKept ==
  \A s \in Slots : req[s].step \in Restoring /\ req[s].key \in objects =>
    req[s].key \in leaked \/ Used(req[s].key)

FileInv ==
  /\ GoneEmpty /\ StoredThere /\ CleanupOwn /\ ListedUsed /\ RestoredKept
  /\ FilesMatchVersions

\* The numbers of a language no version left or entered have no gap; its last
\* version has the last label of its major number; a request that read its latest
\* version found one of them, and as long as no other follows, no label of that
\* major number is beyond the one it read.
Last(v) == \A u \in versions : u.loc = v.loc => u.n <= v.n

Contiguous ==
  \A v \in versions : v.loc \notin moved =>
    \A i \in 1 .. v.n : \E w \in versions : w.loc = v.loc /\ w.n = i

LastLabel ==
  \A v, w \in versions : v.loc = w.loc /\ v.loc \notin moved /\ Last(v) =>
    (w.major = v.major => w.minor <= v.minor)

Knows(r) ==
  /\ r.n = 0 \/ \E v \in versions : v.loc = r.loc /\ v.n = r.n
  /\ (\A v \in versions : v.loc = r.loc => v.n <= r.n)
       => \A v \in versions : v.loc = r.loc /\ v.major = r.major => v.minor <= r.minor

ReadersKnow ==
  \A s \in Slots :
    req[s].step \in Reading /\ place # "gone" /\ req[s].loc \notin moved => Knows(req[s])

\* Distinct labels and major versions without the choice of the latest row.
Distinct ==
  \A v, w \in versions : v.loc = w.loc /\ v.loc \notin moved
                           /\ v.major = w.major /\ v.minor = w.minor => v = w
LastMajor ==
  published => \A v \in versions : v.loc \notin moved /\ Last(v) => v \in Majors

Labelled == Contiguous /\ LastLabel /\ ReadersKnow /\ Distinct /\ LastMajor

(***************************************************************************)
(* Maxima and counting                                                     *)
(***************************************************************************)

LEMMA NamesCount ==
  /\ Cardinality(Names) \in Nat
  /\ \A S \in SUBSET Names : IsFiniteSet(S) /\ Cardinality(S) \in Numbers
<1>1. Cardinality(Names) \in Nat
  BY HistoryAssumption, FS_CardinalityType
<1>2. ASSUME NEW S \in SUBSET Names PROVE IsFiniteSet(S) /\ Cardinality(S) \in Numbers
  <2>1. IsFiniteSet(S) /\ Cardinality(S) <= Cardinality(Names)
    BY HistoryAssumption, FS_Subset
  <2>2. Cardinality(S) \in Nat
    BY <2>1, FS_CardinalityType
  <2> QED BY <1>1, <2>1, <2>2 DEF Numbers
<1> QED BY <1>1, <1>2

\* One more name.
LEMMA NamesAdd ==
  ASSUME NEW S \in SUBSET Names, NEW k \in Names, k \notin S
  PROVE  Cardinality(S \cup {k}) = Cardinality(S) + 1
BY NamesCount, FS_AddElement

LEMMA NamesMore ==
  ASSUME NEW S \in SUBSET Names, NEW T \in SUBSET Names, S \subseteq T
  PROVE  Cardinality(S) <= Cardinality(T)
<1>1. IsFiniteSet(T)
  BY NamesCount
<1> QED BY <1>1, FS_Subset

\* Inclusion is well founded on finite sets; the least of the sets of numbers
\* above an element of T belongs to the largest one.
LEMMA NumbersMax ==
  ASSUME NEW T \in SUBSET Numbers, T # {}
  PROVE  \E x \in T : \A y \in T : y <= x
<1> DEFINE N == Cardinality(Names)
<1> DEFINE Above(x) == (x + 1) .. N
<1> DEFINE F == {Above(x) : x \in T}
<1> DEFINE R == StrictSubsetOrdering(Int)
<1>1. N \in Nat /\ T \subseteq 0 .. N
  BY NamesCount DEF Numbers
<1> HIDE DEF N
<1>2. ASSUME NEW x \in T PROVE Above(x) \in FiniteSubsetsOf(Int)
  <2>1. x + 1 \in Int /\ N \in Int
    BY <1>1
  <2>2. IsFiniteSet((x + 1) .. N)
    BY <2>1, FS_Interval
  <2>3. (x + 1) .. N \subseteq Int
    BY <2>1
  <2> QED BY <2>2, <2>3 DEF FiniteSubsetsOf
<1>3. F \subseteq FiniteSubsetsOf(Int) /\ F # {}
  BY <1>2
<1>4. IsWellFoundedOn(R, FiniteSubsetsOf(Int))
  BY FS_StrictSubsetOrderingWellFounded
<1>5. PICK A \in F : \A B \in F : ~(<<B, A>> \in R)
  <2> HIDE DEF F, R
  <2> QED BY <1>3, <1>4, WFMin
<1>6. PICK x \in T : A = Above(x)
  OBVIOUS
<1>7. ASSUME NEW y \in T, ~(y <= x) PROVE FALSE
  <2>1. x \in Int /\ y \in Int /\ y <= N /\ x < y
    BY <1>1, <1>7
  <2>2. Above(y) \subseteq Above(x) /\ y \in Above(x) /\ y \notin Above(y)
    BY <1>1, <2>1
  <2>3. Above(y) \in SUBSET Int /\ Above(x) \in SUBSET Int
    BY <1>1, <2>1
  <2> HIDE DEF Above
  <2>4. <<Above(y), Above(x)>> \in R
    BY <2>2, <2>3 DEF StrictSubsetOrdering
  <2> QED BY <1>5, <1>6, <2>4
<1> QED BY <1>7

LEMMA LatestIs ==
  ASSUME versions \subseteq Rows, NEW loc, Of(loc) # {}
  PROVE  /\ Latest(loc) \in Of(loc)
         /\ \A w \in Of(loc) : w.n <= Latest(loc).n
<1> DEFINE T == {v.n : v \in Of(loc)}
<1>1. T \in SUBSET Numbers /\ T # {}
  BY DEF Of, Rows
<1>2. PICK x \in T : \A y \in T : y <= x
  <2> HIDE DEF T
  <2> QED BY <1>1, NumbersMax
<1>3. PICK v \in Of(loc) : v.n = x
  OBVIOUS
<1>4. \A w \in Of(loc) : w.n <= v.n
  BY <1>2, <1>3
<1> QED BY <1>4 DEF Latest

LEMMA MaxMajorIs ==
  ASSUME versions \subseteq Rows, NEW loc, Of(loc) # {}
  PROVE  /\ MaxMajor(loc) \in Numbers
         /\ \E v \in Of(loc) : v.major = MaxMajor(loc)
         /\ \A v \in Of(loc) : v.major <= MaxMajor(loc)
<1> DEFINE T == {v.major : v \in Of(loc)}
<1>1. T \in SUBSET Numbers /\ T # {}
  BY DEF Of, Rows
<1>2. PICK x \in T : \A y \in T : y <= x
  <2> HIDE DEF T
  <2> QED BY <1>1, NumbersMax
<1>3. x \in Numbers /\ (\E v \in Of(loc) : v.major = x) /\ \A v \in Of(loc) : v.major <= x
  BY <1>1, <1>2
<1> QED BY <1>3 DEF MaxMajor

(***************************************************************************)
(* Rows, numbers and keys                                                  *)
(***************************************************************************)

\* What a request must be for RowInv to survive that slot s serves it next.
Fits(s, r) ==
  /\ r \in Requests /\ Prepared(r)
  /\ r.step \in Reading /\ place # "gone" =>
       /\ r.n <= Cardinality(Taken) /\ r.minor <= r.n
       /\ r.major <= Cardinality(MajorNames)
  /\ r.step \in Storing => \A v \in versions : v.id # r.key /\ v.key # r.key
  /\ \A t \in Slots \ {s} :
       /\ r.step \in Uploading /\ req[t].step \in Uploading => req[t].key # r.key
       /\ r.step \in Storing /\ req[t].step \in Restoring => req[t].key # r.key
       /\ r.step \in Restoring /\ req[t].step \in Storing => req[t].key # r.key

\* The variables a request step leaves in their types.
OthersTyped ==
  /\ published \in BOOLEAN /\ objects \subseteq Names /\ leaked \subseteq Names
  /\ confirmed \subseteq Attempts /\ moved \subseteq Locales

LEMMA Typed ==
  TypeOK <=> /\ place \in {"live", "trash", "gone"} /\ versions \subseteq Rows
             /\ req \in [Slots -> Requests] /\ OthersTyped
BY DEF TypeOK, Requests, OthersTyped

LEMMA TypedNext ==
  TypeOK' <=> /\ place' \in {"live", "trash", "gone"} /\ versions' \subseteq Rows
              /\ req' \in [Slots -> Requests] /\ OthersTyped'
BY DEF TypeOK, Requests, OthersTyped

LEMMA IdleIs ==
  /\ Idle \in Requests /\ Prepared(Idle) /\ Idle.step = "idle"
  /\ Idle.key = None /\ Idle.files = {}
<1>1. 0 \in Numbers
  BY NamesCount DEF Numbers
<1> QED BY <1>1 DEF Idle, Requests, Prepared, Steps, Uploading, Restoring

LEMMA FailedIs ==
  ASSUME NEW r \in Requests
  PROVE  /\ Failed(r) \in Requests /\ Failed(r).step = "cleanup"
         /\ Failed(r).key = r.key /\ Failed(r).att = r.att /\ Failed(r).files = {}
BY IdleIs DEF Failed, Idle, Requests, Steps

\* The state of the other requests, and of the one slot that steps.
LEMMA Slot ==
  ASSUME TypeOK, NEW s \in Slots, NEW r \in Requests, Goto(s, r)
  PROVE  /\ req' \in [Slots -> Requests]
         /\ req'[s] = r /\ \A t \in Slots \ {s} : req'[t] = req[t]
BY Typed DEF Goto

LEMMA FreshIs ==
  ASSUME NEW k \in Fresh
  PROVE  /\ k \in Names /\ k \notin objects
         /\ \A v \in versions : v.id # k /\ v.key # k
         /\ \A s \in Slots : req[s].key # k
BY DEF Fresh, InUse

LEMMA TakenNames ==
  ASSUME TypeOK
  PROVE  /\ Taken \subseteq Names /\ MajorNames \subseteq Names
         /\ \A v \in versions : NameOf(v) \in Names
<1>1. \A v \in versions : v.id \in Names \/ v.key \in Names
  BY Typed DEF Rows
<1>2. \A v \in versions : NameOf(v) \in Names
  BY Typed DEF Rows, NameOf
<1> QED BY <1>2 DEF Taken, MajorNames, Majors

LEMMA TakenNext ==
  ASSUME TypeOK'
  PROVE  /\ Taken' \subseteq Names /\ MajorNames' \subseteq Names
         /\ \A v \in versions' : NameOf(v) \in Names
<1>1. \A v \in versions' : NameOf(v) \in Names
  BY TypedNext DEF Rows, NameOf
<1> QED BY <1>1 DEF Taken, MajorNames, Majors

\* A request step that changes no row.
LEMMA FitsKept ==
  ASSUME RowInv, NEW s \in Slots, NEW r, Fits(s, r), Goto(s, r),
         OthersTyped', UNCHANGED <<versions, place>>
  PROVE  RowInv'
<1>1. TypeOK /\ r \in Requests
  BY DEF RowInv, Fits
<1>2. /\ req' \in [Slots -> Requests]
      /\ req'[s] = r /\ \A t \in Slots \ {s} : req'[t] = req[t]
  BY <1>1, Slot
<1>3. TypeOK'
  BY <1>1, <1>2, Typed, TypedNext
<1>4. \A t \in Slots : Prepared(req'[t])
  BY <1>2 DEF RowInv, Fits
<1>5. Taken' = Taken /\ MajorNames' = MajorNames
  BY DEF Taken, MajorNames, Majors
<1>6. RowsDistinct' /\ ReceiptIds' /\ Counted'
  BY <1>5 DEF RowInv, RowsDistinct, ReceiptIds, Counted
<1>7. RequestsCounted'
  BY <1>2, <1>5 DEF RowInv, Fits, RequestsCounted
<1>8. KeysHeld'
  BY <1>2 DEF RowInv, Fits, KeysHeld, Storing, Uploading, Restoring
<1> QED BY <1>3, <1>4, <1>6, <1>7, <1>8 DEF RowInv

\* A request that ends fits anywhere; one whose transaction failed too.
LEMMA IdleFits ==
  ASSUME NEW s \in Slots
  PROVE  Fits(s, Idle)
BY IdleIs DEF Fits, Storing, Uploading, Restoring, Reading

LEMMA FailedFits ==
  ASSUME RowInv, NEW s \in Slots, req[s].step \in Storing
  PROVE  Fits(s, Failed(req[s]))
<1>1. req[s] \in Requests /\ Prepared(req[s])
  BY Typed DEF RowInv
<1>2. /\ Failed(req[s]) \in Requests /\ Failed(req[s]).step = "cleanup"
      /\ Failed(req[s]).key = req[s].key /\ Failed(req[s]).att = req[s].att
  BY <1>1, FailedIs
<1>3. Prepared(Failed(req[s]))
  BY <1>1, <1>2 DEF Prepared, Storing, Uploading, Restoring
<1>4. \A t \in Slots \ {s} : req[t].step \in Uploading => req[t].key # req[s].key
  BY DEF RowInv, KeysHeld, Storing, Uploading
<1> QED BY <1>2, <1>3, <1>4 DEF Fits, Storing, Restoring, Reading

\* A transaction adds a row that has a name of its own.
LEMMA InsertKept ==
  ASSUME RowInv, OthersTyped', place' = place, place # "gone",
         NEW s \in Slots, req[s].step \in Reading,
         NEW r, Fits(s, r), r.step \in {"idle", "cleanup"}, Goto(s, r),
         NEW v \in [id : Attempts \cup Names, request : Attempts \cup {NoReceipt, None},
                    loc : Locales, n : Nat, major : Nat, minor : Nat, key : Names],
         v.n = req[s].n + 1, v.major = req[s].major, v.minor = req[s].minor + 1,
         v.request \in Attempts => v.id = v.request, v.id \in Attempts => v.request = v.id,
         Insertable(v), \A w \in versions : NameOf(w) # NameOf(v),
         \A t \in Slots \ {s} : req[t].step \in Storing => v.id # req[t].key /\ v.key # req[t].key,
         versions' = versions \cup {v}
  PROVE  RowInv'
<1>1. TypeOK /\ r \in Requests /\ req[s] \in Requests
  BY Typed DEF RowInv, Fits
<1>2. /\ req' \in [Slots -> Requests]
      /\ req'[s] = r /\ \A t \in Slots \ {s} : req'[t] = req[t]
  BY <1>1, Slot
<1>3. NameOf(v) \in Names
  BY DEF NameOf
<1>4. Taken \subseteq Names /\ MajorNames \subseteq Names
  BY <1>1, TakenNames
<1>5. Taken' = Taken \cup {NameOf(v)}
  BY DEF Taken
<1>6. Taken' \subseteq Names
  BY <1>3, <1>4, <1>5
<1>7. NameOf(v) \notin Taken
  BY DEF Taken
<1>8. /\ Cardinality(Taken) \in Nat /\ Cardinality(Taken') \in Numbers
      /\ Cardinality(Names) \in Nat /\ Cardinality(MajorNames) \in Nat
      /\ Cardinality(Taken') = Cardinality(Taken) + 1
  <2>1. Cardinality(Taken') \in Numbers /\ Cardinality(Taken) \in Numbers
          /\ Cardinality(MajorNames) \in Numbers
    BY <1>4, <1>6, NamesCount
  <2>2. Cardinality(Taken') = Cardinality(Taken) + 1
    BY <1>3, <1>4, <1>5, <1>7, NamesAdd
  <2> QED BY <2>1, <2>2, NamesCount DEF Numbers
<1>9. /\ req[s].n \in Nat /\ req[s].minor \in Nat /\ req[s].major \in Numbers
      /\ req[s].n <= Cardinality(Taken) /\ req[s].minor <= req[s].n
      /\ req[s].major <= Cardinality(MajorNames)
  BY <1>1, NamesCount DEF RowInv, RequestsCounted, Requests, Numbers
<1>10. v.minor # 0
  BY <1>9
<1>11. MajorNames' = MajorNames
  BY <1>10 DEF MajorNames, Majors
<1>12. v.n \in Numbers /\ v.minor \in Numbers /\ v.major \in Numbers
  BY <1>8, <1>9 DEF Numbers
<1>13. v \in Rows
  BY <1>12 DEF Rows
<1>14. TypeOK'
  BY <1>1, <1>2, <1>13, Typed, TypedNext
<1>15. \A t \in Slots : Prepared(req'[t])
  BY <1>2 DEF RowInv, Fits
<1>16. RowsDistinct'
  BY DEF RowInv, RowsDistinct, Insertable
<1>17. ReceiptIds'
  BY DEF RowInv, ReceiptIds
<1>18. Counted'
  <2>1. ASSUME NEW w \in versions
        PROVE  /\ 1 <= w.n /\ w.n <= Cardinality(Taken')
               /\ w.minor <= w.n /\ w.major <= Cardinality(MajorNames')
    <3>1. w.n \in Nat
      BY <1>1, Typed, NamesCount DEF Rows, Numbers
    <3> QED BY <1>8, <1>11, <3>1 DEF RowInv, Counted
  <2>2. /\ 1 <= v.n /\ v.n <= Cardinality(Taken')
        /\ v.minor <= v.n /\ v.major <= Cardinality(MajorNames')
    BY <1>8, <1>9, <1>11
  <2> QED BY <2>1, <2>2 DEF Counted
<1>19. RequestsCounted'
  <2>1. ASSUME NEW t \in Slots, req'[t].step \in Reading
        PROVE  /\ req'[t].n <= Cardinality(Taken') /\ req'[t].minor <= req'[t].n
               /\ req'[t].major <= Cardinality(MajorNames')
    <3>1. t \in Slots \ {s} /\ req'[t] = req[t]
      BY <1>2, <2>1 DEF Reading
    <3>2. req[t].n \in Nat
      BY <1>1, <3>1, Typed, NamesCount DEF Requests, Numbers
    <3> QED BY <1>8, <1>11, <2>1, <3>1, <3>2 DEF RowInv, RequestsCounted
  <2> QED BY <2>1 DEF RequestsCounted
<1>20. KeysHeld'
  <2>1. ASSUME NEW t \in Slots, req'[t].step \in Storing, NEW w \in versions'
        PROVE  w.id # req'[t].key /\ w.key # req'[t].key
    BY <1>2, <2>1 DEF RowInv, KeysHeld, Storing
  <2>2. ASSUME NEW t \in Slots, NEW u \in Slots, req'[t].step \in Uploading,
               req'[u].step \in Uploading, req'[t].key = req'[u].key
        PROVE  t = u
    BY <1>2, <2>2 DEF RowInv, KeysHeld, Fits
  <2>3. ASSUME NEW t \in Slots, NEW u \in Slots, req'[t].step \in Storing,
               req'[u].step \in Restoring
        PROVE  req'[t].key # req'[u].key
    BY <1>2, <2>3 DEF RowInv, KeysHeld, Storing, Restoring
  <2> QED BY <2>1, <2>2, <2>3 DEF KeysHeld
<1> QED BY <1>14, <1>15, <1>16, <1>17, <1>18, <1>19, <1>20 DEF RowInv

\* The rows are rewritten in place: ids, attempts, numbers and keys stay, and a
\* major version stays one.
Rewritten(f) ==
  /\ \A v \in versions : f[v] \in Rows /\ f[v] \in versions'
  /\ \A b \in versions' : \E v \in versions : b = f[v]
  /\ \A v \in versions : f[v].id = v.id /\ f[v].request = v.request
                           /\ f[v].n = v.n /\ f[v].key = v.key
  /\ \A v \in versions : f[v].minor <= v.minor
  /\ \A v \in versions : v \in Majors => f[v] \in Majors'
  /\ \A v \in versions : f[v].major <= Cardinality(MajorNames')
  /\ \A v, w \in versions : f[v].loc = f[w].loc /\ f[v].n = f[w].n => v = w

LEMMA RewriteKept ==
  ASSUME RowInv, OthersTyped', UNCHANGED <<place, req>>, NEW f, Rewritten(f)
  PROVE  RowInv'
<1> USE DEF Rewritten
<1>1. TypeOK
  BY DEF RowInv
<1>2. TypeOK'
  BY <1>1, Typed, TypedNext
<1>3. \A v \in versions : NameOf(f[v]) = NameOf(v)
  BY DEF NameOf
<1>4. Taken' = Taken
  BY <1>3 DEF Taken
<1>5. MajorNames \subseteq MajorNames'
  <2>1. ASSUME NEW v \in Majors PROVE NameOf(v) \in MajorNames'
    <3>1. f[v] \in Majors'
      BY <2>1 DEF Majors
    <3>2. NameOf(v) = NameOf(f[v])
      BY <1>3, <2>1 DEF Majors
    <3> QED BY <3>1, <3>2 DEF MajorNames
  <2> QED BY <2>1 DEF MajorNames
<1>6. /\ Cardinality(MajorNames) <= Cardinality(MajorNames')
      /\ Cardinality(MajorNames) \in Nat /\ Cardinality(MajorNames') \in Nat
  <2>1. MajorNames \in SUBSET Names /\ MajorNames' \in SUBSET Names
    BY <1>1, <1>2, TakenNames, TakenNext
  <2>2. Cardinality(MajorNames) \in Numbers /\ Cardinality(MajorNames') \in Numbers
    BY <2>1, NamesCount
  <2> QED BY <1>5, <2>1, <2>2, NamesMore, NamesCount DEF Numbers
<1>7. RowsDistinct'
  <2>1. ASSUME NEW a \in versions', NEW b \in versions'
        PROVE  /\ a.id = b.id => a = b
               /\ NameOf(a) = NameOf(b) => a = b
               /\ a.loc = b.loc /\ a.n = b.n => a = b
    <3>1. PICK v \in versions, w \in versions : a = f[v] /\ b = f[w]
      OBVIOUS
    <3> QED BY <1>3, <3>1 DEF RowInv, RowsDistinct
  <2> QED BY <2>1 DEF RowsDistinct
<1>8. ReceiptIds'
  BY DEF RowInv, ReceiptIds
<1>9. Counted'
  <2>1. ASSUME NEW a \in versions'
        PROVE  /\ 1 <= a.n /\ a.n <= Cardinality(Taken')
               /\ a.minor <= a.n /\ a.major <= Cardinality(MajorNames')
    <3>1. PICK v \in versions : a = f[v]
      OBVIOUS
    <3>2. 1 <= v.n /\ v.n <= Cardinality(Taken) /\ v.minor <= v.n
      BY DEF RowInv, Counted
    <3>3. v.n \in Nat /\ v.minor \in Nat /\ f[v].minor \in Nat
      BY <1>1, Typed, NamesCount DEF Rows, Numbers
    <3> QED BY <1>4, <3>1, <3>2, <3>3
  <2> QED BY <2>1 DEF Counted
<1>10. RequestsCounted'
  <2>1. \A s \in Slots : req[s].major \in Nat
    BY <1>1, Typed, NamesCount DEF Requests, Numbers
  <2> QED BY <1>4, <1>6, <2>1 DEF RowInv, RequestsCounted
<1>11. KeysHeld'
  BY DEF RowInv, KeysHeld
<1>12. \A s \in Slots : Prepared(req'[s])
  BY DEF RowInv
<1> QED BY <1>2, <1>7, <1>8, <1>9, <1>10, <1>11, <1>12 DEF RowInv

\* What the latest version tells a request.
LEMMA LatestRow ==
  ASSUME RowInv, NEW loc \in Locales
  PROVE  /\ LatestOrNone(loc).id \in Attempts \cup Names \cup {None}
         /\ LatestOrNone(loc).n \in Numbers /\ LatestOrNone(loc).major \in Numbers
         /\ LatestOrNone(loc).minor \in Numbers
         /\ LatestOrNone(loc).n <= Cardinality(Taken)
         /\ LatestOrNone(loc).minor <= LatestOrNone(loc).n
         /\ LatestOrNone(loc).major <= Cardinality(MajorNames)
<1>1. TypeOK /\ versions \subseteq Rows
  BY Typed DEF RowInv
<1>2. /\ Cardinality(Taken) \in Nat /\ Cardinality(MajorNames) \in Nat
      /\ 0 \in Numbers
  <2>1. Taken \in SUBSET Names /\ MajorNames \in SUBSET Names
    BY <1>1, TakenNames
  <2> QED BY <2>1, NamesCount DEF Numbers
<1>3. CASE Of(loc) = {}
  <2>1. LatestOrNone(loc) = NoRow
    BY <1>3 DEF LatestOrNone
  <2> QED BY <1>2, <2>1 DEF NoRow
<1>4. CASE Of(loc) # {}
  <2>1. LatestOrNone(loc) = Latest(loc) /\ Latest(loc) \in Of(loc)
    BY <1>1, <1>4, LatestIs DEF LatestOrNone
  <2>2. LatestOrNone(loc) \in versions
    BY <2>1 DEF Of
  <2> QED BY <1>1, <2>2 DEF RowInv, Counted, Rows
<1> QED BY <1>3, <1>4

LEMMA RowInit == Init => RowInv
<1> SUFFICES ASSUME Init PROVE RowInv
  OBVIOUS
<1>1. \A s \in Slots : req[s] = Idle
  BY DEF Init
<1>2. TypeOK
  BY IdleIs, Typed DEF Init, OthersTyped
<1>3. RowsDistinct /\ ReceiptIds /\ Counted
  BY DEF Init, RowsDistinct, ReceiptIds, Counted
<1>4. RequestsCounted /\ KeysHeld
  BY <1>1, IdleIs DEF RequestsCounted, KeysHeld, Reading, Storing, Uploading, Restoring
<1> QED BY <1>1, <1>2, <1>3, <1>4, IdleIs DEF RowInv

LEMMA RowUpload ==
  ASSUME RowInv, NEW s \in Slots,
         \/ \E a \in Attempts \cup {NoReceipt} : StartUpload(s, a)
         \/ PutObject(s) \/ ReadLatest(s) \/ AbortUpload(s) \/ Crash(s)
         \/ \E b \in BOOLEAN : Cleanup(s, b)
  PROVE  RowInv'
<1>1. TypeOK /\ req[s] \in Requests /\ Prepared(req[s]) /\ OthersTyped
  BY Typed DEF RowInv
<1>2. ASSUME NEW a \in Attempts \cup {NoReceipt}, StartUpload(s, a) PROVE RowInv'
  <2> DEFINE r == [Idle EXCEPT !.step = "checked", !.att = a, !.loc = LocaleOf[a]]
  <2>1. OthersTyped' /\ UNCHANGED <<versions, place>>
    <3>1. Receipt(a) # {} => a \in Attempts
      BY <1>1, HistoryAssumption, Typed DEF Receipt, Rows
    <3>2. confirmed' \subseteq Attempts
      BY <1>1, <1>2, <3>1 DEF StartUpload, OthersTyped
    <3> QED BY <1>1, <1>2, <3>2 DEF StartUpload, OthersTyped, docVars
  <2>2. CASE Receipt(a) # {}
    <3>1. UNCHANGED req
      BY <1>2, <2>2 DEF StartUpload
    <3>2. Goto(s, req[s])
      BY <1>1, <3>1, Typed DEF Goto
    <3>3. Fits(s, req[s])
      BY <1>1, <1>2, IdleFits DEF StartUpload, At, Fits, Reading, Storing, Uploading, Restoring
    <3> QED BY <2>1, <3>2, <3>3, FitsKept
  <2>3. CASE Receipt(a) = {}
    <3>1. Goto(s, r)
      BY <1>2, <2>3 DEF StartUpload
    <3>2. LocaleOf[a] \in Locales
      BY HistoryAssumption
    <3>3. /\ r \in Requests /\ r.step = "checked" /\ r.att = a /\ r.loc = LocaleOf[a]
          /\ r.key = None
      BY <3>2, IdleIs DEF Idle, Requests, Steps
    <3> HIDE DEF r
    <3>4. Fits(s, r)
      BY <3>2, <3>3 DEF Fits, Prepared, Reading, Storing, Uploading, Restoring
    <3> QED BY <2>1, <3>1, <3>4, FitsKept
  <2> QED BY <2>2, <2>3
<1>3. CASE PutObject(s)
  <2>1. PICK k \in Fresh :
          /\ objects' = objects \cup {k}
          /\ Goto(s, [req[s] EXCEPT !.step = "stored", !.key = k,
                                    !.prev = LatestOrNone(req[s].loc).id])
    BY <1>3 DEF PutObject
  <2> DEFINE r == [req[s] EXCEPT !.step = "stored", !.key = k,
                                 !.prev = LatestOrNone(req[s].loc).id]
  <2>2. At(s, "checked") /\ req[s].loc \in Locales /\ req[s].att \in Attempts \cup {NoReceipt}
    BY <1>1, <1>3 DEF PutObject, At, Prepared
  <2>3. OthersTyped' /\ UNCHANGED <<versions, place>>
    BY <1>1, <1>3, <2>1, FreshIs DEF PutObject, OthersTyped, docVars, history
  <2>4. LatestOrNone(req[s].loc).id \in Attempts \cup Names \cup {None}
    BY <2>2, LatestRow
  <2>5. /\ r \in Requests /\ r.step = "stored" /\ r.key = k
        /\ r.att = req[s].att /\ r.loc = req[s].loc
    BY <1>1, <2>4, FreshIs DEF Requests, Steps
  <2>6. Goto(s, r)
    BY <2>1
  <2> HIDE DEF r
  <2>7. Prepared(r)
    BY <2>2, <2>5, FreshIs DEF Prepared
  <2>8. Fits(s, r)
    BY <2>5, <2>7, FreshIs DEF Fits, Reading, Restoring
  <2> QED BY <2>3, <2>6, <2>8, FitsKept
<1>4. CASE ReadLatest(s)
  <2> DEFINE v == LatestOrNone(req[s].loc)
  <2> DEFINE r == [req[s] EXCEPT !.step = "read", !.prev = None, !.n = v.n,
                                 !.major = v.major, !.minor = v.minor]
  <2>1. At(s, "stored") /\ req[s].loc \in Locales /\ req[s].att \in Attempts \cup {NoReceipt}
          /\ req[s].key \in Names
    BY <1>1, <1>4 DEF ReadLatest, At, Prepared, Uploading
  <2>2. OthersTyped' /\ UNCHANGED <<versions, place>>
    BY <1>1, <1>4 DEF ReadLatest, OthersTyped, docVars, history
  <2>3. CASE v.id # req[s].prev
    <3>1. Goto(s, Failed(req[s]))
      BY <1>4, <2>3 DEF ReadLatest
    <3> QED BY <2>1, <2>2, <3>1, FailedFits, FitsKept DEF At, Storing
  <2>4. CASE v.id = req[s].prev
    <3>1. Goto(s, r)
      BY <1>4, <2>4 DEF ReadLatest
    <3>2. /\ v.n \in Numbers /\ v.major \in Numbers /\ v.minor \in Numbers
          /\ v.n <= Cardinality(Taken) /\ v.minor <= v.n /\ v.major <= Cardinality(MajorNames)
      BY <2>1, LatestRow
    <3> HIDE DEF v
    <3>3. /\ r \in Requests /\ r.step = "read" /\ r.key = req[s].key /\ r.loc = req[s].loc
          /\ r.att = req[s].att /\ r.n = v.n /\ r.minor = v.minor /\ r.major = v.major
      BY <1>1, <3>2 DEF Requests, Steps
    <3> HIDE DEF r
    <3>4. Prepared(r)
      BY <2>1, <3>3 DEF Prepared
    <3>5. \A w \in versions : w.id # r.key /\ w.key # r.key
      BY <2>1, <3>3 DEF At, RowInv, KeysHeld, Storing
    <3>6. \A t \in Slots \ {s} : /\ req[t].step \in Uploading => req[t].key # r.key
                                 /\ req[t].step \in Restoring => req[t].key # r.key
      BY <2>1, <3>3 DEF At, RowInv, KeysHeld, Storing, Uploading
    <3>7. Fits(s, r)
      BY <3>2, <3>3, <3>4, <3>5, <3>6 DEF Fits, Restoring
    <3> QED BY <2>2, <3>1, <3>7, FitsKept
  <2> QED BY <2>3, <2>4
<1>5. CASE AbortUpload(s)
  <2>1. OthersTyped' /\ UNCHANGED <<versions, place>>
    BY <1>1, <1>5 DEF AbortUpload, OthersTyped, docVars, history
  <2>2. req[s].step \in Storing /\ Goto(s, Failed(req[s]))
    BY <1>5 DEF AbortUpload, At, Storing
  <2> QED BY <2>1, <2>2, FailedFits, FitsKept
<1>6. CASE Crash(s)
  <2>1. OthersTyped' /\ UNCHANGED <<versions, place>> /\ Goto(s, Idle)
    BY <1>1, <1>6 DEF Crash, OthersTyped, docVars
  <2> QED BY <2>1, IdleFits, FitsKept
<1>7. ASSUME NEW b \in BOOLEAN, Cleanup(s, b) PROVE RowInv'
  <2>1. req[s].key \in Names /\ req[s].att \in Attempts \cup {NoReceipt}
    BY <1>1, <1>7 DEF Cleanup, At, Prepared, Uploading
  <2>2. Receipt(req[s].att) # {} => req[s].att \in Attempts
    BY <1>1, <2>1, HistoryAssumption, Typed DEF Receipt, Rows
  <2>3. leaked' \subseteq leaked \cup {req[s].key} /\ objects' \subseteq objects
    BY <1>7 DEF Cleanup
  <2>4. confirmed' \subseteq Attempts
    BY <1>1, <1>7, <2>2 DEF Cleanup, OthersTyped
  <2>5. OthersTyped'
    BY <1>1, <1>7, <2>1, <2>3, <2>4 DEF Cleanup, OthersTyped, docVars
  <2>6. UNCHANGED <<versions, place>> /\ Goto(s, Idle)
    BY <1>7 DEF Cleanup, docVars
  <2> QED BY <2>5, <2>6, IdleFits, FitsKept
<1> QED BY <1>2, <1>3, <1>4, <1>5, <1>6, <1>7

LEMMA RowCommit ==
  ASSUME RowInv, NEW s \in Slots,
         CommitUnacknowledged(s) \/ \E b \in BOOLEAN : CommitUpload(s, b)
  PROVE  RowInv'
<1>1. TypeOK /\ req[s] \in Requests /\ Prepared(req[s]) /\ OthersTyped
  BY Typed DEF RowInv
<1> DEFINE v == NewVersion(req[s])
<1>2. /\ At(s, "read") /\ req[s].step \in Reading /\ req[s].step \in Storing
      /\ req[s].loc \in Locales /\ req[s].att \in Attempts \cup {NoReceipt}
      /\ req[s].key \in Names
  BY <1>1 DEF CommitUnacknowledged, CommitUpload, At, Prepared, Uploading, Reading, Storing
<1>3. OthersTyped' /\ place' = place
  <2>1. confirmed' \subseteq Attempts
    BY <1>1 DEF CommitUnacknowledged, CommitUpload, OthersTyped, history
  <2>2. published' \in BOOLEAN
    BY <1>1 DEF CommitUnacknowledged, CommitUpload, OthersTyped
  <2> QED BY <1>1, <2>1, <2>2 DEF CommitUnacknowledged, CommitUpload, OthersTyped, history
<1>4. CASE versions' = versions /\ Goto(s, Failed(req[s]))
  BY <1>2, <1>3, <1>4, FailedFits, FitsKept
<1>5. ASSUME NEW r \in {Idle, Failed(req[s])}, Goto(s, r), versions' = versions \cup {v},
             place # "gone", Insertable(v)
      PROVE  RowInv'
  <2>1. Fits(s, r) /\ r.step \in {"idle", "cleanup"}
    BY <1>1, <1>2, IdleFits, FailedFits, IdleIs, FailedIs
  <2>2. req[s].n \in Nat /\ req[s].major \in Nat /\ req[s].minor \in Nat
    BY <1>1, NamesCount DEF Requests, Numbers
  <2>3. /\ v.id = (IF req[s].att = NoReceipt THEN req[s].key ELSE req[s].att)
        /\ v.request = req[s].att /\ v.loc = req[s].loc /\ v.key = req[s].key
        /\ v.n = req[s].n + 1 /\ v.major = req[s].major /\ v.minor = req[s].minor + 1
    BY DEF NewVersion, VersionId
  <2>4. v \in [id : Attempts \cup Names, request : Attempts \cup {NoReceipt, None},
               loc : Locales, n : Nat, major : Nat, minor : Nat, key : Names]
    BY <1>2, <2>2 DEF NewVersion, VersionId
  <2> HIDE DEF v
  <2>5. /\ v.request \in Attempts => v.id = v.request
        /\ v.id \in Attempts => v.request = v.id
    BY <1>2, <2>3, HistoryAssumption
  <2>6. NameOf(v) = req[s].key
    BY <1>2, <2>3, HistoryAssumption DEF NameOf
  <2>7. \A w \in versions : NameOf(w) # NameOf(v)
    BY <1>2, <2>6 DEF NameOf, RowInv, KeysHeld
  <2>8. \A t \in Slots \ {s} : req[t].step \in Storing => req[s].key # req[t].key
    BY <1>2 DEF RowInv, KeysHeld, Storing, Uploading
  <2>9. \A t \in Slots : req[t].step \in Storing => req[t].key \in Names
    BY DEF RowInv, Prepared, Storing, Uploading
  <2>10. \A t \in Slots \ {s} : req[t].step \in Storing => v.id # req[t].key /\ v.key # req[t].key
    BY <1>2, <2>3, <2>8, <2>9, HistoryAssumption
  <2> QED BY <1>2, <1>3, <1>5, <2>1, <2>3, <2>4, <2>5, <2>7, <2>10, InsertKept
<1>6. \/ versions' = versions /\ Goto(s, Failed(req[s]))
      \/ \E r \in {Idle, Failed(req[s])} :
           Goto(s, r) /\ versions' = versions \cup {v} /\ place # "gone" /\ Insertable(v)
  BY DEF CommitUnacknowledged, CommitUpload
<1> HIDE DEF v
<1> QED BY <1>4, <1>5, <1>6

LEMMA RowRestore ==
  ASSUME RowInv, NEW s \in Slots,
         \/ \E v \in versions : StartRestore(s, v)
         \/ ReadRestore(s) \/ CommitRestore(s)
  PROVE  RowInv'
<1>1. TypeOK /\ req[s] \in Requests /\ Prepared(req[s]) /\ OthersTyped
  BY Typed DEF RowInv
<1>2. ASSUME NEW v \in versions, StartRestore(s, v) PROVE RowInv'
  <2> DEFINE r == [Idle EXCEPT !.step = "restore", !.loc = v.loc, !.key = v.key, !.n = v.n]
  <2>1. OthersTyped' /\ UNCHANGED <<versions, place>> /\ Goto(s, r)
    BY <1>1, <1>2 DEF StartRestore, OthersTyped, docVars, history
  <2>2. v.loc \in Locales /\ v.key \in Names /\ v.n \in Numbers
    BY <1>1, Typed DEF Rows
  <2>3. r \in Requests /\ r.step = "restore" /\ r.loc = v.loc /\ r.key = v.key
    BY <2>2, IdleIs DEF Idle, Requests, Steps
  <2> HIDE DEF r
  <2>4. Prepared(r)
    BY <2>2, <2>3 DEF Prepared
  <2>5. \A t \in Slots : req[t].step \in Storing => req[t].key # r.key
    BY <2>3 DEF RowInv, KeysHeld
  <2>6. Fits(s, r)
    BY <2>3, <2>4, <2>5 DEF Fits, Reading, Storing, Uploading
  <2> QED BY <2>1, <2>6, FitsKept
<1>3. CASE ReadRestore(s)
  <2> DEFINE v == LatestOrNone(req[s].loc)
  <2> DEFINE r == [req[s] EXCEPT !.step = "restoreRead", !.n = v.n, !.major = v.major,
                                 !.minor = v.minor]
  <2>1. req[s].step = "restore" /\ req[s].loc \in Locales /\ req[s].key \in Names
    BY <1>1, <1>3 DEF ReadRestore, At, Prepared, Restoring
  <2>2. OthersTyped' /\ UNCHANGED <<versions, place>>
    BY <1>1, <1>3 DEF ReadRestore, OthersTyped, docVars, history
  <2>3. Goto(s, Idle) \/ Goto(s, r)
    BY <1>3 DEF ReadRestore
  <2>4. CASE Goto(s, Idle)
    BY <2>2, <2>4, IdleFits, FitsKept
  <2>5. CASE Goto(s, r)
    <3>1. /\ v.n \in Numbers /\ v.major \in Numbers /\ v.minor \in Numbers
          /\ v.n <= Cardinality(Taken) /\ v.minor <= v.n /\ v.major <= Cardinality(MajorNames)
      BY <2>1, LatestRow
    <3> HIDE DEF v
    <3>2. /\ r \in Requests /\ r.step = "restoreRead" /\ r.key = req[s].key
          /\ r.loc = req[s].loc /\ r.n = v.n /\ r.minor = v.minor /\ r.major = v.major
      BY <1>1, <3>1 DEF Requests, Steps
    <3> HIDE DEF r
    <3>3. Prepared(r)
      BY <2>1, <3>2 DEF Prepared
    <3>4. \A t \in Slots : req[t].step \in Storing => req[t].key # r.key
      BY <2>1, <3>2 DEF RowInv, KeysHeld, Restoring
    <3>5. Fits(s, r)
      BY <3>1, <3>2, <3>3, <3>4 DEF Fits, Storing, Uploading
    <3> QED BY <2>2, <2>5, <3>5, FitsKept
  <2> QED BY <2>3, <2>4, <2>5
<1>4. CASE CommitRestore(s)
  <2>1. req[s].step = "restoreRead" /\ req[s].loc \in Locales /\ req[s].key \in Names
    BY <1>1, <1>4 DEF CommitRestore, At, Prepared, Restoring
  <2> DEFINE v(id) == [id |-> id, request |-> None, loc |-> req[s].loc, n |-> req[s].n + 1,
                       major |-> req[s].major, minor |-> req[s].minor + 1, key |-> req[s].key]
  <2>2. /\ Goto(s, Idle) /\ place' = place
        /\ \/ versions' = versions
           \/ \E id \in Fresh : versions' = versions \cup {v(id)} /\ place # "gone"
                                   /\ Insertable(v(id))
    BY <1>4 DEF CommitRestore
  <2>3. OthersTyped'
    <3>1. published' \in BOOLEAN
      BY <1>1, <1>4 DEF CommitRestore, OthersTyped
    <3> QED BY <1>1, <1>4, <3>1 DEF CommitRestore, OthersTyped, history
  <2>4. CASE versions' = versions
    BY <2>2, <2>3, <2>4, IdleFits, FitsKept
  <2>5. ASSUME NEW id \in Fresh, versions' = versions \cup {v(id)}, place # "gone",
               Insertable(v(id))
        PROVE  RowInv'
    <3> DEFINE w == v(id)
    <3>1. req[s].n \in Nat /\ req[s].major \in Nat /\ req[s].minor \in Nat
      BY <1>1, NamesCount DEF Requests, Numbers
    <3>2. /\ id \in Names /\ \A u \in versions : u.id # id /\ u.key # id
          /\ \A t \in Slots : req[t].key # id
      BY FreshIs
    <3>3. w \in [id : Attempts \cup Names, request : Attempts \cup {NoReceipt, None},
                 loc : Locales, n : Nat, major : Nat, minor : Nat, key : Names]
      BY <2>1, <3>1, <3>2
    <3>4. /\ w.id = id /\ w.request = None /\ w.key = req[s].key
          /\ w.n = req[s].n + 1 /\ w.major = req[s].major /\ w.minor = req[s].minor + 1
      OBVIOUS
    <3>5. Insertable(w) /\ versions' = versions \cup {w}
      BY <2>5
    <3> HIDE DEF w
    <3>6. NameOf(w) = id
      BY <3>2, <3>4 DEF NameOf
    <3>7. \A u \in versions : NameOf(u) # NameOf(w)
      BY <3>2, <3>6 DEF NameOf
    <3>8. /\ w.request \in Attempts => w.id = w.request
          /\ w.id \in Attempts => w.request = w.id
      BY <3>2, <3>4, HistoryAssumption
    <3>9. \A t \in Slots \ {s} : req[t].step \in Storing => w.id # req[t].key /\ w.key # req[t].key
      BY <2>1, <3>2, <3>4 DEF RowInv, KeysHeld, Restoring
    <3>10. Fits(s, Idle) /\ Idle.step \in {"idle", "cleanup"} /\ req[s].step \in Reading
      BY <2>1, IdleFits, IdleIs DEF Reading
    <3> QED BY <2>2, <2>3, <2>5, <3>3, <3>4, <3>5, <3>7, <3>8, <3>9, <3>10, InsertKept
  <2> HIDE DEF v
  <2> QED BY <2>2, <2>4, <2>5
<1> QED BY <1>2, <1>3, <1>4

\* A publication gives the promoted version of a language a number above its
\* majors, and there is one major version more.
LEMMA RowPublish ==
  ASSUME RowInv, Publish
  PROVE  RowInv'
<1>1. TypeOK /\ OthersTyped /\ versions \subseteq Rows
  BY Typed DEF RowInv
<1> DEFINE Promote(v) == IF ToPromote(v)
                           THEN [v EXCEPT !.major = NextMajor(v.loc), !.minor = 0] ELSE v
<1>0. PICK f : f = [v \in versions |-> Promote(v)]
  OBVIOUS
<1>2. /\ OthersTyped' /\ UNCHANGED <<place, req>>
      /\ versions' = {f[v] : v \in versions}
  BY <1>0, <1>1 DEF Publish, Promoted, OthersTyped, history
<1>3. ASSUME NEW v \in versions
      PROVE  /\ f[v].id = v.id /\ f[v].request = v.request
             /\ f[v].n = v.n /\ f[v].key = v.key /\ f[v].loc = v.loc
             /\ ~ToPromote(v) => f[v] = v
             /\ ToPromote(v) => f[v].minor = 0 /\ f[v].major = NextMajor(v.loc)
  BY <1>0, <1>1 DEF Rows
<1> HIDE DEF Promote
<1>4. MajorNames \subseteq MajorNames' /\ MajorNames' \subseteq Names
  <2>1. ASSUME NEW u \in Majors PROVE NameOf(u) \in MajorNames'
    <3>1. u \in versions /\ ~ToPromote(u)
      BY <2>1 DEF Majors, ToPromote
    <3>2. f[u] = u
      BY <1>3, <3>1
    <3>3. u \in Majors'
      BY <1>2, <2>1, <3>1, <3>2 DEF Majors
    <3> QED BY <3>3 DEF MajorNames
  <2>2. ASSUME NEW v \in versions PROVE NameOf(f[v]) \in Names
    <3>1. NameOf(f[v]) = NameOf(v)
      BY <1>3 DEF NameOf
    <3> QED BY <1>1, <3>1, TakenNames
  <2>3. MajorNames' \subseteq Names
    BY <1>2, <2>2 DEF MajorNames, Majors
  <2> QED BY <2>1, <2>3 DEF MajorNames
<1>5. /\ Cardinality(MajorNames) <= Cardinality(MajorNames')
      /\ Cardinality(MajorNames) \in Nat /\ Cardinality(MajorNames') \in Nat
      /\ \A i \in Nat : i <= Cardinality(MajorNames') => i \in Numbers
  <2>1. MajorNames \in SUBSET Names /\ MajorNames' \in SUBSET Names
    BY <1>1, <1>4, TakenNames
  <2>2. Cardinality(MajorNames) <= Cardinality(MajorNames')
    BY <1>4, <2>1, NamesMore
  <2>3. Cardinality(MajorNames) \in Numbers /\ Cardinality(MajorNames') \in Numbers
    BY <2>1, NamesCount
  <2> QED BY <2>2, <2>3, NamesCount DEF Numbers
<1>6. ASSUME NEW v \in versions, ToPromote(v)
      PROVE  NextMajor(v.loc) \in Nat /\ NextMajor(v.loc) <= Cardinality(MajorNames')
  <2> DEFINE N == MajorNames \cup {NameOf(v)}
  <2>1. MajorNames \in SUBSET Names /\ NameOf(v) \in Names /\ N \in SUBSET Names
    BY <1>1, TakenNames
  <2>2. NameOf(v) \notin MajorNames
    BY <1>6 DEF ToPromote, MajorNames, Majors, RowInv, RowsDistinct
  <2>3. Cardinality(N) = Cardinality(MajorNames) + 1
    BY <2>1, <2>2, NamesAdd
  <2>4. v \in Of(v.loc)
    BY DEF Of
  <2>5. PICK w \in Of(v.loc) : w.major = MaxMajor(v.loc)
    BY <1>1, <2>4, MaxMajorIs
  <2>6. w.major \in Nat /\ w.major <= Cardinality(MajorNames)
    BY <1>1, NamesCount DEF Of, RowInv, Counted, Rows, Numbers
  <2>7. NextMajor(v.loc) \in Nat /\ NextMajor(v.loc) <= Cardinality(MajorNames) + 1
    BY <1>5, <2>5, <2>6 DEF NextMajor
  <2>8. f[v] \in Majors' /\ NameOf(f[v]) = NameOf(v)
    BY <1>2, <1>3, <1>6 DEF Majors, NameOf
  <2>9. N \subseteq MajorNames'
    BY <1>4, <2>8 DEF MajorNames
  <2> HIDE DEF N
  <2>10. Cardinality(N) <= Cardinality(MajorNames')
    BY <1>4, <2>1, <2>9, NamesMore
  <2> QED BY <1>5, <2>3, <2>7, <2>10
<1>7. ASSUME NEW v \in versions
      PROVE  /\ f[v] \in Rows /\ f[v].minor <= v.minor
             /\ v \in Majors => f[v] \in Majors'
             /\ f[v].major <= Cardinality(MajorNames')
  <2>1. /\ v \in Rows /\ v.minor \in Nat /\ v.major \in Nat
        /\ v.major <= Cardinality(MajorNames) /\ 0 \in Numbers
    BY <1>1, NamesCount DEF Rows, RowInv, Counted, Numbers
  <2>2. CASE ~ToPromote(v)
    BY <1>2, <1>3, <1>5, <2>1, <2>2 DEF Majors
  <2>3. CASE ToPromote(v)
    <3>1. NextMajor(v.loc) \in Numbers
      BY <1>5, <1>6, <2>3
    <3>2. f[v] \in Rows
      BY <1>0, <2>1, <2>3, <3>1 DEF Rows, Promote
    <3> QED BY <1>2, <1>3, <1>6, <2>1, <2>3, <3>2 DEF Majors
  <2> QED BY <2>2, <2>3
<1>8. \A v, w \in versions : f[v].loc = f[w].loc /\ f[v].n = f[w].n => v = w
  BY <1>3 DEF RowInv, RowsDistinct
<1>9. /\ \A v \in versions : f[v] \in Rows /\ f[v] \in versions'
      /\ \A b \in versions' : \E v \in versions : b = f[v]
  BY <1>2, <1>7
<1>10. \A v \in versions : f[v].id = v.id /\ f[v].request = v.request
                           /\ f[v].n = v.n /\ f[v].key = v.key
  BY <1>3
<1>11. \A v \in versions : f[v].minor <= v.minor
  BY <1>7
<1>12. \A v \in versions : v \in Majors => f[v] \in Majors'
  BY <1>7
<1>13. \A v \in versions : f[v].major <= Cardinality(MajorNames')
  BY <1>7
<1>14. Rewritten(f)
  BY <1>8, <1>9, <1>10, <1>11, <1>12, <1>13 DEF Rewritten
<1> QED BY <1>2, <1>14, RewriteKept

LEMMA RowMove ==
  ASSUME RowInv, NEW v \in versions, NEW loc \in Locales, MoveVersion(v, loc)
  PROVE  RowInv'
<1>1. TypeOK /\ OthersTyped /\ versions \subseteq Rows
  BY Typed DEF RowInv
<1> DEFINE m == [v EXCEPT !.loc = loc]
<1>0. PICK f : f = [w \in versions |-> IF w = v THEN m ELSE w]
  OBVIOUS
<1>2. m \in Rows /\ m.loc = loc /\ m.id = v.id /\ m.request = v.request /\ m.n = v.n
        /\ m.major = v.major /\ m.minor = v.minor /\ m.key = v.key
  BY <1>1 DEF Rows
<1>3. /\ OthersTyped' /\ UNCHANGED <<place, req>>
      /\ versions' = (versions \ {v}) \cup {m}
  BY <1>1 DEF MoveVersion, OthersTyped, docVars, Rows
<1> HIDE DEF m
<1>4. /\ \A w \in versions : f[w] \in Rows /\ f[w] \in versions'
      /\ \A b \in versions' : \E w \in versions : b = f[w]
  BY <1>0, <1>1, <1>2, <1>3
<1>5. ASSUME NEW w \in versions
      PROVE  /\ f[w].id = w.id /\ f[w].request = w.request /\ f[w].n = w.n
             /\ f[w].key = w.key /\ f[w].minor = w.minor /\ f[w].major = w.major
             /\ w.minor \in Nat /\ w.major \in Nat
             /\ f[w].loc = (IF w = v THEN loc ELSE w.loc)
             /\ NameOf(f[w]) = NameOf(w)
  BY <1>0, <1>1, <1>2, NamesCount DEF Rows, NameOf, Numbers
<1>6. \A u, w \in versions : f[u].loc = f[w].loc /\ f[u].n = f[w].n => u = w
  BY <1>5 DEF MoveVersion, Of, RowInv, RowsDistinct
<1>7. MajorNames' = MajorNames
  <2>1. ASSUME NEW u \in Majors PROVE NameOf(u) \in MajorNames'
    <3>1. f[u] \in Majors' /\ NameOf(f[u]) = NameOf(u)
      BY <1>4, <1>5, <2>1 DEF Majors
    <3> QED BY <3>1 DEF MajorNames
  <2>2. ASSUME NEW b \in Majors' PROVE NameOf(b) \in MajorNames
    <3>1. PICK w \in versions : b = f[w]
      BY <1>4, <2>2 DEF Majors
    <3>2. w \in Majors /\ NameOf(b) = NameOf(w)
      BY <1>5, <2>2, <3>1 DEF Majors
    <3> QED BY <3>2 DEF MajorNames
  <2> QED BY <2>1, <2>2 DEF MajorNames
<1>8. \A w \in versions : w.major <= Cardinality(MajorNames')
  BY <1>7 DEF RowInv, Counted
<1>9. \A w \in versions : f[w].id = w.id /\ f[w].request = w.request
                           /\ f[w].n = w.n /\ f[w].key = w.key
  BY <1>5
<1>11. \A w \in versions : f[w].minor <= w.minor
  BY <1>5
<1>12. \A w \in versions : w \in Majors => f[w] \in Majors'
  BY <1>4, <1>5 DEF Majors
<1>13. \A w \in versions : f[w].major <= Cardinality(MajorNames')
  BY <1>5, <1>8
<1>14. Rewritten(f)
  BY <1>4, <1>6, <1>9, <1>11, <1>12, <1>13 DEF Rewritten
<1> QED BY <1>3, <1>14, RewriteKept

LEMMA RowDocument ==
  ASSUME RowInv, DocumentNext
  PROVE  RowInv'
<1>1. TypeOK /\ OthersTyped
  BY Typed DEF RowInv
<1>2. CASE Unpublish \/ RemoveByModerator \/ RestoreFromTrash
  <2>1. /\ UNCHANGED <<versions, objects, req, confirmed, moved, leaked>> /\ place # "gone"
        /\ place' \in {"live", "trash"} /\ published' = FALSE
    BY <1>2 DEF Unpublish, RemoveByModerator, RestoreFromTrash, Document, history
  <2>2. TypeOK'
    BY <1>1, <2>1, Typed, TypedNext DEF OthersTyped
  <2>3. Taken' = Taken /\ MajorNames' = MajorNames
    BY <2>1 DEF Taken, MajorNames, Majors
  <2>4. RowsDistinct' /\ ReceiptIds' /\ Counted' /\ KeysHeld'
    BY <2>1, <2>3 DEF RowInv, RowsDistinct, ReceiptIds, Counted, KeysHeld
  <2>5. RequestsCounted'
    BY <2>1, <2>3 DEF RowInv, RequestsCounted
  <2> QED BY <2>1, <2>2, <2>4, <2>5 DEF RowInv
<1>3. ASSUME NEW s \in Slots, StartDelete(s) PROVE RowInv'
  <2> DEFINE r == [Idle EXCEPT !.step = "delete", !.files = {v.key : v \in versions}]
  <2>1. OthersTyped' /\ UNCHANGED <<versions, place>> /\ Goto(s, r)
    BY <1>1, <1>3 DEF StartDelete, OthersTyped, docVars, history
  <2>2. {v.key : v \in versions} \subseteq Names
    BY <1>1, Typed DEF Rows
  <2>3. r \in Requests /\ r.step = "delete" /\ r.key = None
    BY <2>2, IdleIs DEF Idle, Requests, Steps
  <2> HIDE DEF r
  <2>4. Fits(s, r)
    BY <2>3 DEF Fits, Prepared, Reading, Storing, Uploading, Restoring
  <2> QED BY <2>1, <2>4, FitsKept
<1>4. ASSUME NEW s \in Slots, NEW kept \in SUBSET req[s].files, CommitDelete(s, kept)
      PROVE  RowInv'
  <2>1. /\ versions' = {} /\ place' = "gone" /\ Goto(s, Idle) /\ published' = FALSE
        /\ UNCHANGED <<confirmed, moved>> /\ objects' \subseteq objects
        /\ leaked' = leaked \cup kept \cup ({v.key : v \in versions} \ req[s].files)
    BY <1>4 DEF CommitDelete
  <2>2. req[s] \in Requests /\ req[s].files \subseteq Names /\ {v.key : v \in versions} \subseteq Names
    BY <1>1, Typed DEF Requests, Rows
  <2>3. OthersTyped'
    BY <1>1, <2>1, <2>2 DEF OthersTyped
  <2>4. /\ req' \in [Slots -> Requests]
        /\ req'[s] = Idle /\ \A t \in Slots \ {s} : req'[t] = req[t]
    BY <1>1, <2>1, Slot, IdleIs
  <2>5. TypeOK'
    BY <2>1, <2>3, <2>4, TypedNext
  <2>6. RowsDistinct' /\ ReceiptIds' /\ Counted' /\ RequestsCounted'
    BY <2>1 DEF RowsDistinct, ReceiptIds, Counted, RequestsCounted
  <2>7. KeysHeld'
    BY <2>1, <2>4, IdleIs DEF RowInv, KeysHeld, Storing, Uploading, Restoring
  <2>8. \A t \in Slots : Prepared(req'[t])
    BY <2>4, IdleIs DEF RowInv
  <2> QED BY <2>5, <2>6, <2>7, <2>8 DEF RowInv
<1> QED BY <1>2, <1>3, <1>4, RowPublish, RowMove DEF DocumentNext

LEMMA RowStep == RowInv /\ [Next]_vars => RowInv'
<1>1. ASSUME RowInv, UNCHANGED vars PROVE RowInv'
  BY <1>1 DEF vars, RowInv, TypeOK, Prepared, RowsDistinct, ReceiptIds, Counted,
              RequestsCounted, KeysHeld, Taken, Majors, MajorNames
<1>2. ASSUME RowInv, UploadNext PROVE RowInv'
  BY <1>2, RowUpload, RowCommit DEF UploadNext
<1>3. ASSUME RowInv, RestoreNext PROVE RowInv'
  BY <1>3, RowRestore DEF RestoreNext
<1>4. ASSUME RowInv, DocumentNext PROVE RowInv'
  BY <1>4, RowDocument
<1> QED BY <1>1, <1>2, <1>3, <1>4 DEF Next

LEMMA RowsKept == Spec => []RowInv
BY RowInit, RowStep, PTL DEF Spec

\* The rows and requests have their types whatever the overlap of uploads,
\* restorations, publications and deletions; in particular no version number or
\* label is missing or outgrows the number of names the API has drawn
\* (controllers.ts uploadVersion, restoreVersion).
THEOREM TypeCorrect == Spec => []TypeOK
BY RowsKept, PTL DEF RowInv

(***************************************************************************)
(* Files                                                                   *)
(***************************************************************************)

LEMMA FilesSplit ==
  FilesMatchVersions <=>
    /\ \A v \in versions : v.request # NoReceipt /\ v.id \notin Names => v.key \in objects
    /\ \A k \in objects : Used(k) \/ k \in leaked \/ \E s \in Slots : req[s].key = k
BY DEF FilesMatchVersions, FilesPresent, NoOrphans, Used

LEMMA FilesSplitNext ==
  FilesMatchVersions' <=>
    /\ \A v \in versions' : v.request # NoReceipt /\ v.id \notin Names => v.key \in objects'
    /\ \A k \in objects' : Used(k)' \/ k \in leaked' \/ \E s \in Slots : req'[s].key = k
BY DEF FilesMatchVersions, FilesPresent, NoOrphans, Used

\* What the request a slot serves next must be for FileInv to survive.
FileFits(s, r) ==
  /\ r \in Requests
  /\ r.step \in Storing /\ place # "gone" => r.key \in objects
  /\ r.step = "cleanup" =>
       \A v \in versions : v.id \in Attempts /\ v.key = r.key => v.id = r.att
  /\ r.step = "delete" /\ place # "gone" => \A k \in r.files : Used(k)
  /\ r.step \in Restoring /\ r.key \in objects => r.key \in leaked \/ Used(r.key)

\* A request step that changes neither rows nor objects.
LEMMA FilesQuiet ==
  ASSUME TypeOK, FileInv, NEW s \in Slots, NEW r, FileFits(s, r), Goto(s, r),
         UNCHANGED <<versions, place, objects>>, leaked \subseteq leaked',
         req[s].key \in objects =>
           req[s].key = r.key \/ req[s].key \in leaked' \/ Used(req[s].key)
  PROVE  FileInv'
<1>1. /\ req' \in [Slots -> Requests]
      /\ req'[s] = r /\ \A t \in Slots \ {s} : req'[t] = req[t]
  BY Slot DEF FileFits
<1>2. \A k : Used(k)' <=> Used(k)
  BY DEF Used
<1>3. GoneEmpty'
  BY DEF FileInv, GoneEmpty
<1>4. StoredThere'
  BY <1>1 DEF FileInv, FileFits, StoredThere
<1>5. CleanupOwn'
  BY <1>1 DEF FileInv, FileFits, CleanupOwn
<1>6. ListedUsed'
  BY <1>1, <1>2 DEF FileInv, FileFits, ListedUsed
<1>7. RestoredKept'
  BY <1>1, <1>2 DEF FileInv, FileFits, RestoredKept
<1>8. FilesMatchVersions'
  BY <1>1, <1>2, FilesSplit, FilesSplitNext DEF FileInv
<1> QED BY <1>3, <1>4, <1>5, <1>6, <1>7, <1>8 DEF FileInv

LEMMA IdleFileFits ==
  ASSUME NEW s \in Slots
  PROVE  FileFits(s, Idle)
BY IdleIs DEF FileFits, Storing, Restoring

LEMMA FailedFileFits ==
  ASSUME RowInv, NEW s \in Slots, req[s].step \in Storing
  PROVE  FileFits(s, Failed(req[s]))
<1>1. req[s] \in Requests
  BY Typed DEF RowInv
<1>2. /\ Failed(req[s]) \in Requests /\ Failed(req[s]).step = "cleanup"
      /\ Failed(req[s]).key = req[s].key
  BY <1>1, FailedIs
<1>3. \A v \in versions : v.key # req[s].key
  BY DEF RowInv, KeysHeld
<1> QED BY <1>2, <1>3 DEF FileFits, Storing, Restoring

\* A transaction adds a row for what the request has stored or restores.
LEMMA FilesInsert ==
  ASSUME RowInv, FileInv, NEW s \in Slots, req[s].step \in Reading,
         NEW r \in {Idle, Failed(req[s])}, Goto(s, r), place # "gone",
         req[s].step = "restoreRead" => r = Idle, UNCHANGED <<place, objects, leaked>>,
         NEW v, versions' = versions \cup {v}, v.key = req[s].key,
         v.id \in Attempts => v.id = req[s].att /\ req[s].step = "read",
         v.request # NoReceipt /\ v.id \notin Names => req[s].step = "read"
  PROVE  FileInv'
<1>1. TypeOK /\ req[s] \in Requests /\ r \in Requests
  BY Typed, IdleIs, FailedIs DEF RowInv
<1>2. /\ req' \in [Slots -> Requests]
      /\ req'[s] = r /\ \A t \in Slots \ {s} : req'[t] = req[t]
  BY <1>1, Slot
<1>3. \A k : Used(k)' <=> Used(k) \/ k = req[s].key
  BY DEF Used
<1>4. /\ r.step \in {"idle", "cleanup"}
      /\ r.step = "cleanup" => r.key = req[s].key /\ r.att = req[s].att
  BY <1>1, IdleIs, FailedIs
<1>5. GoneEmpty'
  BY DEF GoneEmpty
<1>6. StoredThere'
  BY <1>2, <1>4 DEF FileInv, StoredThere, Storing
<1>7. CleanupOwn'
  <2>1. ASSUME NEW t \in Slots, req'[t].step = "cleanup", NEW w \in versions',
               w.id \in Attempts, w.key = req'[t].key
        PROVE  w.id = req'[t].att
    <3>1. CASE t = s /\ w = v
      BY <1>2, <1>4, <2>1, <3>1
    <3>2. CASE t = s /\ w \in versions
      <4>1. r.key = req[s].key /\ r.att = req[s].att /\ r = Failed(req[s])
        BY <1>2, <1>4, <2>1, <3>2, IdleIs
      <4>2. CASE req[s].step = "read"
        BY <1>2, <2>1, <3>2, <4>1, <4>2 DEF RowInv, KeysHeld, Storing
      <4>3. CASE req[s].step = "restoreRead"
        BY <1>2, <2>1, <3>2, <4>3, IdleIs
      <4> QED BY <4>2, <4>3 DEF Reading
    <3>3. CASE t # s /\ w = v
      BY <1>2, <2>1, <3>3 DEF RowInv, KeysHeld, Uploading
    <3>4. CASE t # s /\ w \in versions
      BY <1>2, <2>1, <3>4 DEF FileInv, CleanupOwn
    <3> QED BY <3>1, <3>2, <3>3, <3>4
  <2> QED BY <2>1 DEF CleanupOwn
<1>8. ListedUsed'
  BY <1>2, <1>3, <1>4 DEF FileInv, ListedUsed
<1>9. RestoredKept'
  BY <1>2, <1>3, <1>4 DEF FileInv, RestoredKept, Restoring
<1>10. FilesMatchVersions'
  <2>1. req[s].step = "read" => req[s].key \in objects
    BY DEF FileInv, StoredThere, Storing
  <2>2. \A w \in versions' : w.request # NoReceipt /\ w.id \notin Names => w.key \in objects'
    BY <2>1, FilesSplit DEF FileInv
  <2>3. \A k \in objects' : Used(k)' \/ k \in leaked' \/ \E t \in Slots : req'[t].key = k
    BY <1>2, <1>3, FilesSplit DEF FileInv
  <2> QED BY <2>2, <2>3, FilesSplitNext
<1> QED BY <1>5, <1>6, <1>7, <1>8, <1>9, <1>10 DEF FileInv

LEMMA FileUpload ==
  ASSUME RowInv, FileInv, NEW s \in Slots,
         \/ \E a \in Attempts \cup {NoReceipt} : StartUpload(s, a)
         \/ ReadLatest(s) \/ AbortUpload(s) \/ Crash(s)
  PROVE  FileInv'
<1>1. TypeOK /\ req[s] \in Requests /\ Prepared(req[s])
  BY Typed DEF RowInv
<1>2. None \notin objects
  BY <1>1, HistoryAssumption, Typed DEF OthersTyped
<1>3. ASSUME NEW a \in Attempts \cup {NoReceipt}, StartUpload(s, a) PROVE FileInv'
  <2> DEFINE r == [Idle EXCEPT !.step = "checked", !.att = a, !.loc = LocaleOf[a]]
  <2>1. UNCHANGED <<versions, place, objects, leaked>>
    BY <1>3 DEF StartUpload, docVars
  <2>2. req[s].step = "idle" /\ req[s].key \notin objects
    BY <1>1, <1>2, <1>3 DEF StartUpload, At, Prepared
  <2>3. Goto(s, req[s]) \/ Goto(s, r)
    BY <1>1, <1>3, Typed DEF StartUpload, Goto
  <2>4. FileFits(s, req[s])
    BY <1>1, <2>2 DEF FileFits, Storing, Restoring
  <2>5. r \in Requests /\ r.step = "checked"
    BY HistoryAssumption, IdleIs DEF Idle, Requests, Steps
  <2> HIDE DEF r
  <2>6. FileFits(s, r)
    BY <2>5 DEF FileFits, Storing, Restoring
  <2> QED BY <1>1, <2>1, <2>2, <2>3, <2>4, <2>6, FilesQuiet
<1>4. CASE ReadLatest(s)
  <2> DEFINE v == LatestOrNone(req[s].loc)
  <2> DEFINE r == [req[s] EXCEPT !.step = "read", !.prev = None, !.n = v.n,
                                 !.major = v.major, !.minor = v.minor]
  <2>1. UNCHANGED <<versions, place, objects, leaked>>
    BY <1>4 DEF ReadLatest, docVars, history
  <2>2. req[s].step = "stored" /\ req[s].loc \in Locales
    BY <1>1, <1>4 DEF ReadLatest, At, Prepared
  <2>3. Goto(s, Failed(req[s])) \/ Goto(s, r)
    BY <1>4 DEF ReadLatest
  <2>4. FileFits(s, Failed(req[s])) /\ Failed(req[s]).key = req[s].key
    BY <1>1, <2>2, FailedFileFits, FailedIs DEF Storing
  <2>5. r \in Requests /\ r.step = "read" /\ r.key = req[s].key
    <3>1. v.n \in Numbers /\ v.major \in Numbers /\ v.minor \in Numbers
      BY <2>2, LatestRow
    <3> HIDE DEF v
    <3> QED BY <1>1, <3>1 DEF Requests, Steps
  <2> HIDE DEF r
  <2>6. FileFits(s, r)
    BY <2>2, <2>5 DEF FileInv, StoredThere, FileFits, Storing, Restoring
  <2> QED BY <1>1, <2>1, <2>3, <2>4, <2>5, <2>6, FilesQuiet
<1>5. CASE AbortUpload(s)
  <2>1. UNCHANGED <<versions, place, objects, leaked>> /\ Goto(s, Failed(req[s]))
    BY <1>5 DEF AbortUpload, docVars, history
  <2>2. FileFits(s, Failed(req[s])) /\ Failed(req[s]).key = req[s].key
    BY <1>1, <1>5, FailedFileFits, FailedIs DEF AbortUpload, At, Storing
  <2> QED BY <1>1, <2>1, <2>2, FilesQuiet
<1>6. CASE Crash(s)
  <2>1. UNCHANGED <<versions, place, objects>> /\ Goto(s, Idle) /\ leaked \subseteq leaked'
    BY <1>6 DEF Crash, docVars
  <2>2. req[s].key \in objects => req[s].key \in leaked' \/ Used(req[s].key)
    BY <1>6 DEF Crash, Used
  <2> QED BY <1>1, <2>1, <2>2, IdleFileFits, FilesQuiet
<1> QED BY <1>3, <1>4, <1>5, <1>6

LEMMA FilePut ==
  ASSUME RowInv, FileInv, NEW s \in Slots, PutObject(s)
  PROVE  FileInv'
<1>1. TypeOK /\ req[s] \in Requests /\ Prepared(req[s])
  BY Typed DEF RowInv
<1>2. None \notin objects
  BY <1>1, HistoryAssumption, Typed DEF OthersTyped
<1>3. PICK k \in Fresh :
        /\ objects' = objects \cup {k}
        /\ Goto(s, [req[s] EXCEPT !.step = "stored", !.key = k,
                                  !.prev = LatestOrNone(req[s].loc).id])
  BY DEF PutObject
<1> DEFINE r == [req[s] EXCEPT !.step = "stored", !.key = k,
                               !.prev = LatestOrNone(req[s].loc).id]
<1>4. r \in Requests /\ r.step = "stored" /\ r.key = k
  <2>1. req[s].loc \in Locales
    BY <1>1 DEF PutObject, At, Prepared
  <2> QED BY <1>1, <2>1, FreshIs, LatestRow DEF Requests, Steps
<1>5. req[s].key = None
  BY <1>1 DEF PutObject, At, Prepared
<1>6. UNCHANGED <<versions, place, leaked>>
  BY DEF PutObject, docVars, history
<1>7. /\ req' \in [Slots -> Requests]
      /\ req'[s] = r /\ \A t \in Slots \ {s} : req'[t] = req[t]
  BY <1>1, <1>3, <1>4, Slot
<1> HIDE DEF r
<1>8. \A i : Used(i)' <=> Used(i)
  BY <1>6 DEF Used
<1>9. \A t \in Slots \ {s} : req[t].key # k
  BY FreshIs
<1>10. GoneEmpty'
  BY <1>6 DEF FileInv, GoneEmpty
<1>11. StoredThere'
  BY <1>3, <1>4, <1>6, <1>7 DEF FileInv, StoredThere
<1>12. CleanupOwn'
  BY <1>4, <1>6, <1>7 DEF FileInv, CleanupOwn
<1>13. ListedUsed'
  BY <1>4, <1>6, <1>7, <1>8 DEF FileInv, ListedUsed
<1>14. RestoredKept'
  BY <1>3, <1>4, <1>6, <1>7, <1>8, <1>9 DEF FileInv, RestoredKept, Restoring
<1>15. FilesMatchVersions'
  BY <1>2, <1>3, <1>4, <1>5, <1>6, <1>7, <1>8, FilesSplit, FilesSplitNext DEF FileInv
<1> QED BY <1>10, <1>11, <1>12, <1>13, <1>14, <1>15 DEF FileInv

\* The object a cleanup removes is its attempt's own and no version's.
LEMMA FileCleanup ==
  ASSUME RowInv, FileInv, NEW s \in Slots, NEW b \in BOOLEAN, Cleanup(s, b)
  PROVE  FileInv'
<1> DEFINE k == req[s].key
<1>1. TypeOK /\ req[s] \in Requests /\ req[s].step = "cleanup"
  BY Typed DEF RowInv, Cleanup, At
<1>2. UNCHANGED <<versions, place>> /\ Goto(s, Idle)
  BY DEF Cleanup, docVars
<1>3. CASE objects' = objects
  <2>1. leaked \subseteq leaked'
    BY DEF Cleanup
  <2>2. k \in objects => k \in leaked' \/ Used(k)
    <3>1. CASE Receipt(req[s].att) # {} /\ place # "live"
      BY <3>1 DEF Cleanup, Used
    <3>2. CASE ~(Receipt(req[s].att) # {} /\ place # "live") /\ ~Superfluous(req[s])
      BY <3>2 DEF Superfluous, Receipt, Used
    <3>3. CASE ~(Receipt(req[s].att) # {} /\ place # "live") /\ Superfluous(req[s])
      BY <1>3, <3>3 DEF Cleanup
    <3> QED BY <3>1, <3>2, <3>3
  <2> QED BY <1>1, <1>2, <1>3, <2>1, <2>2, IdleFileFits, FilesQuiet
<1>4. CASE objects' = objects \ {k} /\ leaked' = leaked /\ Superfluous(req[s])
  <2>1. /\ req' \in [Slots -> Requests]
        /\ req'[s] = Idle /\ \A t \in Slots \ {s} : req'[t] = req[t]
    BY <1>1, <1>2, Slot, IdleIs
  <2>2. \A i : Used(i)' <=> Used(i)
    BY <1>2 DEF Used
  <2>3. GoneEmpty'
    BY <1>2 DEF FileInv, GoneEmpty
  <2>4. StoredThere'
    <3>1. \A t \in Slots \ {s} : req[t].step \in Storing => req[t].key # k
      BY <1>1 DEF RowInv, KeysHeld, Storing, Uploading
    <3> QED BY <1>2, <1>4, <2>1, <3>1, IdleIs DEF FileInv, StoredThere, Storing
  <2>5. CleanupOwn'
    BY <1>2, <2>1, IdleIs DEF FileInv, CleanupOwn
  <2>6. ListedUsed'
    BY <1>2, <2>1, <2>2, IdleIs DEF FileInv, ListedUsed
  <2>7. RestoredKept'
    BY <1>2, <1>4, <2>1, <2>2, IdleIs DEF FileInv, RestoredKept, Restoring
  <2>8. FilesMatchVersions'
    <3>1. ASSUME NEW v \in versions, v.request # NoReceipt, v.id \notin Names
          PROVE  v.key \in objects'
      <4>1. v.id \in Attempts /\ v.key \in objects
        BY <1>1, <3>1, Typed, FilesSplit DEF Rows, FileInv
      <4>2. v.key # k
        BY <1>1, <1>4, <4>1 DEF FileInv, CleanupOwn, Superfluous, Receipt
      <4> QED BY <1>4, <4>1, <4>2
    <3>2. \A i \in objects' : Used(i)' \/ i \in leaked' \/ \E t \in Slots : req'[t].key = i
      BY <1>4, <2>1, <2>2, FilesSplit DEF FileInv
    <3> QED BY <1>2, <3>1, <3>2, FilesSplitNext
  <2> QED BY <2>3, <2>4, <2>5, <2>6, <2>7, <2>8 DEF FileInv
<1> QED BY <1>3, <1>4 DEF Cleanup

LEMMA FileCommit ==
  ASSUME RowInv, FileInv, NEW s \in Slots,
         CommitUnacknowledged(s) \/ \E b \in BOOLEAN : CommitUpload(s, b)
  PROVE  FileInv'
<1>1. TypeOK /\ req[s] \in Requests /\ Prepared(req[s]) /\ req[s].step = "read"
  BY Typed DEF RowInv, CommitUnacknowledged, CommitUpload, At
<1>2. UNCHANGED <<place, objects, leaked>>
  BY DEF CommitUnacknowledged, CommitUpload, history
<1> DEFINE v == NewVersion(req[s])
<1>3. CASE versions' = versions /\ Goto(s, Failed(req[s]))
  <2>1. FileFits(s, Failed(req[s])) /\ Failed(req[s]).key = req[s].key
    BY <1>1, FailedFileFits, FailedIs DEF Storing
  <2> QED BY <1>1, <1>2, <1>3, <2>1, FilesQuiet
<1>4. ASSUME NEW r \in {Idle, Failed(req[s])}, Goto(s, r), versions' = versions \cup {v},
             place # "gone"
      PROVE  FileInv'
  <2>1. v.key = req[s].key /\ (v.id \in Attempts => v.id = req[s].att)
    BY <1>1, HistoryAssumption DEF NewVersion, VersionId, Prepared, Uploading
  <2> HIDE DEF v
  <2> QED BY <1>1, <1>2, <1>4, <2>1, FilesInsert DEF Reading
<1>5. \/ versions' = versions /\ Goto(s, Failed(req[s]))
      \/ \E r \in {Idle, Failed(req[s])} :
           Goto(s, r) /\ versions' = versions \cup {v} /\ place # "gone"
  BY DEF CommitUnacknowledged, CommitUpload
<1> HIDE DEF v
<1> QED BY <1>3, <1>4, <1>5

LEMMA FileRestore ==
  ASSUME RowInv, FileInv, NEW s \in Slots,
         \/ \E v \in versions : StartRestore(s, v)
         \/ ReadRestore(s) \/ CommitRestore(s)
  PROVE  FileInv'
<1>1. TypeOK /\ req[s] \in Requests /\ Prepared(req[s])
  BY Typed DEF RowInv
<1>2. None \notin objects
  BY <1>1, HistoryAssumption, Typed DEF OthersTyped
<1>3. ASSUME NEW v \in versions, StartRestore(s, v) PROVE FileInv'
  <2> DEFINE r == [Idle EXCEPT !.step = "restore", !.loc = v.loc, !.key = v.key, !.n = v.n]
  <2>1. UNCHANGED <<versions, place, objects, leaked>> /\ Goto(s, r)
    BY <1>3 DEF StartRestore, docVars, history
  <2>2. req[s].key \notin objects
    BY <1>1, <1>2, <1>3 DEF StartRestore, At, Prepared
  <2>3. r \in Requests /\ r.step = "restore" /\ r.key = v.key
    BY <1>1, IdleIs, Typed DEF Idle, Requests, Steps, Rows
  <2> HIDE DEF r
  <2>4. FileFits(s, r)
    BY <2>3 DEF FileFits, Storing, Used
  <2> QED BY <1>1, <2>1, <2>2, <2>4, FilesQuiet
<1>4. CASE ReadRestore(s)
  <2> DEFINE v == LatestOrNone(req[s].loc)
  <2> DEFINE r == [req[s] EXCEPT !.step = "restoreRead", !.n = v.n, !.major = v.major,
                                 !.minor = v.minor]
  <2>1. UNCHANGED <<versions, place, objects, leaked>> /\ (Goto(s, Idle) \/ Goto(s, r))
    BY <1>4 DEF ReadRestore, docVars, history
  <2>2. req[s].step = "restore" /\ req[s].loc \in Locales
    BY <1>1, <1>4 DEF ReadRestore, At, Prepared
  <2>3. req[s].key \in objects => req[s].key \in leaked \/ Used(req[s].key)
    BY <2>2 DEF FileInv, RestoredKept, Restoring
  <2>4. r \in Requests /\ r.step = "restoreRead" /\ r.key = req[s].key
    <3>1. v.n \in Numbers /\ v.major \in Numbers /\ v.minor \in Numbers
      BY <2>2, LatestRow
    <3> HIDE DEF v
    <3> QED BY <1>1, <3>1 DEF Requests, Steps
  <2> HIDE DEF r
  <2>5. FileFits(s, r)
    BY <2>3, <2>4 DEF FileFits, Storing
  <2> QED BY <1>1, <2>1, <2>3, <2>5, IdleFileFits, FilesQuiet
<1>5. CASE CommitRestore(s)
  <2>1. req[s].step = "restoreRead" /\ UNCHANGED <<place, objects, leaked>> /\ Goto(s, Idle)
    BY <1>5 DEF CommitRestore, At, history
  <2>2. CASE versions' = versions
    <3>1. req[s].key \in objects => req[s].key \in leaked \/ Used(req[s].key)
      BY <2>1 DEF FileInv, RestoredKept, Restoring
    <3> QED BY <1>1, <2>1, <2>2, <3>1, IdleFileFits, FilesQuiet
  <2>3. ASSUME NEW v, versions' = versions \cup {v}, place # "gone",
               v.id \in Names, v.key = req[s].key
        PROVE  FileInv'
    BY <2>1, <2>3, FilesInsert, HistoryAssumption DEF Reading
  <2>4. \/ versions' = versions
        \/ \E v : versions' = versions \cup {v} /\ place # "gone" /\ v.id \in Names
                    /\ v.key = req[s].key
    BY <1>5, FreshIs DEF CommitRestore
  <2> QED BY <2>2, <2>3, <2>4
<1> QED BY <1>3, <1>4, <1>5

\* Rows are rewritten without touching ids, attempts and keys.
LEMMA FileRewrite ==
  ASSUME FileInv, UNCHANGED <<place, req, objects, leaked>>, NEW f,
         \A v \in versions : f[v] \in versions',
         \A b \in versions' : \E v \in versions : b = f[v],
         \A v \in versions : f[v].id = v.id /\ f[v].request = v.request /\ f[v].key = v.key
  PROVE  FileInv'
<1>1. \A k : Used(k)' <=> Used(k)
  BY DEF Used
<1>2. GoneEmpty'
  BY DEF FileInv, GoneEmpty
<1>3. StoredThere'
  BY DEF FileInv, StoredThere
<1>4. CleanupOwn'
  BY DEF FileInv, CleanupOwn
<1>5. ListedUsed' /\ RestoredKept'
  BY <1>1 DEF FileInv, ListedUsed, RestoredKept
<1>6. FilesMatchVersions'
  <2>1. \A b \in versions' : b.request # NoReceipt /\ b.id \notin Names => b.key \in objects'
    BY FilesSplit DEF FileInv
  <2>2. \A k \in objects' : Used(k)' \/ k \in leaked' \/ \E s \in Slots : req'[s].key = k
    BY <1>1, FilesSplit DEF FileInv
  <2> QED BY <2>1, <2>2, FilesSplitNext
<1> QED BY <1>2, <1>3, <1>4, <1>5, <1>6 DEF FileInv

LEMMA FileDocument ==
  ASSUME RowInv, FileInv, DocumentNext
  PROVE  FileInv'
<1>1. TypeOK /\ versions \subseteq Rows
  BY Typed DEF RowInv
<1>2. CASE Unpublish \/ RemoveByModerator \/ RestoreFromTrash
  <2>1. UNCHANGED <<versions, objects, req, leaked>> /\ place # "gone" /\ place' # "gone"
    BY <1>2 DEF Unpublish, RemoveByModerator, RestoreFromTrash, Document, history
  <2>2. FilesMatchVersions'
    BY <2>1 DEF FileInv, FilesMatchVersions, FilesPresent, NoOrphans
  <2> QED BY <2>1, <2>2 DEF FileInv, GoneEmpty, StoredThere, CleanupOwn, ListedUsed,
                            RestoredKept, Used
<1>3. CASE Publish
  <2> DEFINE Promote(v) == IF ToPromote(v)
                             THEN [v EXCEPT !.major = NextMajor(v.loc), !.minor = 0] ELSE v
  <2>1. PICK f : f = [v \in versions |-> Promote(v)]
    OBVIOUS
  <2>2. UNCHANGED <<place, req, objects, leaked>> /\ versions' = {f[v] : v \in versions}
    BY <1>3, <2>1 DEF Publish, Promoted, history
  <2>3. \A v \in versions : f[v].id = v.id /\ f[v].request = v.request /\ f[v].key = v.key
    <3>1. ASSUME NEW v \in versions
          PROVE  f[v].id = v.id /\ f[v].request = v.request /\ f[v].key = v.key
      BY <1>1, <2>1 DEF Rows
    <3> QED BY <3>1
  <2>4. /\ \A v \in versions : f[v] \in versions'
        /\ \A b \in versions' : \E v \in versions : b = f[v]
    BY <2>2
  <2> QED BY <2>2, <2>3, <2>4, FileRewrite
<1>4. ASSUME NEW v \in versions, NEW loc \in Locales, MoveVersion(v, loc) PROVE FileInv'
  <2> DEFINE m == [v EXCEPT !.loc = loc]
  <2>1. PICK f : f = [w \in versions |-> IF w = v THEN m ELSE w]
    OBVIOUS
  <2>2. m.id = v.id /\ m.request = v.request /\ m.key = v.key
    BY <1>1 DEF Rows
  <2>3. /\ UNCHANGED <<place, req, objects, leaked>>
        /\ versions' = (versions \ {v}) \cup {m}
    BY <1>4 DEF MoveVersion, docVars
  <2> HIDE DEF m
  <2>4. /\ \A w \in versions : f[w] \in versions'
        /\ \A b \in versions' : \E w \in versions : b = f[w]
        /\ \A w \in versions : f[w].id = w.id /\ f[w].request = w.request /\ f[w].key = w.key
    BY <2>1, <2>2, <2>3
  <2> QED BY <2>3, <2>4, FileRewrite
<1>5. ASSUME NEW s \in Slots, StartDelete(s) PROVE FileInv'
  <2> DEFINE r == [Idle EXCEPT !.step = "delete", !.files = {v.key : v \in versions}]
  <2>1. UNCHANGED <<versions, place, objects, leaked>> /\ Goto(s, r)
    BY <1>5 DEF StartDelete, docVars, history
  <2>2. req[s].key \notin objects
    BY <1>1, <1>5, HistoryAssumption, Typed DEF StartDelete, At, RowInv, Prepared, OthersTyped
  <2>3. r \in Requests /\ r.step = "delete" /\ r.files = {v.key : v \in versions}
    <3>1. {v.key : v \in versions} \subseteq Names
      BY <1>1 DEF Rows
    <3> QED BY <3>1, IdleIs DEF Idle, Requests, Steps
  <2> HIDE DEF r
  <2>4. FileFits(s, r)
    BY <2>3 DEF FileFits, Storing, Restoring, Used
  <2> QED BY <1>1, <2>1, <2>2, <2>4, FilesQuiet
<1>6. ASSUME NEW s \in Slots, NEW kept \in SUBSET req[s].files, CommitDelete(s, kept)
      PROVE  FileInv'
  <2>1. /\ versions' = {} /\ place' = "gone" /\ Goto(s, Idle) /\ req[s].step = "delete"
        /\ objects' = objects \ (req[s].files \ kept)
        /\ leaked' = leaked \cup kept \cup ({v.key : v \in versions} \ req[s].files)
    BY <1>6 DEF CommitDelete, At
  <2>2. /\ req' \in [Slots -> Requests]
        /\ req'[s] = Idle /\ \A t \in Slots \ {s} : req'[t] = req[t]
    BY <1>1, <2>1, Slot, IdleIs
  <2>3. \A k \in objects' : Used(k) => k \in leaked'
    BY <2>1 DEF Used
  <2>4. req[s].key \notin objects
    BY <1>1, <2>1, HistoryAssumption, Typed DEF RowInv, Prepared, OthersTyped
  <2>5. GoneEmpty' /\ StoredThere' /\ CleanupOwn' /\ ListedUsed'
    BY <2>1 DEF GoneEmpty, StoredThere, CleanupOwn, ListedUsed
  <2>6. RestoredKept'
    BY <2>1, <2>2, <2>3, IdleIs DEF FileInv, RestoredKept, Restoring
  <2>7. FilesMatchVersions'
    BY <2>1, <2>2, <2>3, <2>4, FilesSplit, FilesSplitNext DEF FileInv
  <2> QED BY <2>5, <2>6, <2>7 DEF FileInv
<1> QED BY <1>2, <1>3, <1>4, <1>5, <1>6 DEF DocumentNext

LEMMA FileInit == Init => FileInv
<1> SUFFICES ASSUME Init PROVE FileInv
  OBVIOUS
<1>1. \A s \in Slots : req[s] = Idle
  BY DEF Init
<1>2. GoneEmpty /\ FilesMatchVersions
  BY FilesSplit DEF Init, GoneEmpty
<1> QED BY <1>1, <1>2, IdleIs DEF FileInv, StoredThere, CleanupOwn, ListedUsed,
                                 RestoredKept, Storing, Restoring

LEMMA FileStep == RowInv /\ FileInv /\ [Next]_vars => FileInv'
<1>1. ASSUME FileInv, UNCHANGED vars PROVE FileInv'
  BY <1>1 DEF vars, FileInv, GoneEmpty, StoredThere, CleanupOwn, ListedUsed, RestoredKept,
              Used, FilesMatchVersions, FilesPresent, NoOrphans
<1>2. ASSUME RowInv, FileInv, UploadNext PROVE FileInv'
  BY <1>2, FileUpload, FilePut, FileCleanup, FileCommit DEF UploadNext
<1>3. ASSUME RowInv, FileInv, RestoreNext PROVE FileInv'
  BY <1>3, FileRestore DEF RestoreNext
<1>4. ASSUME RowInv, FileInv, DocumentNext PROVE FileInv'
  BY <1>4, FileDocument
<1> QED BY <1>1, <1>2, <1>3, <1>4 DEF Next

LEMMA FilesKept == Spec => []FileInv
BY FileInit, FileStep, RowsKept, PTL DEF Spec

\* No version uploaded with a receipt loses its file and no object is forgotten,
\* through crashes, lost acknowledgements, late cleanups and deletions that
\* overlap (controllers.ts uploadVersion and its cleanup, ged.controller.ts remove).
THEOREM FilesAlwaysMatch == Spec => []FilesMatchVersions
BY FilesKept, PTL DEF FileInv

(***************************************************************************)
(* Labels                                                                  *)
(***************************************************************************)

LEMMA LatestLast ==
  ASSUME RowInv, NEW v \in versions
  PROVE  Last(v) <=> v = Latest(v.loc)
<1>1. versions \subseteq Rows
  BY Typed DEF RowInv
<1>2. v \in Of(v.loc)
  BY DEF Of
<1>3. /\ Latest(v.loc) \in versions /\ Latest(v.loc).loc = v.loc
      /\ \A w \in versions : w.loc = v.loc => w.n <= Latest(v.loc).n
  BY <1>1, <1>2, LatestIs DEF Of
<1>4. v.n \in Nat /\ Latest(v.loc).n \in Nat
  BY <1>1, <1>3, NamesCount DEF Rows, Numbers
<1>5. Last(v) => v = Latest(v.loc)
  <2>1. ASSUME Last(v) PROVE v.n = Latest(v.loc).n
    BY <1>3, <1>4, <2>1 DEF Last
  <2> QED BY <1>3, <2>1 DEF RowInv, RowsDistinct
<1>6. v = Latest(v.loc) => Last(v)
  BY <1>3 DEF Last
<1> QED BY <1>5, <1>6

LEMMA LabelsSplit ==
  ASSUME RowInv
  PROVE  LabelsSound <=> Distinct /\ LastMajor
<1>1. versions \subseteq Rows
  BY Typed DEF RowInv
<1>2. \A v \in versions : v.loc \in Locales
  BY <1>1 DEF Rows
<1>3. LabelsDistinct <=> Distinct
  BY <1>2 DEF LabelsDistinct, Distinct, Of
<1>4. ASSUME NEW loc \in Locales, Of(loc) # {}
      PROVE  Latest(loc) \in versions /\ Latest(loc).loc = loc /\ Last(Latest(loc))
  BY <1>1, <1>4, LatestIs DEF Of, Last
<1>5. PublishedIsMajor <=> LastMajor
  <2>1. ASSUME PublishedIsMajor, published, NEW v \in versions, v.loc \notin moved, Last(v)
        PROVE  v \in Majors
    <3>1. v = Latest(v.loc) /\ Of(v.loc) # {}
      BY <2>1, LatestLast DEF Of
    <3>2. Latest(v.loc).minor = 0
      BY <1>2, <2>1, <3>1 DEF PublishedIsMajor
    <3> QED BY <3>1, <3>2 DEF Majors
  <2>2. ASSUME LastMajor, published, NEW loc \in Locales \ moved, Of(loc) # {}
        PROVE  Latest(loc).minor = 0
    BY <1>4, <2>2 DEF LastMajor, Majors
  <2> QED BY <2>1, <2>2 DEF PublishedIsMajor, LastMajor
<1> QED BY <1>3, <1>5 DEF LabelsSound

\* A step that changes neither rows, languages nor publication: what matters is
\* what a request has just read.
LEMMA LabelQuiet ==
  ASSUME TypeOK, Labelled, NEW s \in Slots, NEW r \in Requests, Goto(s, r),
         UNCHANGED <<versions, place, moved>>, published' \in {published, FALSE},
         r.step \in Reading /\ place # "gone" /\ r.loc \notin moved => Knows(r)
  PROVE  Labelled'
<1>1. /\ req' \in [Slots -> Requests]
      /\ req'[s] = r /\ \A t \in Slots \ {s} : req'[t] = req[t]
  BY Slot
<1>2. /\ \A x : Knows(x)' <=> Knows(x)
      /\ \A v : Last(v)' <=> Last(v)
      /\ Majors' = Majors
  BY DEF Knows, Last, Majors
<1>3. Contiguous' /\ Distinct'
  BY DEF Labelled, Contiguous, Distinct
<1>4. LastLabel'
  BY <1>2 DEF Labelled, LastLabel
<1>5. LastMajor'
  <2>1. published' => published
    OBVIOUS
  <2> QED BY <1>2, <2>1 DEF Labelled, LastMajor
<1>6. ReadersKnow'
  BY <1>1, <1>2 DEF Labelled, ReadersKnow
<1> QED BY <1>3, <1>4, <1>5, <1>6 DEF Labelled

\* A request that reads the latest version knows the last label.
LEMMA ReadKnows ==
  ASSUME RowInv, Labelled, NEW r, r.loc \in Locales \ moved,
         r.n = LatestOrNone(r.loc).n, r.major = LatestOrNone(r.loc).major,
         r.minor = LatestOrNone(r.loc).minor
  PROVE  Knows(r)
<1>1. versions \subseteq Rows
  BY Typed DEF RowInv
<1>2. CASE Of(r.loc) = {}
  BY <1>2 DEF Of, LatestOrNone, NoRow, Knows
<1>3. CASE Of(r.loc) # {}
  <2>1. LatestOrNone(r.loc) = Latest(r.loc)
    BY <1>3 DEF LatestOrNone
  <2>2. Latest(r.loc) \in versions /\ Latest(r.loc).loc = r.loc /\ Last(Latest(r.loc))
    BY <1>1, <1>3, LatestIs DEF Of, Last
  <2> QED BY <2>1, <2>2 DEF Labelled, LastLabel, Knows
<1> QED BY <1>2, <1>3

\* The row a transaction adds is the next after the one its request has read:
\* had another come in between, its number would be taken.
LEMMA LabelInsert ==
  ASSUME RowInv, Labelled, NEW s \in Slots, req[s].step \in Reading,
         NEW r \in {Idle, Failed(req[s])}, Goto(s, r), place # "gone",
         UNCHANGED <<place, moved>>, published' = FALSE,
         NEW v, versions' = versions \cup {v}, Insertable(v), v.loc = req[s].loc,
         v.n = req[s].n + 1, v.major = req[s].major, v.minor = req[s].minor + 1
  PROVE  Labelled'
<1>1. TypeOK /\ req[s] \in Requests /\ r \in Requests /\ versions \subseteq Rows
  BY Typed, IdleIs, FailedIs DEF RowInv
<1>2. /\ req' \in [Slots -> Requests]
      /\ req'[s] = r /\ \A t \in Slots \ {s} : req'[t] = req[t]
  BY <1>1, Slot
<1>3. r.step \notin Reading
  BY <1>1, IdleIs, FailedIs DEF Reading
<1>4. /\ req[s].n \in Nat /\ req[s].major \in Nat /\ req[s].minor \in Nat
      /\ \A w \in versions : w.n \in Nat /\ w.major \in Nat /\ w.minor \in Nat
      /\ \A t \in Slots : req[t].n \in Nat /\ req[t].minor \in Nat
  BY <1>1, Typed, NamesCount DEF Rows, Requests, Numbers
<1>5. v.loc \notin moved =>
        /\ \A w \in versions : w.loc = v.loc => w.n <= req[s].n
        /\ \A w \in versions : w.loc = v.loc /\ w.major = v.major => w.minor <= req[s].minor
        /\ req[s].n = 0 \/ \E w \in versions : w.loc = v.loc /\ w.n = req[s].n
  <2> SUFFICES ASSUME v.loc \notin moved
               PROVE  /\ \A w \in versions : w.loc = v.loc => w.n <= req[s].n
                      /\ \A w \in versions : w.loc = v.loc /\ w.major = v.major
                                               => w.minor <= req[s].minor
                      /\ req[s].n = 0 \/ \E w \in versions : w.loc = v.loc /\ w.n = req[s].n
    OBVIOUS
  <2>1. Knows(req[s])
    BY DEF Labelled, ReadersKnow
  <2>2. ASSUME NEW w \in versions, w.loc = v.loc PROVE w.n <= req[s].n
    <3> SUFFICES ASSUME ~(w.n <= req[s].n) PROVE FALSE
      OBVIOUS
    <3>1. req[s].n + 1 \in 1 .. w.n
      BY <1>4
    <3>2. \E u \in versions : u.loc = v.loc /\ u.n = req[s].n + 1
      BY <2>2, <3>1 DEF Labelled, Contiguous
    <3> QED BY <3>2 DEF Insertable
  <2> QED BY <2>1, <2>2 DEF Knows
<1>6. Contiguous'
  <2>1. ASSUME NEW w \in versions', w.loc \notin moved, NEW i \in 1 .. w.n
        PROVE  \E u \in versions' : u.loc = w.loc /\ u.n = i
    <3>1. CASE w \in versions
      BY <2>1, <3>1 DEF Labelled, Contiguous
    <3>2. CASE w = v /\ i = v.n
      BY <3>2
    <3>3. CASE w = v /\ i # v.n
      <4>1. i \in 1 .. req[s].n /\ req[s].n # 0
        BY <1>4, <2>1, <3>3
      <4>2. PICK x \in versions : x.loc = v.loc /\ x.n = req[s].n
        BY <1>5, <2>1, <3>3, <4>1
      <4>3. \E u \in versions : u.loc = x.loc /\ u.n = i
        BY <2>1, <3>3, <4>1, <4>2 DEF Labelled, Contiguous
      <4> QED BY <3>3, <4>2, <4>3
    <3> QED BY <3>1, <3>2, <3>3
  <2> QED BY <2>1 DEF Contiguous
<1>7. ASSUME NEW w \in versions', w.loc \notin moved, Last(w)'
      PROVE  w = v \/ (w \in versions /\ w.loc # v.loc /\ Last(w))
  <2>1. w.n >= v.n \/ w.loc # v.loc
    BY <1>7 DEF Last
  <2>2. w \in versions /\ w.loc = v.loc => FALSE
    BY <1>4, <1>5, <1>7, <2>1
  <2>3. w \in versions => Last(w)
    BY <1>7 DEF Last
  <2> QED BY <1>7, <2>2, <2>3
<1>8. LastLabel'
  <2>1. ASSUME NEW x \in versions', NEW w \in versions', x.loc = w.loc, x.loc \notin moved,
               Last(x)', w.major = x.major
        PROVE  w.minor <= x.minor
    <3>1. CASE x = v
      <4>1. v.minor \in Nat
        BY <1>4
      <4> QED BY <1>4, <1>5, <2>1, <3>1, <4>1
    <3>2. CASE x \in versions /\ x.loc # v.loc /\ Last(x)
      BY <2>1, <3>2 DEF Labelled, LastLabel
    <3> QED BY <1>7, <2>1, <3>1, <3>2
  <2> QED BY <2>1 DEF LastLabel
<1>9. ReadersKnow'
  <2>1. ASSUME NEW t \in Slots, req'[t].step \in Reading, req'[t].loc \notin moved
        PROVE  Knows(req[t])'
    <3>1. t # s /\ req'[t] = req[t] /\ Knows(req[t])
      BY <1>2, <1>3, <2>1 DEF Labelled, ReadersKnow
    <3> DEFINE q == req[t]
    <3>2. q.n = 0 \/ \E w \in versions' : w.loc = q.loc /\ w.n = q.n
      BY <3>1 DEF Knows
    <3>3. ASSUME \A w \in versions' : w.loc = q.loc => w.n <= q.n
          PROVE  \A w \in versions' : w.loc = q.loc /\ w.major = q.major => w.minor <= q.minor
      <4>1. v.loc # q.loc
        <5> SUFFICES ASSUME v.loc = q.loc PROVE FALSE
          OBVIOUS
        <5>1. req[s].n + 1 <= q.n
          BY <3>3
        <5>2. PICK w \in versions : w.loc = q.loc /\ w.n = q.n
          BY <1>4, <3>1, <5>1 DEF Knows
        <5>3. q.n <= req[s].n
          BY <1>5, <2>1, <3>1, <5>2
        <5> QED BY <1>4, <5>1, <5>3
      <4> QED BY <3>1, <3>3, <4>1 DEF Knows
    <3> QED BY <3>1, <3>2, <3>3 DEF Knows
  <2> QED BY <2>1 DEF ReadersKnow
<1>10. Distinct'
  <2>1. ASSUME NEW w \in versions, w.loc = v.loc, v.loc \notin moved,
               w.major = v.major, w.minor = v.minor
        PROVE  FALSE
    BY <1>4, <1>5, <2>1
  <2> QED BY <2>1 DEF Labelled, Distinct
<1>11. LastMajor'
  BY DEF LastMajor
<1> QED BY <1>6, <1>8, <1>9, <1>10, <1>11 DEF Labelled

LEMMA LabelUpload ==
  ASSUME RowInv, Labelled, NEW s \in Slots,
         \/ \E a \in Attempts \cup {NoReceipt} : StartUpload(s, a)
         \/ PutObject(s) \/ AbortUpload(s) \/ Crash(s)
         \/ \E b \in BOOLEAN : Cleanup(s, b)
  PROVE  Labelled'
<1>1. TypeOK /\ req[s] \in Requests
  BY Typed DEF RowInv
<1>2. UNCHANGED <<versions, place, published, moved>>
  BY DEF StartUpload, PutObject, AbortUpload, Crash, Cleanup, docVars, history
<1>3. \E r : Goto(s, r) /\ r \in Requests /\ r.step \notin Reading
  <2>1. ASSUME NEW a \in Attempts \cup {NoReceipt}, StartUpload(s, a)
        PROVE  \E r : Goto(s, r) /\ r \in Requests /\ r.step \notin Reading
    <3> DEFINE r == [Idle EXCEPT !.step = "checked", !.att = a, !.loc = LocaleOf[a]]
    <3>1. r \in Requests /\ r.step = "checked"
      BY HistoryAssumption, IdleIs DEF Idle, Requests, Steps
    <3>2. Goto(s, r) \/ Goto(s, req[s])
      BY <1>1, <2>1, Typed DEF StartUpload, Goto
    <3>3. req[s].step = "idle"
      BY <2>1 DEF StartUpload, At
    <3> HIDE DEF r
    <3> QED BY <1>1, <3>1, <3>2, <3>3 DEF Reading
  <2>2. ASSUME PutObject(s)
        PROVE  \E r : Goto(s, r) /\ r \in Requests /\ r.step \notin Reading
    <3>1. req[s].loc \in Locales
      BY <2>2 DEF PutObject, At, RowInv, Prepared
    <3>2. PICK k \in Fresh : Goto(s, [req[s] EXCEPT !.step = "stored", !.key = k,
                                          !.prev = LatestOrNone(req[s].loc).id])
      BY <2>2 DEF PutObject
    <3> DEFINE r == [req[s] EXCEPT !.step = "stored", !.key = k,
                                   !.prev = LatestOrNone(req[s].loc).id]
    <3>3. r \in Requests /\ r.step = "stored"
      BY <1>1, <3>1, FreshIs, LatestRow DEF Requests, Steps
    <3> QED BY <3>2, <3>3 DEF Reading
  <2>3. CASE AbortUpload(s)
    BY <1>1, <2>3, FailedIs DEF AbortUpload, Reading
  <2>4. CASE Crash(s) \/ \E b \in BOOLEAN : Cleanup(s, b)
    BY <2>4, IdleIs DEF Crash, Cleanup, Reading
  <2> QED BY <2>1, <2>2, <2>3, <2>4
<1> QED BY <1>1, <1>2, <1>3, LabelQuiet

LEMMA LabelRead ==
  ASSUME RowInv, Labelled, NEW s \in Slots, ReadLatest(s) \/ ReadRestore(s)
  PROVE  Labelled'
<1> DEFINE v == LatestOrNone(req[s].loc)
<1> DEFINE r1 == [req[s] EXCEPT !.step = "read", !.prev = None, !.n = v.n,
                                !.major = v.major, !.minor = v.minor]
<1> DEFINE r2 == [req[s] EXCEPT !.step = "restoreRead", !.n = v.n, !.major = v.major,
                                !.minor = v.minor]
<1>1. TypeOK /\ req[s] \in Requests /\ req[s].loc \in Locales
  BY Typed DEF RowInv, Prepared, ReadLatest, ReadRestore, At
<1>2. UNCHANGED <<versions, place, published, moved>>
  BY DEF ReadLatest, ReadRestore, docVars, history
<1>3. Goto(s, Failed(req[s])) \/ Goto(s, Idle) \/ Goto(s, r1) \/ Goto(s, r2)
  BY DEF ReadLatest, ReadRestore
<1>4. CASE Goto(s, Failed(req[s])) \/ Goto(s, Idle)
  <2>1. PICK r \in {Idle, Failed(req[s])} : Goto(s, r)
    BY <1>4
  <2>2. r \in Requests /\ r.step \notin Reading
    BY <1>1, IdleIs, FailedIs DEF Reading
  <2> QED BY <1>1, <1>2, <2>1, <2>2, LabelQuiet
<1>5. CASE Goto(s, r1) \/ Goto(s, r2)
  <2>1. PICK r \in {r1, r2} : Goto(s, r)
    BY <1>5
  <2>2. v.n \in Numbers /\ v.major \in Numbers /\ v.minor \in Numbers
    BY <1>1, LatestRow
  <2> HIDE DEF v
  <2>3. r1 \in Requests /\ r1.loc = req[s].loc /\ r1.n = v.n /\ r1.major = v.major
          /\ r1.minor = v.minor
    BY <1>1, <2>2, HistoryAssumption DEF Requests, Steps
  <2>4. r2 \in Requests /\ r2.loc = req[s].loc /\ r2.n = v.n /\ r2.major = v.major
          /\ r2.minor = v.minor
    BY <1>1, <2>2 DEF Requests, Steps
  <2> HIDE DEF r1, r2
  <2>5. r \in Requests /\ r.loc = req[s].loc /\ r.n = v.n /\ r.major = v.major
          /\ r.minor = v.minor
    BY <2>3, <2>4
  <2>6. r.loc \notin moved => Knows(r)
    BY <1>1, <2>5, ReadKnows DEF v
  <2> QED BY <1>1, <1>2, <2>1, <2>5, <2>6, LabelQuiet
<1> HIDE DEF r1, r2
<1> QED BY <1>3, <1>4, <1>5

LEMMA LabelCommit ==
  ASSUME RowInv, Labelled, NEW s \in Slots,
         CommitUnacknowledged(s) \/ \E b \in BOOLEAN : CommitUpload(s, b)
  PROVE  Labelled'
<1>1. TypeOK /\ req[s] \in Requests /\ req[s].step = "read"
  BY Typed DEF RowInv, CommitUnacknowledged, CommitUpload, At
<1>2. UNCHANGED <<place, moved>>
  BY DEF CommitUnacknowledged, CommitUpload, history
<1> DEFINE v == NewVersion(req[s])
<1>3. CASE versions' = versions /\ published' = published /\ Goto(s, Failed(req[s]))
  BY <1>1, <1>2, <1>3, FailedIs, LabelQuiet DEF Reading
<1>4. ASSUME NEW r \in {Idle, Failed(req[s])}, Goto(s, r), versions' = versions \cup {v},
             place # "gone", Insertable(v), published' = FALSE
      PROVE  Labelled'
  <2>1. v.loc = req[s].loc /\ v.n = req[s].n + 1 /\ v.major = req[s].major
          /\ v.minor = req[s].minor + 1
    BY DEF NewVersion
  <2> HIDE DEF v
  <2> QED BY <1>1, <1>2, <1>4, <2>1, LabelInsert DEF Reading
<1>5. \/ versions' = versions /\ published' = published /\ Goto(s, Failed(req[s]))
      \/ \E r \in {Idle, Failed(req[s])} :
           /\ Goto(s, r) /\ versions' = versions \cup {v} /\ place # "gone"
           /\ Insertable(v) /\ published' = FALSE
  BY DEF CommitUnacknowledged, CommitUpload
<1> HIDE DEF v
<1> QED BY <1>3, <1>4, <1>5

LEMMA LabelRestore ==
  ASSUME RowInv, Labelled, NEW s \in Slots,
         CommitRestore(s) \/ \E v \in versions : StartRestore(s, v)
  PROVE  Labelled'
<1>1. TypeOK /\ req[s] \in Requests /\ versions \subseteq Rows
  BY Typed DEF RowInv
<1>2. ASSUME NEW v \in versions, StartRestore(s, v) PROVE Labelled'
  <2> DEFINE r == [Idle EXCEPT !.step = "restore", !.loc = v.loc, !.key = v.key, !.n = v.n]
  <2>1. UNCHANGED <<versions, place, published, moved>> /\ Goto(s, r)
    BY <1>2 DEF StartRestore, docVars, history
  <2>2. r \in Requests /\ r.step = "restore"
    BY <1>1, IdleIs DEF Idle, Requests, Steps, Rows
  <2> HIDE DEF r
  <2> QED BY <1>1, <2>1, <2>2, LabelQuiet DEF Reading
<1>3. CASE CommitRestore(s)
  <2>1. req[s].step \in Reading /\ UNCHANGED <<place, moved>> /\ Goto(s, Idle)
    BY <1>3 DEF CommitRestore, At, history, Reading
  <2> DEFINE v(id) == [id |-> id, request |-> None, loc |-> req[s].loc, n |-> req[s].n + 1,
                       major |-> req[s].major, minor |-> req[s].minor + 1, key |-> req[s].key]
  <2>2. \/ versions' = versions /\ published' = published
        \/ \E id \in Fresh : /\ versions' = versions \cup {v(id)} /\ place # "gone"
                              /\ Insertable(v(id)) /\ published' = FALSE
    BY <1>3 DEF CommitRestore
  <2>3. \A id : v(id).loc = req[s].loc /\ v(id).n = req[s].n + 1 /\ v(id).major = req[s].major
          /\ v(id).minor = req[s].minor + 1
    OBVIOUS
  <2> HIDE DEF v
  <2>4. CASE versions' = versions /\ published' = published
    BY <1>1, <2>1, <2>4, IdleIs, LabelQuiet DEF Reading
  <2>5. ASSUME NEW id \in Fresh, versions' = versions \cup {v(id)}, place # "gone",
               Insertable(v(id)), published' = FALSE
        PROVE  Labelled'
    BY <2>1, <2>3, <2>5, LabelInsert
  <2> QED BY <2>2, <2>4, <2>5
<1> QED BY <1>2, <1>3

LEMMA LabelPublish ==
  ASSUME RowInv, Labelled, Publish
  PROVE  Labelled'
<1>1. TypeOK /\ versions \subseteq Rows
  BY Typed DEF RowInv
<1> DEFINE Promote(v) == IF ToPromote(v)
                           THEN [v EXCEPT !.major = NextMajor(v.loc), !.minor = 0] ELSE v
<1>2. PICK f : f = [v \in versions |-> Promote(v)]
  OBVIOUS
<1>3. /\ UNCHANGED <<place, req, moved>>
      /\ versions' = {f[v] : v \in versions}
  BY <1>2 DEF Publish, Promoted, history
<1>4. ASSUME NEW v \in versions
      PROVE  /\ f[v].loc = v.loc /\ f[v].n = v.n
             /\ ~ToPromote(v) => f[v] = v
             /\ ToPromote(v) => f[v].minor = 0 /\ f[v].major = NextMajor(v.loc)
  BY <1>1, <1>2 DEF Rows
<1> HIDE DEF Promote
<1>5. \A v \in versions : f[v] \in versions'
  BY <1>3
<1>6. \A b \in versions' : \E v \in versions : b = f[v]
  BY <1>3
<1>7. \A v \in versions : v.n \in Nat /\ v.major \in Nat /\ v.minor \in Nat
  BY <1>1, NamesCount DEF Rows, Numbers
<1>8. \A v \in versions : ToPromote(v) <=> Last(v) /\ v.minor # 0
  BY LatestLast DEF ToPromote
<1>9. \A v, w \in versions : Last(v) /\ Last(w) /\ v.loc = w.loc => v = w
  BY <1>7 DEF Last, RowInv, RowsDistinct
<1>10. ASSUME NEW v \in versions, NEW w \in versions, v.loc = w.loc
       PROVE  w.major < NextMajor(v.loc) /\ NextMajor(v.loc) \in Nat
  <2>1. w \in Of(v.loc)
    BY <1>10 DEF Of
  <2>2. MaxMajor(v.loc) \in Numbers /\ w.major <= MaxMajor(v.loc)
    BY <1>1, <2>1, MaxMajorIs
  <2> QED BY <1>7, <2>2, NamesCount DEF NextMajor, Numbers
<1>11. \A v \in versions : Last(f[v])' => Last(v)
  BY <1>4, <1>5 DEF Last
<1>12. Contiguous'
  <2>1. ASSUME NEW b \in versions', b.loc \notin moved, NEW i \in 1 .. b.n
        PROVE  \E u \in versions' : u.loc = b.loc /\ u.n = i
    <3>1. PICK v \in versions : b = f[v]
      BY <1>6
    <3>2. PICK w \in versions : w.loc = v.loc /\ w.n = i
      BY <1>4, <2>1, <3>1 DEF Labelled, Contiguous
    <3> QED BY <1>4, <1>5, <3>1, <3>2
  <2> QED BY <1>3, <2>1 DEF Contiguous
<1>13. LastLabel'
  <2>1. ASSUME NEW a \in versions', NEW b \in versions', a.loc = b.loc, a.loc \notin moved,
               Last(a)', b.major = a.major
        PROVE  b.minor <= a.minor
    <3>1. PICK v \in versions, w \in versions : a = f[v] /\ b = f[w]
      BY <1>6
    <3>2. Last(v) /\ v.loc = w.loc /\ v.loc \notin moved
      BY <1>4, <1>11, <2>1, <3>1
    <3>3. CASE v = w
      <4>1. a = b /\ a.minor \in Nat
        BY <1>4, <1>7, <3>1, <3>3
      <4> QED BY <4>1
    <3>4. CASE v # w
      <4>1. ~ToPromote(w) /\ b = w
        BY <1>4, <1>8, <1>9, <3>1, <3>2, <3>4
      <4>2. ~ToPromote(v)
        BY <1>4, <1>7, <1>10, <2>1, <3>1, <3>2, <4>1
      <4>3. a = v
        BY <1>4, <3>1, <4>2
      <4> QED BY <2>1, <3>2, <4>1, <4>3 DEF Labelled, LastLabel
    <3> QED BY <3>3, <3>4
  <2> QED BY <1>3, <2>1 DEF LastLabel
<1>14. ReadersKnow'
  <2>1. ASSUME NEW s \in Slots, req[s].step \in Reading, place # "gone", req[s].loc \notin moved
        PROVE  Knows(req[s])'
    <3> DEFINE q == req[s]
    <3>1. Knows(q) /\ q.minor \in Nat
      BY <1>1, <2>1, Typed, NamesCount DEF Labelled, ReadersKnow, Requests, Numbers
    <3>2. q.n = 0 \/ \E b \in versions' : b.loc = q.loc /\ b.n = q.n
      BY <1>4, <1>5, <3>1 DEF Knows
    <3>3. ASSUME \A b \in versions' : b.loc = q.loc => b.n <= q.n,
                 NEW b \in versions', b.loc = q.loc, b.major = q.major
          PROVE  b.minor <= q.minor
      <4>1. PICK v \in versions : b = f[v]
        BY <1>6
      <4>2. \A w \in versions : w.loc = q.loc => w.n <= q.n
        BY <1>4, <1>5, <3>3
      <4>3. CASE ToPromote(v)
        BY <1>4, <3>1, <4>1, <4>3
      <4>4. CASE ~ToPromote(v)
        BY <1>4, <3>1, <3>3, <4>1, <4>2, <4>4 DEF Knows
      <4> QED BY <4>3, <4>4
    <3> QED BY <1>3, <3>2, <3>3 DEF Knows
  <2> QED BY <1>3, <2>1 DEF ReadersKnow
<1>15. Distinct'
  <2>1. ASSUME NEW a \in versions', NEW b \in versions', a.loc = b.loc, a.loc \notin moved,
               a.major = b.major, a.minor = b.minor
        PROVE  a = b
    <3>1. PICK v \in versions, w \in versions : a = f[v] /\ b = f[w]
      BY <1>6
    <3>2. v.loc = w.loc /\ v.loc \notin moved
      BY <1>4, <2>1, <3>1
    <3>3. CASE ToPromote(v) /\ ToPromote(w)
      BY <1>8, <1>9, <3>1, <3>2, <3>3
    <3>4. CASE ToPromote(v) /\ ~ToPromote(w)
      BY <1>4, <1>7, <1>10, <2>1, <3>1, <3>2, <3>4
    <3>5. CASE ~ToPromote(v) /\ ToPromote(w)
      BY <1>4, <1>7, <1>10, <2>1, <3>1, <3>2, <3>5
    <3>6. CASE ~ToPromote(v) /\ ~ToPromote(w)
      BY <1>4, <2>1, <3>1, <3>2, <3>6 DEF Labelled, Distinct
    <3> QED BY <3>3, <3>4, <3>5, <3>6
  <2> QED BY <1>3, <2>1 DEF Distinct
<1>16. LastMajor'
  <2>1. ASSUME NEW b \in versions', Last(b)' PROVE b \in Majors'
    <3>1. PICK v \in versions : b = f[v]
      BY <1>6
    <3>2. Last(v)
      BY <1>11, <2>1, <3>1
    <3>3. b.minor = 0
      BY <1>4, <1>8, <3>1, <3>2
    <3> QED BY <3>3 DEF Majors
  <2> QED BY <2>1 DEF LastMajor
<1> QED BY <1>12, <1>13, <1>14, <1>15, <1>16 DEF Labelled

\* A move concerns the languages it marks only.
LEMMA LabelMove ==
  ASSUME Labelled, NEW v \in versions, NEW loc \in Locales, versions \subseteq Rows,
         MoveVersion(v, loc)
  PROVE  Labelled'
<1> DEFINE m == [v EXCEPT !.loc = loc]
<1>1. m.loc = loc
  BY DEF Rows
<1>2. /\ UNCHANGED <<place, req, published>> /\ moved' = moved \cup {loc, v.loc}
      /\ versions' = (versions \ {v}) \cup {m}
  BY DEF MoveVersion, docVars
<1> HIDE DEF m
<1>3. \A w : w.loc \notin moved' => (w \in versions' <=> w \in versions)
  BY <1>1, <1>2
<1>4. \A w : w.loc \notin moved' => (Last(w)' <=> Last(w))
  BY <1>3 DEF Last
<1>5. \A r : r.loc \notin moved' => (Knows(r)' <=> Knows(r))
  BY <1>3 DEF Knows
<1>6. \A x : x \notin moved' => x \notin moved
  BY <1>2
<1>7. Contiguous'
  BY <1>3, <1>6 DEF Labelled, Contiguous
<1>8. LastLabel'
  BY <1>3, <1>4, <1>6 DEF Labelled, LastLabel
<1>9. ReadersKnow'
  BY <1>2, <1>5, <1>6 DEF Labelled, ReadersKnow
<1>10. Distinct'
  BY <1>3, <1>6 DEF Labelled, Distinct
<1>11. LastMajor'
  <2>1. \A w : w.loc \notin moved' => (w \in Majors' <=> w \in Majors)
    BY <1>3 DEF Majors
  <2> QED BY <1>2, <1>3, <1>4, <1>6, <2>1 DEF Labelled, LastMajor
<1> QED BY <1>7, <1>8, <1>9, <1>10, <1>11 DEF Labelled

LEMMA LabelDocument ==
  ASSUME RowInv, Labelled, DocumentNext
  PROVE  Labelled'
<1>1. TypeOK /\ versions \subseteq Rows
  BY Typed DEF RowInv
<1>2. CASE Unpublish \/ RemoveByModerator \/ RestoreFromTrash
  <2>1. /\ UNCHANGED <<versions, req, moved>> /\ published' = FALSE
        /\ place # "gone" /\ place' # "gone"
    BY <1>2 DEF Unpublish, RemoveByModerator, RestoreFromTrash, Document, history
  <2>2. (\A x : Knows(x)' <=> Knows(x)) /\ \A v : Last(v)' <=> Last(v)
    BY <2>1 DEF Knows, Last
  <2>3. Contiguous' /\ LastLabel' /\ Distinct'
    BY <2>1, <2>2 DEF Labelled, Contiguous, LastLabel, Distinct
  <2>4. ReadersKnow' /\ LastMajor'
    BY <2>1, <2>2 DEF Labelled, ReadersKnow, LastMajor
  <2> QED BY <2>3, <2>4 DEF Labelled
<1>3. ASSUME NEW s \in Slots, StartDelete(s) PROVE Labelled'
  <2> DEFINE r == [Idle EXCEPT !.step = "delete", !.files = {v.key : v \in versions}]
  <2>1. UNCHANGED <<versions, place, published, moved>> /\ Goto(s, r)
    BY <1>3 DEF StartDelete, docVars, history
  <2>2. r \in Requests /\ r.step = "delete"
    <3>1. {v.key : v \in versions} \subseteq Names
      BY <1>1 DEF Rows
    <3> QED BY <3>1, IdleIs DEF Idle, Requests, Steps
  <2> HIDE DEF r
  <2> QED BY <1>1, <2>1, <2>2, LabelQuiet DEF Reading
<1>4. ASSUME NEW s \in Slots, NEW kept \in SUBSET req[s].files, CommitDelete(s, kept)
      PROVE  Labelled'
  BY <1>4 DEF CommitDelete, Labelled, Contiguous, LastLabel, ReadersKnow, Distinct, LastMajor
<1> QED BY <1>1, <1>2, <1>3, <1>4, LabelPublish, LabelMove DEF DocumentNext

LEMMA LabelInit == Init => Labelled
BY IdleIs DEF Init, Labelled, Contiguous, LastLabel, ReadersKnow, Distinct, LastMajor, Reading

LEMMA LabelStep == RowInv /\ Labelled /\ [Next]_vars => Labelled'
<1>1. ASSUME Labelled, UNCHANGED vars PROVE Labelled'
  BY <1>1 DEF vars, Labelled, Contiguous, LastLabel, ReadersKnow, Distinct, LastMajor,
              Last, Knows, Majors
<1>2. ASSUME RowInv, Labelled, UploadNext PROVE Labelled'
  BY <1>2, LabelUpload, LabelRead, LabelCommit DEF UploadNext
<1>3. ASSUME RowInv, Labelled, RestoreNext PROVE Labelled'
  BY <1>3, LabelRead, LabelRestore DEF RestoreNext
<1>4. ASSUME RowInv, Labelled, DocumentNext PROVE Labelled'
  BY <1>4, LabelDocument
<1> QED BY <1>1, <1>2, <1>3, <1>4 DEF Next

\* In a language no version left or entered, no two versions share a label and
\* the version readers of a published document see is a major one, although an
\* upload labels its version from a row read before it locks the document and a
\* publication may renumber that row meanwhile (version-label.ts, controllers.ts).
THEOREM LabelsAlwaysSound == Spec => []LabelsSound
<1>1. Spec => []Labelled
  BY LabelInit, LabelStep, RowsKept, PTL DEF Spec
<1>2. RowInv /\ Labelled => LabelsSound
  BY LabelsSplit DEF Labelled
<1> QED BY <1>1, <1>2, RowsKept, PTL

(***************************************************************************)
(* Exactly once                                                            *)
(***************************************************************************)

Made(a) == \E v \in versions : v.request = a
MadeRows == [a \in Attempts |-> Cardinality({v \in versions : v.request = a})]

LEMMA MadeOnce ==
  ASSUME RowInv, NEW a \in Attempts
  PROVE  MadeRows[a] = IF Made(a) THEN 1 ELSE 0
<1> DEFINE S == {v \in versions : v.request = a}
<1>1. MadeRows[a] = Cardinality(S)
  BY DEF MadeRows
<1>2. CASE ~Made(a)
  <2>1. S = {}
    BY <1>2 DEF Made
  <2> QED BY <1>1, <1>2, <2>1, FS_EmptySet
<1>3. CASE Made(a)
  <2>1. PICK v \in versions : v.request = a
    BY <1>3 DEF Made
  <2>2. S = {v}
    BY <2>1 DEF RowInv, RowsDistinct, ReceiptIds
  <2> QED BY <1>1, <1>3, <2>2, FS_Singleton
<1> QED BY <1>2, <1>3

LEMMA MadeOnceNext ==
  ASSUME RowInv', NEW a \in Attempts
  PROVE  MadeRows'[a] = IF Made(a)' THEN 1 ELSE 0
<1> DEFINE S == {v \in versions' : v.request = a}
<1>1. MadeRows'[a] = Cardinality(S)
  BY DEF MadeRows
<1>2. CASE ~Made(a)'
  <2>1. S = {}
    BY <1>2 DEF Made
  <2> QED BY <1>1, <1>2, <2>1, FS_EmptySet
<1>3. CASE Made(a)'
  <2>1. PICK v \in versions' : v.request = a
    BY <1>3 DEF Made
  <2>2. S = {v}
    BY <2>1 DEF RowInv, RowsDistinct, ReceiptIds
  <2> QED BY <1>1, <1>3, <2>2, FS_Singleton
<1> QED BY <1>2, <1>3

\* The steps of the abstract specification, in terms of the rows.
LEMMA OnceStutter ==
  ASSUME RowInv, RowInv', \A a \in Attempts : Made(a)' <=> Made(a),
         confirmed' = confirmed, (place' = "gone") = (place = "gone")
  PROVE  UNCHANGED Uploads!vars
<1>1. MadeRows' = MadeRows
  <2>1. \A a \in Attempts : MadeRows'[a] = MadeRows[a]
    BY MadeOnce, MadeOnceNext
  <2> QED BY <2>1 DEF MadeRows
<1> QED BY <1>1 DEF Uploads!vars, MadeRows

LEMMA OnceStore ==
  ASSUME RowInv, RowInv', NEW a \in Attempts, ~Made(a), Made(a)',
         \A b \in Attempts \ {a} : Made(b)' <=> Made(b),
         confirmed' \in {confirmed, confirmed \cup {a}},
         place # "gone", place' # "gone"
  PROVE  Uploads!Store(a)
<1>1. MadeRows[a] = 0 /\ MadeRows'[a] = 1
  BY MadeOnce, MadeOnceNext
<1>2. \A b \in Attempts \ {a} : MadeRows'[b] = MadeRows[b]
  BY MadeOnce, MadeOnceNext
<1>3. MadeRows' = [MadeRows EXCEPT ![a] = 1]
  BY <1>1, <1>2 DEF MadeRows
<1> QED BY <1>1, <1>3 DEF Uploads!Store, MadeRows

LEMMA OnceConfirm ==
  ASSUME RowInv, RowInv', NEW a \in Attempts, Made(a),
         \A b \in Attempts : Made(b)' <=> Made(b),
         confirmed' = confirmed \cup {a}, (place' = "gone") = (place = "gone")
  PROVE  Uploads!Confirm(a)
<1>1. MadeRows[a] = 1
  BY MadeOnce
<1>2. MadeRows' = MadeRows
  <2>1. \A b \in Attempts : MadeRows'[b] = MadeRows[b]
    BY MadeOnce, MadeOnceNext
  <2> QED BY <2>1 DEF MadeRows
<1> QED BY <1>1, <1>2 DEF Uploads!Confirm, MadeRows

LEMMA OnceDiscard ==
  ASSUME RowInv, RowInv', versions' = {}, place # "gone", place' = "gone",
         confirmed' = confirmed
  PROVE  Uploads!Discard
<1>1. \A a \in Attempts : MadeRows'[a] = 0
  BY MadeOnceNext DEF Made
<1>2. MadeRows' = [a \in Attempts |-> 0]
  BY <1>1 DEF MadeRows
<1> QED BY <1>2 DEF Uploads!Discard, MadeRows

LEMMA OnceInit == Init => Uploads!Init
<1> SUFFICES ASSUME Init PROVE Uploads!Init
  OBVIOUS
<1>1. \A a \in Attempts : MadeRows[a] = 0
  BY RowInit, MadeOnce DEF Made, Init
<1>2. MadeRows = [a \in Attempts |-> 0]
  BY <1>1 DEF MadeRows
<1> QED BY <1>2 DEF Uploads!Init, MadeRows, Init

\* A transaction that adds the row of the request's attempt.
LEMMA OnceCommit ==
  ASSUME RowInv, RowInv', NEW s \in Slots,
         CommitUnacknowledged(s) \/ \E b \in BOOLEAN : CommitUpload(s, b)
  PROVE  Uploads!Next \/ UNCHANGED Uploads!vars
<1>1. req[s].att \in Attempts \cup {NoReceipt}
  BY Typed DEF RowInv, Prepared, CommitUnacknowledged, CommitUpload, At
<1> DEFINE v == NewVersion(req[s])
<1>2. place' = place
  BY DEF CommitUnacknowledged, CommitUpload
<1>3. CASE versions' = versions /\ confirmed' = confirmed
  <2>1. \A a \in Attempts : Made(a)' <=> Made(a)
    BY <1>3 DEF Made
  <2> QED BY <1>2, <1>3, <2>1, OnceStutter
<1>4. CASE /\ versions' = versions \cup {v} /\ place # "gone" /\ Insertable(v)
           /\ confirmed' \in {confirmed, confirmed \cup ({req[s].att} \cap Attempts)}
  <2>1. v.request = req[s].att /\ (req[s].att \in Attempts => v.id = req[s].att)
    BY HistoryAssumption DEF NewVersion, VersionId
  <2> HIDE DEF v
  <2>2. \A a : Made(a)' <=> Made(a) \/ a = req[s].att
    BY <1>4, <2>1 DEF Made
  <2>3. CASE req[s].att = NoReceipt
    <3>1. \A a \in Attempts : Made(a)' <=> Made(a)
      BY <2>2, <2>3, HistoryAssumption
    <3>2. confirmed' = confirmed
      BY <1>4, <2>3, HistoryAssumption
    <3> QED BY <1>2, <3>1, <3>2, OnceStutter
  <2>4. CASE req[s].att \in Attempts
    <3>1. ~Made(req[s].att)
      BY <1>4, <2>1, <2>4 DEF Made, Insertable, RowInv, ReceiptIds
    <3>2. Uploads!Store(req[s].att)
      BY <1>2, <1>4, <2>2, <2>4, <3>1, OnceStore
    <3> QED BY <2>4, <3>2 DEF Uploads!Next
  <2> QED BY <1>1, <2>3, <2>4
<1>5. \/ versions' = versions /\ confirmed' = confirmed
      \/ /\ versions' = versions \cup {v} /\ place # "gone" /\ Insertable(v)
         /\ confirmed' \in {confirmed, confirmed \cup ({req[s].att} \cap Attempts)}
  BY DEF CommitUnacknowledged, CommitUpload, history
<1> HIDE DEF v
<1> QED BY <1>3, <1>4, <1>5

LEMMA OnceUpload ==
  ASSUME RowInv, RowInv', NEW s \in Slots,
         \/ \E a \in Attempts \cup {NoReceipt} : StartUpload(s, a)
         \/ PutObject(s) \/ ReadLatest(s) \/ AbortUpload(s) \/ Crash(s)
         \/ \E b \in BOOLEAN : Cleanup(s, b)
  PROVE  Uploads!Next \/ UNCHANGED Uploads!vars
<1>1. TypeOK
  BY DEF RowInv
<1>2. UNCHANGED <<versions, place>>
  BY DEF StartUpload, PutObject, ReadLatest, AbortUpload, Crash, Cleanup, docVars
<1>3. \A a \in Attempts : Made(a)' <=> Made(a)
  BY <1>2 DEF Made
<1>4. ASSUME NEW a, Receipt(a) # {}, a \in Attempts \cup {NoReceipt} PROVE a \in Attempts /\ Made(a)
  BY <1>1, <1>4, HistoryAssumption, Typed DEF Receipt, Rows, Made, RowInv, ReceiptIds
<1>5. \/ confirmed' = confirmed
      \/ \E a \in Attempts : Made(a) /\ confirmed' = confirmed \cup {a}
  <2>1. ASSUME NEW a \in Attempts \cup {NoReceipt}, StartUpload(s, a)
        PROVE  confirmed' = confirmed \/ (Receipt(a) # {} /\ confirmed' = confirmed \cup {a})
    BY <2>1 DEF StartUpload
  <2>2. ASSUME NEW b \in BOOLEAN, Cleanup(s, b)
        PROVE  /\ req[s].att \in Attempts \cup {NoReceipt}
               /\ \/ confirmed' = confirmed
                  \/ Receipt(req[s].att) # {} /\ confirmed' = confirmed \cup {req[s].att}
    BY <2>2 DEF Cleanup, At, RowInv, Prepared
  <2>3. PutObject(s) \/ ReadLatest(s) \/ AbortUpload(s) \/ Crash(s) => confirmed' = confirmed
    BY DEF PutObject, ReadLatest, AbortUpload, Crash, history
  <2> QED BY <1>4, <2>1, <2>2, <2>3
<1> QED BY <1>2, <1>3, <1>5, OnceStutter, OnceConfirm DEF Uploads!Next

LEMMA OnceDocument ==
  ASSUME RowInv, RowInv', RestoreNext \/ DocumentNext
  PROVE  Uploads!Next \/ UNCHANGED Uploads!vars
<1>1. TypeOK /\ versions \subseteq Rows
  BY Typed DEF RowInv
<1>2. CASE RestoreNext
  <2>1. PICK s \in Slots :
          \/ \E v \in versions : StartRestore(s, v)
          \/ ReadRestore(s) \/ CommitRestore(s)
    BY <1>2 DEF RestoreNext
  <2>2. confirmed' = confirmed /\ place' = place
    BY <2>1 DEF StartRestore, ReadRestore, CommitRestore, docVars, history
  <2>3. versions' = versions \/ \E v : versions' = versions \cup {v} /\ v.request = None
    <3>1. CASE ~CommitRestore(s)
      BY <2>1, <3>1 DEF StartRestore, ReadRestore
    <3>2. CASE CommitRestore(s)
      <4> DEFINE v(id) == [id |-> id, request |-> None, loc |-> req[s].loc, n |-> req[s].n + 1,
                           major |-> req[s].major, minor |-> req[s].minor + 1,
                           key |-> req[s].key]
      <4>1. versions' = versions \/ \E id \in Fresh : versions' = versions \cup {v(id)}
        BY <3>2 DEF CommitRestore
      <4>2. \A id : v(id).request = None
        OBVIOUS
      <4> HIDE DEF v
      <4> QED BY <4>1, <4>2
    <3> QED BY <3>1, <3>2
  <2>4. \A a \in Attempts : Made(a)' <=> Made(a)
    BY <2>3, HistoryAssumption DEF Made
  <2> QED BY <2>2, <2>4, OnceStutter
<1>3. CASE Publish
  <2>1. confirmed' = confirmed /\ place' = place /\ versions' = Promoted
    BY <1>3 DEF Publish, history
  <2> DEFINE Promote(v) == IF ToPromote(v)
                             THEN [v EXCEPT !.major = NextMajor(v.loc), !.minor = 0] ELSE v
  <2>2. versions' = {Promote(v) : v \in versions}
    BY <2>1 DEF Promoted
  <2>3. ASSUME NEW v \in versions PROVE Promote(v).request = v.request
    BY <1>1 DEF Rows
  <2> HIDE DEF Promote
  <2>4. \A a \in Attempts : Made(a)' <=> Made(a)
    BY <2>2, <2>3 DEF Made
  <2> QED BY <2>1, <2>4, OnceStutter
<1>4. ASSUME NEW v \in versions, NEW loc \in Locales, MoveVersion(v, loc)
      PROVE  UNCHANGED Uploads!vars
  <2> DEFINE m == [v EXCEPT !.loc = loc]
  <2>1. confirmed' = confirmed /\ place' = place /\ versions' = (versions \ {v}) \cup {m}
    BY <1>4 DEF MoveVersion, docVars
  <2>2. m.request = v.request
    BY <1>1 DEF Rows
  <2> HIDE DEF m
  <2>3. \A a \in Attempts : Made(a)' <=> Made(a)
    BY <2>1, <2>2 DEF Made
  <2> QED BY <2>1, <2>3, OnceStutter
<1>5. CASE Unpublish \/ RemoveByModerator \/ RestoreFromTrash
  <2>1. /\ confirmed' = confirmed /\ versions' = versions
        /\ place # "gone" /\ place' # "gone"
    BY <1>5 DEF Unpublish, RemoveByModerator, RestoreFromTrash, Document, history
  <2>2. \A a \in Attempts : Made(a)' <=> Made(a)
    BY <2>1 DEF Made
  <2> QED BY <2>1, <2>2, OnceStutter
<1>6. ASSUME NEW s \in Slots, StartDelete(s) PROVE UNCHANGED Uploads!vars
  <2>1. confirmed' = confirmed /\ versions' = versions /\ place' = place
    BY <1>6 DEF StartDelete, docVars, history
  <2>2. \A a \in Attempts : Made(a)' <=> Made(a)
    BY <2>1 DEF Made
  <2> QED BY <2>1, <2>2, OnceStutter
<1>7. ASSUME NEW s \in Slots, NEW kept \in SUBSET req[s].files, CommitDelete(s, kept)
      PROVE  Uploads!Discard
  BY <1>7, OnceDiscard DEF CommitDelete
<1> QED BY <1>2, <1>3, <1>4, <1>5, <1>6, <1>7 DEF DocumentNext, Uploads!Next

LEMMA OnceStep == RowInv /\ RowInv' /\ [Next]_vars => [Uploads!Next]_Uploads!vars
<1>1. ASSUME UNCHANGED vars PROVE UNCHANGED Uploads!vars
  BY <1>1 DEF vars, Uploads!vars
<1>2. ASSUME RowInv, RowInv', UploadNext PROVE Uploads!Next \/ UNCHANGED Uploads!vars
  BY <1>2, OnceUpload, OnceCommit DEF UploadNext
<1> QED BY <1>1, <1>2, OnceDocument DEF Next

\* The two upload handlers implement exactly-once uploads: whatever is retried,
\* duplicated, lost or crashed, an uploadRequestId makes at most one version and
\* is only confirmed once that version exists (upload-receipt.ts).
THEOREM UploadsExactlyOnce == Spec => ExactlyOnce
<1>1. RowInv /\ RowInv' /\ [Next]_vars => [Uploads!Next]_Uploads!vars
  BY OnceStep
<1> QED BY <1>1, OnceInit, RowsKept, PTL DEF Spec, ExactlyOnce, Uploads!Spec

=============================================================================
