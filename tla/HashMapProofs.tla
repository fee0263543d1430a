--------------------------- MODULE HashMapProofs ---------------------------
(***************************************************************************)
(* For tables of any size, keys with any hashes, and any sequence of       *)
(* calls: the counters and the list agree with the table, a probe ends,    *)
(* and it ends at the bucket of its key; and the table is an OrderedMap.   *)
(***************************************************************************)
EXTENDS HashMap, FiniteSetTheorems, FunctionTheorems,
        SequenceTheorems, BasicLemmas

SameKey(x, y) == Content[x.key] = Content[y.key]

TableTyped ==
  /\ capacity \in Nat /\ capacity >= 2
  /\ buckets \in [Index -> Bucket]
  /\ count \in Nat /\ tombstone_count \in Nat
  /\ order \in Seq(Index) /\ pending \in Seq(Bucket)

\* A bucket without a key was never used or is a tombstone.
Shape == \A i \in Index : Live(buckets[i]) \/ buckets[i] \in {Empty, Dead}

\* No key is stored twice, in the table and what a resize has still to move.
Distinct ==
  /\ \A i, j \in Index :
       Live(buckets[i]) /\ Live(buckets[j]) /\ SameKey(buckets[i], buckets[j]) => i = j
  /\ \A m, n \in PendingLive : SameKey(pending[m], pending[n]) => m = n
  /\ \A n \in PendingLive, i \in Index :
       Live(buckets[i]) => ~SameKey(pending[n], buckets[i])

\* The bucket that a probe for the hash h meets after d others, and that none
\* of those before i was never used.
Place(h, d) == (h + d) % capacity
OnPath(h, i) == \E d \in Index : /\ i = Place(h, d)
                                 /\ \A e \in 0 .. d - 1 : ~Vacant(buckets[Place(h, e)])

\* LiveReachable says where a probe ends; inductive is why it does.
Reachable == \A i \in Index : Live(buckets[i]) => OnPath(Hash[Content[buckets[i].key]], i)

TableOK == /\ TableTyped /\ Shape /\ Distinct /\ Reachable
           /\ CountsMatch /\ ListCoversTable
           /\ 4 * count <= 3 * capacity

\* A resize has room for what it moves and for the element about to be added,
\* and meets no tombstone in the new table.
CallOK ==
  /\ pc \in {"idle", "resize", "apply"}
  /\ IF pc = "idle" THEN call = NoCall ELSE call \in Calls
  /\ pc # "resize" => pending = <<>>
  /\ pc = "resize" => call.op \in Setters /\ \A i \in Index : buckets[i] # Dead
  /\ pc # "idle" /\ call.op \in Setters => ~Overloaded

IInv == TableOK /\ CallOK

-----------------------------------------------------------------------------
(* Probing *)

LEMMA PlaceType ==
  ASSUME TableTyped, NEW h \in Nat, NEW d \in Nat
  PROVE  Place(h, d) \in Index
<1>1. h + d \in Int /\ capacity \in Nat \ {0}
  BY DEF TableTyped
<1> QED BY <1>1, Division, Zenon DEF Place, Index

\* FirstFrom is where the walk first meets S, when it does.
LEMMA FirstIs ==
  ASSUME TableTyped, NEW h \in Nat, NEW S, NEW d \in Index,
         Place(h, d) \in S, \A e \in 0 .. d - 1 : Place(h, e) \notin S
  PROVE  FirstFrom(h, S) = Place(h, d)
<1> DEFINE P(x) == Place(h, x) \in S /\ \A e \in 0 .. x - 1 : Place(h, e) \notin S
           c == CHOOSE x \in Index : P(x)
<1>1. c \in Index /\ P(c)
  OBVIOUS
<1>2. c = d
  <2>1. \A x, y \in Index : P(x) /\ P(y) => ~(x < y)
    BY DEF TableTyped, Index
  <2> HIDE DEF c
  <2>2. ~(c < d) /\ ~(d < c)
    BY <1>1, <2>1
  <2> QED BY <1>1, <2>2 DEF TableTyped, Index
<1>3. FirstFrom(h, S) = Place(h, c)
  BY DEF FirstFrom, Place
<1> QED BY <1>2, <1>3

\* It meets every set of buckets.
LEMMA FirstExists ==
  ASSUME TableTyped, NEW h \in Nat, NEW S \in SUBSET Index, S # {}
  PROVE  \E d \in Index : /\ FirstFrom(h, S) = Place(h, d) /\ Place(h, d) \in S
                          /\ \A e \in 0 .. d - 1 : Place(h, e) \notin S
<1> DEFINE T == {d \in Index : Place(h, d) \in S}
<1>1. capacity \in Nat \ {0}
  BY DEF TableTyped
<1>2. PICK i \in Index : i \in S
  OBVIOUS
<1>3. PICK d \in Index : Place(h, d) = i
  BY <1>1, <1>2, Around DEF Place, Index
<1>4. T # {} /\ T \in SUBSET Nat
  BY <1>1, <1>2, <1>3 DEF Index
<1> HIDE DEF T
<1>5. PICK m \in T : \A k \in T : m <= k
  BY <1>4, Least
<1>6. m \in Index /\ Place(h, m) \in S
  BY <1>5 DEF T
<1>7. \A e \in 0 .. m - 1 : e \in Index /\ ~(m <= e)
  BY <1>1, <1>6 DEF Index
<1>8. \A e \in 0 .. m - 1 : Place(h, e) \notin S
  BY <1>5, <1>7 DEF T
<1>9. FirstFrom(h, S) = Place(h, m)
  BY <1>6, <1>8, FirstIs
<1> QED BY <1>6, <1>8, <1>9

\* The hash of a key that can be asked for, or that is stored.
LEMMA KeyHash ==
  ASSUME NEW p \in Ptr
  PROVE  Hash[Content[p]] \in Nat
BY HashAssumption

\* A probe for the key of a live bucket ends there: before it there is nothing
\* vacant and no other bucket with that key.
LEMMA ProbeFinds ==
  ASSUME TableOK, NEW i \in Index, NEW p \in Ptr, Live(buckets[i]),
         Content[p] = Content[buckets[i].key]
  PROVE  FindEntry(Content[p]) = i
<1> DEFINE k == Content[p]
           h == Hash[k]
<1>1. TableTyped /\ h \in Nat
  BY KeyHash DEF TableOK
<1>2. PICK d \in Index : /\ i = Place(h, d)
                         /\ \A e \in 0 .. d - 1 : ~Vacant(buckets[Place(h, e)])
  BY DEF TableOK, Reachable, OnPath
<1>3. Place(h, d) \in Stops(k)
  BY <1>2 DEF Stops
<1>4. ASSUME NEW e \in 0 .. d - 1 PROVE Place(h, e) \notin Stops(k)
  <2>1. e \in Index /\ e # d /\ d \in Nat
    BY <1>1 DEF TableTyped, Index
  <2>2. Place(h, e) # i
    <3> SUFFICES ASSUME Place(h, e) = i PROVE FALSE
      OBVIOUS
    <3>1. capacity \in Nat \ {0} /\ e \in 0 .. capacity - 1 /\ d \in 0 .. capacity - 1
      BY <1>1, <2>1 DEF TableTyped, Index
    <3> HIDE DEF h
    <3>2. Place(h, d) = Place(h, e)
      BY <1>2
    <3>3. (h + d) % capacity = (h + e) % capacity /\ h \in Nat
      BY <1>1, <3>2, Zenon DEF Place
    <3>4. d = e
      BY <3>1, <3>3, OnlyOnce, Zenon
    <3> QED BY <2>1, <3>4
  <2>3. ~Vacant(buckets[Place(h, e)])
    BY <1>2
  <2>4. ~(Live(buckets[Place(h, e)]) /\ Content[buckets[Place(h, e)].key] = k) \/ Place(h, e) \notin Index
    BY <2>2 DEF TableOK, Distinct, SameKey
  <2> QED BY <2>3, <2>4 DEF Stops
<1>5. FirstFrom(h, Stops(k)) = Place(h, d)
  BY <1>1, <1>3, <1>4, FirstIs
<1> QED BY <1>2, <1>5 DEF FindEntry

\* A probe that ends at a bucket without a key says that no live bucket has the
\* key, and the bucket it ends at is vacant, with nothing vacant before it.
LEMMA ProbeMisses ==
  ASSUME TableOK, NEW p \in Ptr, Stops(Content[p]) # {}
  PROVE  /\ FindEntry(Content[p]) \in Index
         /\ IF Live(buckets[FindEntry(Content[p])])
            THEN Content[buckets[FindEntry(Content[p])].key] = Content[p]
            ELSE /\ Vacant(buckets[FindEntry(Content[p])])
                 /\ OnPath(Hash[Content[p]], FindEntry(Content[p]))
                 /\ \A i \in Index : Live(buckets[i]) => Content[buckets[i].key] # Content[p]
<1> DEFINE k == Content[p]
           h == Hash[k]
           t == FindEntry(k)
<1>1. TableTyped /\ h \in Nat /\ Stops(k) \in SUBSET Index
  BY KeyHash DEF TableOK, Stops
<1>2. PICK d \in Index : /\ t = Place(h, d) /\ t \in Stops(k)
                         /\ \A e \in 0 .. d - 1 : Place(h, e) \notin Stops(k)
  <2> HIDE DEF h, k
  <2> QED BY <1>1, FirstExists DEF FindEntry, k, h
<1>3. t \in Index /\ (Vacant(buckets[t]) \/ (Live(buckets[t]) /\ Content[buckets[t].key] = k))
  BY <1>2 DEF Stops
<1>4. ASSUME NEW e \in 0 .. d - 1 PROVE ~Vacant(buckets[Place(h, e)])
  <2>1. Place(h, e) \in Index
    BY <1>1, PlaceType
  <2> QED BY <1>2, <2>1 DEF Stops
<1>5. OnPath(h, t)
  BY <1>2, <1>4 DEF OnPath
<1>6. ASSUME ~Live(buckets[t]), NEW i \in Index, Live(buckets[i]) PROVE Content[buckets[i].key] # k
  BY <1>6, ProbeFinds
<1> QED BY <1>3, <1>5, <1>6 DEF Live, Vacant

-----------------------------------------------------------------------------
(* Counting *)

LEMMA SameSize ==
  ASSUME NEW S, NEW T, IsFiniteSet(T), NEW f \in [S -> T],
         \A x, y \in S : f[x] = f[y] => x = y, \A t \in T : \E x \in S : f[x] = t
  PROVE  Cardinality(S) = Cardinality(T)
<1>1. f \in Injection(S, T) /\ f \in Surjection(S, T)
  BY Fun_IsInj, Fun_IsSurj
<1> QED BY <1>1, FS_Injection

DeadIndex == {i \in Index : buckets[i] = Dead}
LiveIndex == {i \in Index : Live(buckets[i])}

LEMMA Counted ==
  ASSUME TableTyped
  PROVE  /\ IsFiniteSet(Index) /\ Cardinality(Index) = capacity
         /\ IsFiniteSet(Used) /\ Cardinality(Used) \in Nat
         /\ IsFiniteSet(DeadIndex) /\ Cardinality(DeadIndex) \in Nat
         /\ IsFiniteSet(LiveIndex) /\ Cardinality(LiveIndex) \in Nat
         /\ IsFiniteSet(PendingLive) /\ Cardinality(PendingLive) \in Nat
<1>1. IsFiniteSet(Index) /\ Cardinality(Index) = capacity
  <2>1. capacity - 1 \in Int /\ 0 \in Int /\ ~(0 > capacity - 1) /\ (capacity - 1) - 0 + 1 = capacity
    BY DEF TableTyped
  <2> QED BY <2>1, FS_Interval DEF Index
<1>2. IsFiniteSet(DOMAIN pending)
  <2>1. DOMAIN pending = 1 .. Len(pending) /\ Len(pending) \in Int /\ 1 \in Int
    BY LenProperties DEF TableTyped
  <2> QED BY <2>1, FS_Interval
<1>3. /\ Used \in SUBSET Index /\ DeadIndex \in SUBSET Index /\ LiveIndex \in SUBSET Index
      /\ PendingLive \in SUBSET DOMAIN pending
  BY DEF Used, DeadIndex, LiveIndex, PendingLive
<1>4. /\ IsFiniteSet(Used) /\ IsFiniteSet(DeadIndex) /\ IsFiniteSet(LiveIndex)
      /\ IsFiniteSet(PendingLive)
  BY <1>1, <1>2, <1>3, FS_Subset
<1> QED BY <1>1, <1>4, FS_CardinalityType

\* Used buckets are live or dead, so the counters tell how many live there are.
LEMMA LiveAndDead ==
  ASSUME TableTyped, Shape
  PROVE  Cardinality(Used) = Cardinality(LiveIndex) + Cardinality(DeadIndex)
<1>1. Used = LiveIndex \cup DeadIndex /\ LiveIndex \cap DeadIndex = {}
  BY ValueAssumption, KeysAssumption
  DEF Shape, Used, LiveIndex, DeadIndex, Vacant, Live, Dead, Empty
<1>2. Cardinality(Used) = Cardinality(LiveIndex) + Cardinality(DeadIndex) - Cardinality(LiveIndex \cap DeadIndex)
  BY <1>1, Counted, FS_Union
<1>3. Cardinality(LiveIndex \cap DeadIndex) = 0
  BY <1>1, FS_EmptySet
<1>4. Cardinality(LiveIndex) \in Nat /\ Cardinality(DeadIndex) \in Nat
  BY Counted
<1> QED BY <1>2, <1>3, <1>4

\* At most three quarters of the buckets are in use, so one is vacant.
LEMMA SomeVacant ==
  ASSUME TableTyped, CountsMatch, 4 * count <= 3 * capacity
  PROVE  ProbesTerminate
<1>1. Cardinality(Used) < capacity
  BY Counted DEF CountsMatch, TableTyped
<1>2. Used # Index
  BY <1>1, Counted DEF TableTyped
<1> QED BY <1>2 DEF Used, ProbesTerminate

\* The tail of the pending buckets.
LEMMA PendingTail ==
  ASSUME TableTyped, pending # <<>>, pending' = Tail(pending)
  PROVE  /\ Head(pending) = pending[1] /\ 1 \in DOMAIN pending
         /\ pending' \in Seq(Bucket)
         /\ \A n \in PendingLive' : n + 1 \in PendingLive /\ pending'[n] = pending[n + 1] /\ n \in Nat \ {0}
         /\ Cardinality(PendingLive') =
              Cardinality(PendingLive) - (IF Live(pending[1]) THEN 1 ELSE 0)
<1>1. /\ pending \in Seq(Bucket) /\ Len(pending) \in Nat \ {0}
      /\ DOMAIN pending = 1 .. Len(pending) /\ Head(pending) = pending[1]
  BY LenProperties, EmptySeq DEF TableTyped
<1>2. /\ pending' \in Seq(Bucket) /\ Len(pending') = Len(pending) - 1
      /\ \A n \in 1 .. Len(pending') : pending'[n] = pending[n + 1]
  BY <1>1, HeadTailProperties
<1>3. DOMAIN pending' = 1 .. Len(pending) - 1
  BY <1>2, LenProperties
<1>4. \A n : n \in PendingLive' <=> n \in Nat \ {0} /\ n + 1 \in PendingLive
  BY <1>1, <1>2, <1>3 DEF PendingLive
<1> DEFINE f == [n \in PendingLive' |-> n + 1]
           T == PendingLive \ {1}
<1>5. \A n \in PendingLive' : n + 1 \in T /\ n \in Nat
  BY <1>4
<1>6. ASSUME NEW m \in T PROVE \E n \in PendingLive' : f[n] = m
  <2>1. m \in Nat /\ m > 1
    BY <1>1 DEF PendingLive
  <2>2. m - 1 \in Nat \ {0} /\ (m - 1) + 1 = m
    BY <2>1
  <2>3. m - 1 \in PendingLive'
    BY <1>4, <2>2
  <2> QED BY <2>2, <2>3
<1>7. Cardinality(PendingLive') = Cardinality(T)
  <2>1. f \in [PendingLive' -> T] /\ \A m, n \in PendingLive' : f[m] = f[n] => m = n
    BY <1>5
  <2>2. IsFiniteSet(T)
    BY Counted, FS_RemoveElement
  <2> HIDE DEF f, T
  <2> QED BY <1>6, <2>1, <2>2, SameSize
<1>8. 1 \in PendingLive <=> Live(pending[1])
  BY <1>1 DEF PendingLive
<1>9. Cardinality(T) = Cardinality(PendingLive) - (IF 1 \in PendingLive THEN 1 ELSE 0)
  <2>1. Cardinality(T) = IF 1 \in PendingLive THEN Cardinality(PendingLive) - 1
                         ELSE Cardinality(PendingLive)
    BY Counted, FS_RemoveElement
  <2>2. Cardinality(PendingLive) \in Nat
    BY Counted
  <2> QED BY <2>1, <2>2
<1>10. \A n \in PendingLive' : n + 1 \in PendingLive /\ pending'[n] = pending[n + 1] /\ n \in Nat \ {0}
  BY <1>1, <1>2, <1>3, <1>4 DEF PendingLive
<1>11. Cardinality(PendingLive') = Cardinality(PendingLive) - (IF Live(pending[1]) THEN 1 ELSE 0)
  BY <1>7, <1>8, <1>9, Zenon
<1>12. 1 \in DOMAIN pending
  BY <1>1
<1> QED BY <1>1, <1>2, <1>10, <1>11, <1>12, Zenon

-----------------------------------------------------------------------------
(* What the operations do to the table *)

LEMMA Kept == TableOK /\ UNCHANGED <<table, pending>> => TableOK'
BY DEF TableOK, TableTyped, Shape, Distinct, Reachable, OnPath, Place, CountsMatch,
       ListCoversTable, Index, Used, PendingLive, table

\* What is in use stays in use, so a bucket on the path of its key stays there.
LEMMA StillReachable ==
  ASSUME TableTyped, Reachable, capacity' = capacity, buckets' \in [Index -> Bucket],
         \A j \in Index : Vacant(buckets'[j]) => Vacant(buckets[j]),
         \A j \in Index : Live(buckets'[j]) =>
           \/ Live(buckets[j]) /\ Content[buckets'[j].key] = Content[buckets[j].key]
           \/ OnPath(Hash[Content[buckets'[j].key]], j)
  PROVE  Reachable'
<1>1. Index' = Index
  BY DEF Index
<1>2. ASSUME NEW j \in Index, NEW p \in Ptr, Live(buckets'[j]), p = buckets'[j].key
      PROVE  \E d \in Index : /\ j = (Hash[Content[p]] + d) % capacity
                              /\ \A e \in 0 .. d - 1 :
                                   ~Vacant(buckets'[(Hash[Content[p]] + e) % capacity])
  <2> DEFINE h == Hash[Content[p]]
  <2>1. OnPath(h, j)
    BY <1>2 DEF Reachable
  <2>2. PICK d \in Index : j = Place(h, d) /\ \A e \in 0 .. d - 1 : ~Vacant(buckets[Place(h, e)])
    BY <2>1 DEF OnPath
  <2>3. h \in Nat
    BY KeyHash
  <2> HIDE DEF h
  <2>4. \A e \in 0 .. d - 1 : Place(h, e) \in Index
    BY <2>3, PlaceType
  <2>5. \A e \in 0 .. d - 1 : ~Vacant(buckets'[Place(h, e)])
    BY <2>2, <2>4
  <2> QED BY <2>2, <2>5 DEF Place, h
<1>3. ASSUME NEW j \in Index, Live(buckets'[j]) PROVE buckets'[j].key \in Ptr
  BY <1>3 DEF Live, Bucket
<1> QED BY <1>1, <1>2, <1>3 DEF Reachable, OnPath, Place

\* A live bucket gets another value or another pointer to its key.
LEMMA Rewritten ==
  ASSUME TableOK, NEW i \in Index, NEW b \in Bucket, Live(buckets[i]), Live(b),
         SameKey(b, buckets[i]), buckets' = [buckets EXCEPT ![i] = b],
         UNCHANGED <<capacity, count, tombstone_count, order, pending>>
  PROVE  TableOK'
<1>1. TableTyped /\ Index' = Index 
  BY DEF TableOK, Index
<1>2. TableTyped'
  BY <1>1 DEF TableTyped
<1>3. \A j \in Index : /\ Live(buckets'[j]) <=> Live(buckets[j])
                       /\ Live(buckets[j]) => Content[buckets'[j].key] = Content[buckets[j].key]
                       /\ Vacant(buckets'[j]) <=> Vacant(buckets[j])
                       /\ buckets'[j] = Dead <=> buckets[j] = Dead
                       /\ ~Live(buckets[j]) => buckets'[j] = buckets[j]
  BY <1>1 DEF TableTyped, Live, Vacant, Dead, SameKey
<1>4. Shape'
  BY <1>1, <1>3 DEF TableOK, Shape
<1>5. Distinct'
  BY <1>1, <1>3 DEF TableOK, Distinct, SameKey, PendingLive
<1>6. Used' = Used /\ {j \in Index' : buckets'[j] = Dead} = {j \in Index : buckets[j] = Dead}
  BY <1>1, <1>3 DEF Used
<1>7. PendingLive' = PendingLive
  BY DEF PendingLive
<1>8. CountsMatch' /\ ListCoversTable'
  BY <1>1, <1>6, <1>7 DEF TableOK, CountsMatch, ListCoversTable
<1>9. buckets' \in [Index -> Bucket]
  BY <1>1 DEF TableTyped
<1>10. Reachable'
  BY <1>1, <1>3, <1>9, StillReachable DEF TableOK
<1> QED BY <1>2, <1>4, <1>5, <1>8, <1>10 DEF TableOK

\* A live bucket becomes a tombstone.
LEMMA Buried ==
  ASSUME TableOK, NEW i \in Index, Live(buckets[i]), buckets' = [buckets EXCEPT ![i] = Dead],
         tombstone_count' = tombstone_count + 1,
         UNCHANGED <<capacity, count, order, pending>>
  PROVE  TableOK'
<1>1. TableTyped /\ Index' = Index
  BY DEF TableOK, Index
<1>2. ~Live(Dead) /\ ~Vacant(Dead) /\ Dead \in Bucket
  BY ValueAssumption DEF Live, Vacant, Dead, Bucket
<1>3. TableTyped'
  BY <1>1, <1>2 DEF TableTyped
<1>4. \A j \in Index : /\ j # i => buckets'[j] = buckets[j]
                       /\ Vacant(buckets'[j]) <=> Vacant(buckets[j])
                       /\ buckets'[i] = Dead /\ buckets[i] # Dead
  BY <1>1, <1>2 DEF TableTyped, Live, Vacant, Dead
<1>5. Shape'
  BY <1>1, <1>4 DEF TableOK, Shape
<1>6. Distinct'
  BY <1>1, <1>2, <1>4 DEF TableOK, Distinct, SameKey, PendingLive
<1>7. Used' = Used /\ PendingLive' = PendingLive
  BY <1>1, <1>4 DEF Used, PendingLive
<1>8. DeadIndex' = DeadIndex \cup {i} /\ i \notin DeadIndex
  BY <1>1, <1>4 DEF DeadIndex
<1>9. Cardinality(DeadIndex') = Cardinality(DeadIndex) + 1
  BY <1>1, <1>8, Counted, FS_AddElement
<1>10. CountsMatch' /\ ListCoversTable'
  BY <1>1, <1>7, <1>9 DEF TableOK, CountsMatch, ListCoversTable, DeadIndex
<1>11. buckets' \in [Index -> Bucket]
  BY <1>1, <1>2 DEF TableTyped
<1>12. Reachable'
  BY <1>1, <1>2, <1>4, <1>11, StillReachable DEF TableOK
<1> QED BY <1>3, <1>5, <1>6, <1>10, <1>12 DEF TableOK

\* An element gets the vacant bucket that its probe led to, and is linked last.
LEMMA Placed ==
  ASSUME TableTyped, Shape, Reachable, ListCoversTable,
         NEW i \in Index, Vacant(buckets[i]), NEW b \in Bucket, Live(b),
         OnPath(Hash[Content[b.key]], i),
         buckets' = [buckets EXCEPT ![i] = b], order' = Append(order, i),
         capacity' = capacity
  PROVE  /\ buckets' \in [Index -> Bucket] /\ order' \in Seq(Index) /\ Index' = Index
         /\ \A j \in Index : buckets'[j] = IF j = i THEN b ELSE buckets[j]
         /\ Shape' /\ Reachable' /\ ListCoversTable'
         /\ Cardinality(Used') = Cardinality(Used) + 1
         /\ DeadIndex' = DeadIndex
<1>1. Index' = Index /\ buckets \in [Index -> Bucket] /\ order \in Seq(Index)
  BY DEF Index, TableTyped
<1>2. /\ buckets' \in [Index -> Bucket]
      /\ \A j \in Index : buckets'[j] = IF j = i THEN b ELSE buckets[j]
  BY <1>1
<1>3. ~Vacant(b) /\ b # Dead /\ buckets[i] # Dead
  BY ValueAssumption DEF Live, Vacant, Dead
<1>4. Shape'
  BY <1>1, <1>2 DEF Shape
<1>5. \A j \in Index : Vacant(buckets'[j]) => Vacant(buckets[j])
  BY <1>2, <1>3
<1>6. \A j \in Index : Live(buckets'[j]) =>
           \/ Live(buckets[j]) /\ Content[buckets'[j].key] = Content[buckets[j].key]
           \/ OnPath(Hash[Content[buckets'[j].key]], j)
  BY <1>2
<1>7. Reachable'
  BY <1>2, <1>5, <1>6, StillReachable
<1>8. Used' = Used \cup {i} /\ i \notin Used /\ DeadIndex' = DeadIndex
  BY <1>1, <1>2, <1>3 DEF Used, DeadIndex
<1>9. Cardinality(Used') = Cardinality(Used) + 1
  BY <1>8, Counted, FS_AddElement
<1>10. /\ order' \in Seq(Index) /\ Len(order') = Len(order) + 1 /\ Len(order) \in Nat
       /\ \A n \in 1 .. Len(order) : order'[n] = order[n]
       /\ order'[Len(order) + 1] = i
       /\ DOMAIN order = 1 .. Len(order) /\ DOMAIN order' = 1 .. Len(order) + 1
  <2>1. Len(order) \in Nat /\ DOMAIN order = 1 .. Len(order)
    BY <1>1, LenProperties
  <2>2. /\ order' \in Seq(Index) /\ Len(order') = Len(order) + 1
        /\ \A n \in 1 .. Len(order) : order'[n] = order[n]
        /\ order'[Len(order) + 1] = i
    BY <1>1, AppendProperties
  <2>3. DOMAIN order' = 1 .. Len(order')
    BY <2>2, LenProperties
  <2> QED BY <2>1, <2>2, <2>3
<1>11. {order'[n] : n \in DOMAIN order'} = {order[n] : n \in DOMAIN order} \cup {i}
  BY <1>10
<1>12. \A n \in DOMAIN order : order[n] # i
  BY <1>8 DEF ListCoversTable
<1>13. \A m, n \in DOMAIN order' : order'[m] = order'[n] => m = n
  BY <1>10, <1>12 DEF ListCoversTable
<1>14. ListCoversTable'
  BY <1>8, <1>11, <1>13 DEF ListCoversTable
<1> QED BY <1>1, <1>2, <1>4, <1>7, <1>8, <1>9, <1>10, <1>14

\* The insertion of a key that the table does not have.
LEMMA Inserted ==
  ASSUME TableOK, ~Overloaded, pending = <<>>, NEW i \in Index, Vacant(buckets[i]),
         NEW b \in Bucket, Live(b), OnPath(Hash[Content[b.key]], i),
         \A j \in Index : Live(buckets[j]) => Content[buckets[j].key] # Content[b.key],
         buckets' = [buckets EXCEPT ![i] = b], order' = Append(order, i),
         count' = count + 1, UNCHANGED <<capacity, tombstone_count, pending>>
  PROVE  TableOK'
<1>1. TableTyped /\ Shape /\ Reachable /\ ListCoversTable /\ CountsMatch
  BY DEF TableOK
<1>2. /\ buckets' \in [Index -> Bucket] /\ order' \in Seq(Index) /\ Index' = Index
      /\ \A j \in Index : buckets'[j] = IF j = i THEN b ELSE buckets[j]
      /\ Shape' /\ Reachable' /\ ListCoversTable'
      /\ Cardinality(Used') = Cardinality(Used) + 1
      /\ DeadIndex' = DeadIndex
  BY <1>1, Placed
<1>3. TableTyped'
  BY <1>1, <1>2 DEF TableTyped
<1>4. PendingLive = {} /\ PendingLive' = {}
  BY DEF PendingLive
<1>5. Distinct'
  BY <1>2, <1>4 DEF TableOK, Distinct, SameKey
<1>6. CountsMatch'
  <2>1. Cardinality(PendingLive) = 0 /\ Cardinality(PendingLive') = 0
    BY <1>4, FS_EmptySet
  <2>2. Cardinality(Used) \in Nat /\ count \in Nat
    BY <1>1, Counted DEF TableTyped
  <2>3. count' = Cardinality(Used') + Cardinality(PendingLive')
    BY <1>1, <1>2, <2>1, <2>2 DEF CountsMatch
  <2> QED BY <1>1, <1>2, <2>3 DEF CountsMatch, DeadIndex
<1>7. 4 * count' <= 3 * capacity'
  BY <1>1 DEF Overloaded, TableTyped
<1> QED BY <1>2, <1>3, <1>5, <1>6, <1>7 DEF TableOK

\* In a table without tombstones, where resize_entry stops is vacant.
LEMMA RoomFor ==
  ASSUME TableOK, \A i \in Index : buckets[i] # Dead, NEW p \in Ptr
  PROVE  /\ ResizeEntry(Content[p]) \in Index /\ Vacant(buckets[ResizeEntry(Content[p])])
         /\ OnPath(Hash[Content[p]], ResizeEntry(Content[p]))
<1> DEFINE h == Hash[Content[p]]
           S == {j \in Index : ~Live(buckets[j])}
           i == ResizeEntry(Content[p])
<1>1. TableTyped /\ h \in Nat
  BY KeyHash DEF TableOK
<1>2. \A j \in Index : Live(buckets[j]) \/ buckets[j] = Empty
  BY DEF TableOK, Shape
<1>3. \A j \in Index : ~Live(buckets[j]) <=> Vacant(buckets[j])
  BY <1>2 DEF Live, Vacant, Empty
<1>4. S # {}
  <2>1. PICK j \in Index : Vacant(buckets[j])
    BY <1>1, SomeVacant DEF TableOK, ProbesTerminate
  <2> QED BY <2>1, <1>3
<1>5. PICK d \in Index : i = Place(h, d) /\ i \in S /\ \A e \in 0 .. d - 1 : Place(h, e) \notin S
  <2>1. S \in SUBSET Index
    OBVIOUS
  <2> HIDE DEF S, h
  <2>2. FirstFrom(h, S) = i
    BY DEF ResizeEntry, S, h
  <2> HIDE DEF i
  <2> QED BY <1>1, <1>4, <2>1, <2>2, FirstExists
<1>6. i \in Index /\ Vacant(buckets[i])
  BY <1>3, <1>5
<1>7. \A e \in 0 .. d - 1 : ~Vacant(buckets[Place(h, e)])
  <2>1. \A e \in 0 .. d - 1 : Place(h, e) \in Index
    BY <1>1, PlaceType
  <2> QED BY <1>3, <1>5, <2>1
<1>8. OnPath(h, i)
  BY <1>5, <1>7 DEF OnPath
<1> QED BY <1>6, <1>8

\* One step of a resize: the next pending bucket finds its place.
LEMMA Moved ==
  ASSUME TableOK, \A i \in Index : buckets[i] # Dead, pending # <<>>,
         MoveHead, pending' = Tail(pending), UNCHANGED <<capacity, count, tombstone_count>>
  PROVE  TableOK' /\ \A i \in Index' : buckets'[i] # Dead
<1> DEFINE old == Head(pending)
<1>1. TableTyped /\ Shape /\ Reachable /\ ListCoversTable /\ CountsMatch /\ Distinct
  BY DEF TableOK
<1>2. /\ old = pending[1] /\ 1 \in DOMAIN pending
      /\ pending' \in Seq(Bucket)
      /\ \A n \in PendingLive' : n + 1 \in PendingLive /\ pending'[n] = pending[n + 1] /\ n \in Nat \ {0}
      /\ Cardinality(PendingLive') =
           Cardinality(PendingLive) - (IF Live(pending[1]) THEN 1 ELSE 0)
  BY <1>1, PendingTail
<1>3. \A m, n \in PendingLive' : SameKey(pending'[m], pending'[n]) => m = n
  <2> SUFFICES ASSUME NEW m \in PendingLive', NEW n \in PendingLive',
                      SameKey(pending'[m], pending'[n])
               PROVE  m = n
    OBVIOUS
  <2>1. /\ m + 1 \in PendingLive /\ pending'[m] = pending[m + 1] /\ m \in Nat
        /\ n + 1 \in PendingLive /\ pending'[n] = pending[n + 1] /\ n \in Nat
    BY <1>2
  <2>2. m + 1 = n + 1
    BY <1>1, <2>1 DEF Distinct, SameKey
  <2> QED BY <2>1, <2>2
<1>4. /\ Cardinality(PendingLive) \in Nat /\ Cardinality(Used) \in Nat
      /\ count = Cardinality(Used) + Cardinality(PendingLive)
  BY <1>1, Counted DEF CountsMatch
<1>5. CASE ~Live(old)
  <2>1. UNCHANGED <<buckets, order>> /\ Index' = Index
    BY <1>5 DEF MoveHead, Index
  <2>2. TableTyped'
    BY <1>1, <1>2, <2>1 DEF TableTyped
  <2>3. Shape' /\ Reachable' /\ ListCoversTable' /\ Used' = Used
    BY <1>1, <2>1 DEF Shape, Reachable, OnPath, Place, ListCoversTable, Used
  <2>4. Distinct'
    BY <1>1, <1>2, <1>3, <2>1 DEF Distinct
  <2>5. Cardinality(PendingLive') = Cardinality(PendingLive)
    BY <1>2, <1>4, <1>5
  <2>6. CountsMatch'
    BY <1>1, <2>1, <2>3, <2>5 DEF CountsMatch
  <2> QED BY <2>1, <2>2, <2>3, <2>4, <2>6 DEF TableOK
<1>6. CASE Live(old)
  <2> DEFINE k == Content[old.key]
             h == Hash[k]
             i == ResizeEntry(k)
  <2>1. old \in Bucket /\ old.key \in Ptr /\ h \in Nat /\ 1 \in PendingLive
    <3>1. old \in Bucket /\ 1 \in PendingLive
      BY <1>1, <1>2, <1>6, ElementOfSeq, LenProperties DEF TableTyped, PendingLive
    <3> QED BY <1>6, <3>1, KeyHash DEF Live, Bucket
  <2>6. i \in Index /\ Vacant(buckets[i]) /\ OnPath(h, i)
    BY <2>1, RoomFor
  <2>9. buckets' = [buckets EXCEPT ![i] = old] /\ order' = Append(order, i)
    BY <1>6 DEF MoveHead
  <2> HIDE DEF i
  <2>10. /\ buckets' \in [Index -> Bucket] /\ order' \in Seq(Index) /\ Index' = Index
         /\ \A j \in Index : buckets'[j] = IF j = i THEN old ELSE buckets[j]
         /\ Shape' /\ Reachable' /\ ListCoversTable'
         /\ Cardinality(Used') = Cardinality(Used) + 1
         /\ DeadIndex' = DeadIndex
    BY <1>1, <1>6, <2>1, <2>6, <2>9, Placed
  <2>11. TableTyped'
    BY <1>1, <1>2, <2>10 DEF TableTyped
  <2>12. \A n \in PendingLive : n # 1 => ~SameKey(pending[n], old)
    BY <1>1, <1>2, <2>1 DEF Distinct
  <2>13. \A j \in Index : Live(buckets[j]) => ~SameKey(old, buckets[j])
    BY <1>1, <1>2, <2>1 DEF Distinct
  <2>14. Distinct'
    <3>1. \A n \in PendingLive' : n + 1 # 1
      BY <1>2
    <3>2. \A x, y \in Index : Live(buckets'[x]) /\ Live(buckets'[y]) /\ SameKey(buckets'[x], buckets'[y]) => x = y
      BY <1>1, <2>10, <2>13 DEF Distinct, SameKey
    <3>3. \A n \in PendingLive', j \in Index : Live(buckets'[j]) => ~SameKey(pending'[n], buckets'[j])
      <4> SUFFICES ASSUME NEW n \in PendingLive', NEW j \in Index, Live(buckets'[j])
                   PROVE  ~SameKey(pending'[n], buckets'[j])
        OBVIOUS
      <4>1. n + 1 \in PendingLive /\ pending'[n] = pending[n + 1] /\ n + 1 # 1
        BY <1>2, <3>1
      <4>2. CASE j = i
        BY <2>10, <2>12, <4>1, <4>2
      <4>3. CASE j # i
        BY <1>1, <2>10, <4>1, <4>3 DEF Distinct
      <4> QED BY <4>2, <4>3
    <3> QED BY <1>3, <2>10, <3>2, <3>3 DEF Distinct, SameKey
  <2>15. count = Cardinality(Used') + Cardinality(PendingLive')
    BY <1>2, <1>4, <1>6, <2>10
  <2>16. CountsMatch'
    BY <1>1, <2>10, <2>15 DEF CountsMatch, DeadIndex
  <2>17. old # Dead
    BY <1>6 DEF Live, Dead
  <2> QED BY <2>10, <2>11, <2>14, <2>16, <2>17 DEF TableOK
<1> QED BY <1>5, <1>6

\* The start of a resize: the list becomes what is pending, the table is empty,
\* and the tombstones are no longer counted.
LEMMA Started ==
  ASSUME TableOK, pending = <<>>, BeginResize
  PROVE  /\ TableOK' /\ \A i \in Index' : buckets'[i] # Dead
         /\ 4 * (count' + 1) <= 3 * capacity'
<1>1. TableTyped /\ Shape /\ Distinct /\ ListCoversTable /\ CountsMatch
  BY DEF TableOK
<1>2. /\ capacity' = 2 * capacity /\ buckets' = EmptyTable(2 * capacity)
      /\ count' = count - tombstone_count /\ tombstone_count' = 0
      /\ pending' = [n \in DOMAIN order |-> buckets[order[n]]] /\ order' = <<>>
  BY DEF BeginResize
<1>3. /\ order \in Seq(Index) /\ Len(order) \in Nat /\ DOMAIN order = 1 .. Len(order)
      /\ \A n \in DOMAIN order : order[n] \in Index
  BY <1>1, LenProperties, ElementOfSeq DEF TableTyped
<1>4. /\ pending' \in Seq(Bucket) /\ DOMAIN pending' = DOMAIN order
      /\ \A n \in DOMAIN order : pending'[n] = buckets[order[n]]
  <2>1. \A n \in 1 .. Len(order) : buckets[order[n]] \in Bucket
    BY <1>1, <1>3 DEF TableTyped
  <2>2. pending' = [n \in 1 .. Len(order) |-> buckets[order[n]]]
    BY <1>2, <1>3
  <2>3. pending' \in [1 .. Len(order) -> Bucket]
    BY <2>1, <2>2
  <2> QED BY <1>3, <2>2, <2>3, SeqDef
<1>5. /\ Index' = 0 .. 2 * capacity - 1 /\ \A i \in Index' : buckets'[i] = Empty
      /\ buckets' \in [Index' -> {Empty}] /\ capacity' \in Nat /\ capacity' >= 2
  BY <1>1, <1>2 DEF Index, EmptyTable, TableTyped
<1>6. ~Live(Empty) /\ Vacant(Empty) /\ Empty # Dead /\ Empty \in Bucket
  BY ValueAssumption DEF Live, Vacant, Empty, Dead, Bucket
<1>7. Used' = {} /\ {i \in Index' : buckets'[i] = Dead} = {}
  BY <1>5, <1>6 DEF Used
<1>8. PendingLive' = {n \in DOMAIN order : Live(buckets[order[n]])}
  BY <1>4 DEF PendingLive
<1>9. Cardinality(PendingLive') = Cardinality(LiveIndex)
  <2> DEFINE f == [n \in PendingLive' |-> order[n]]
  <2>1. f \in [PendingLive' -> LiveIndex]
    BY <1>3, <1>8 DEF LiveIndex
  <2>2. \A m, n \in PendingLive' : f[m] = f[n] => m = n
    BY <1>1, <1>8 DEF ListCoversTable
  <2>3. \A i \in LiveIndex : \E n \in PendingLive' : f[n] = i
    <3> SUFFICES ASSUME NEW i \in LiveIndex PROVE \E n \in PendingLive' : f[n] = i
      OBVIOUS
    <3>1. i \in Used
      BY DEF LiveIndex, Used, Live, Vacant
    <3>2. PICK n \in DOMAIN order : order[n] = i
      BY <1>1, <3>1 DEF ListCoversTable
    <3> QED BY <1>8, <3>2 DEF LiveIndex
  <2>4. IsFiniteSet(LiveIndex)
    BY <1>1, Counted
  <2> HIDE DEF f
  <2> QED BY <2>1, <2>2, <2>3, <2>4, SameSize
<1>10. count' = Cardinality(LiveIndex) /\ count' \in Nat /\ count' <= count
  <2>1. Cardinality(PendingLive) = 0
    BY FS_EmptySet DEF PendingLive
  <2>2. /\ count = Cardinality(Used) + 0 /\ tombstone_count = Cardinality(DeadIndex)
        /\ Cardinality(Used) = Cardinality(LiveIndex) + Cardinality(DeadIndex)
    BY <1>1, <2>1, LiveAndDead DEF CountsMatch, DeadIndex
  <2> QED BY <1>1, <1>2, <2>2, Counted
<1>11. 4 * (count' + 1) <= 3 * capacity'
  <2>1. 4 * count <= 3 * capacity
    BY DEF TableOK
  <2> QED BY <1>1, <1>2, <1>10, <2>1 DEF TableTyped
<1>12. TableTyped'
  <2>1. buckets' \in [Index' -> Bucket] /\ order' \in Seq(Index') /\ tombstone_count' \in Nat
    BY <1>2, <1>5, <1>6, EmptySeq
  <2> QED BY <1>4, <1>5, <1>10, <2>1 DEF TableTyped
<1>13. Shape' /\ Reachable'
  BY <1>5, <1>6 DEF Shape, Reachable
<1>14. Distinct'
  <2>1. \A m, n \in PendingLive' : SameKey(pending'[m], pending'[n]) => m = n
    BY <1>1, <1>3, <1>4, <1>8 DEF Distinct, ListCoversTable
  <2> QED BY <1>5, <1>6, <2>1 DEF Distinct, SameKey
<1>15. CountsMatch'
  <2>1. Cardinality(Used') = 0 /\ Cardinality({i \in Index' : buckets'[i] = Dead}) = 0
    BY <1>7, FS_EmptySet
  <2>2. count' = Cardinality(Used') + Cardinality(PendingLive')
    BY <1>9, <1>10, <2>1
  <2> QED BY <1>2, <2>1, <2>2 DEF CountsMatch
<1>16. ListCoversTable'
  BY <1>2, <1>7 DEF ListCoversTable
<1>17. 4 * count' <= 3 * capacity'
  BY <1>5, <1>10, <1>11
<1> QED BY <1>5, <1>6, <1>11, <1>12, <1>13, <1>14, <1>15, <1>16, <1>17 DEF TableOK

-----------------------------------------------------------------------------
(* The invariant is inductive *)

LEMMA InitInv == Init => IInv
<1> SUFFICES ASSUME Init PROVE IInv
  OBVIOUS
<1>1. /\ capacity \in Nat /\ capacity >= 2 /\ buckets = [i \in Index |-> Empty]
      /\ count = 0 /\ tombstone_count = 0 /\ order = <<>> /\ pending = <<>>
  BY CapacityAssumption DEF Init, EmptyTable, Index
<1>2. ~Live(Empty) /\ Vacant(Empty) /\ Empty # Dead /\ Empty \in Bucket
  BY ValueAssumption DEF Live, Vacant, Empty, Dead, Bucket
<1>3. TableTyped
  BY <1>1, <1>2, EmptySeq DEF TableTyped
<1>4. Used = {} /\ PendingLive = {} /\ {i \in Index : buckets[i] = Dead} = {}
  BY <1>1, <1>2 DEF Used, PendingLive
<1>5. CountsMatch
  BY <1>1, <1>4, FS_EmptySet DEF CountsMatch
<1>6. Shape /\ Distinct /\ Reachable /\ ListCoversTable
  BY <1>1, <1>2, <1>4 DEF Shape, Distinct, Reachable, ListCoversTable
<1>7. 4 * count <= 3 * capacity
  BY <1>1
<1>8. CallOK
  BY <1>1 DEF Init, CallOK
<1> QED BY <1>3, <1>5, <1>6, <1>7, <1>8 DEF TableOK, IInv

\* A call is picked up, with or without a resize before it.
LEMMA CallStep ==
  ASSUME IInv, NEW request \in Calls, Call(request)
  PROVE  IInv'
<1>1. TableOK /\ pending = <<>> /\ pc = "idle" /\ call' = request
  BY DEF IInv, CallOK, Call
<1>2. CASE request.op \in Setters /\ Overloaded
  <2>1. BeginResize /\ pc' = "resize"
    BY <1>2 DEF Call
  <2>2. /\ TableOK' /\ \A i \in Index' : buckets'[i] # Dead
        /\ 4 * (count' + 1) <= 3 * capacity'
    BY <1>1, <2>1, Started
  <2>3. count' \in Nat /\ capacity' \in Nat /\ 4 * (count' + 1) <= 3 * capacity'
    BY <2>2 DEF TableOK, TableTyped
  <2>4. \A n, m \in Nat : 4 * (n + 1) <= 3 * m => ~(4 * (n + 1) > 3 * m)
    OBVIOUS
  <2>5. ~Overloaded'
    BY <2>3, <2>4 DEF Overloaded
  <2> QED BY <1>1, <1>2, <2>1, <2>2, <2>5 DEF IInv, CallOK
<1>3. CASE ~(request.op \in Setters /\ Overloaded)
  <2>1. pc' = "apply" /\ UNCHANGED <<table, pending>>
    BY <1>3 DEF Call
  <2>2. TableOK'
    BY <1>1, <2>1, Kept
  <2>3. ~(request.op \in Setters /\ Overloaded')
    BY <1>3, <2>1 DEF Overloaded, table
  <2> QED BY <1>1, <2>1, <2>2, <2>3 DEF IInv, CallOK
<1> QED BY <1>2, <1>3

LEMMA ResizeStep == IInv /\ Resize => IInv'
<1> SUFFICES ASSUME IInv, Resize PROVE IInv'
  OBVIOUS
<1>1. /\ TableOK /\ pc = "resize" /\ pending # <<>> /\ MoveHead /\ pending' = Tail(pending)
      /\ UNCHANGED <<capacity, count, tombstone_count, call>>
      /\ pc' = IF Tail(pending) = <<>> THEN "apply" ELSE "resize"
  BY DEF IInv, Resize
<1>2. \A i \in Index : buckets[i] # Dead
  BY <1>1 DEF IInv, CallOK
<1>3. TableOK' /\ \A i \in Index' : buckets'[i] # Dead
  BY <1>1, <1>2, Moved
<1> QED BY <1>1, <1>3 DEF IInv, CallOK, Overloaded

\* The operations change the table in one of four ways.
LEMMA OperationStep == IInv /\ Operation => IInv'
<1> SUFFICES ASSUME IInv, Operation PROVE IInv'
  OBVIOUS
<1>1. TableOK /\ TableTyped /\ CallOK
  BY DEF IInv, TableOK
<1>2. pc = "apply" /\ pending = <<>> /\ call \in Calls /\ pc' = "idle" /\ call' = NoCall /\ pending' = pending
  BY <1>1 DEF Operation, Set, SetFree, GetSet, Get, Remove, RemoveFree, Size, Iterate,
              Applies, CallOK
<1>3. TableOK' => IInv'
  BY <1>2 DEF IInv, CallOK
<1>4. CASE UNCHANGED table
  BY <1>1, <1>2, <1>3, <1>4, Kept
<1>5. ASSUME call.op \notin MapOps, Stops(Content[call.p]) # {}
      PROVE  /\ call.p \in Ptr /\ Target \in Index
             /\ IF Hit THEN Content[buckets[Target].key] = Content[call.p]
                ELSE /\ Vacant(buckets[Target]) /\ OnPath(Hash[Content[call.p]], Target)
                     /\ \A i \in Index : Live(buckets[i]) =>
                          Content[buckets[i].key] # Content[call.p]
  <2>1. call.p \in Ptr
    BY <1>2, <1>5 DEF Calls, MapOps
  <2> QED BY <1>1, <1>5, <2>1, ProbeMisses DEF Target, Hit
<1>6. ASSUME call.op \in Setters, Stops(Content[call.p]) # {}
      PROVE  /\ call.op \notin MapOps /\ call.v \in Value /\ ~Overloaded
             /\ [key |-> call.p, value |-> call.v] \in Bucket
             /\ Live([key |-> call.p, value |-> call.v])
  <2>1. call.op \notin MapOps /\ call.v \in Value
    BY <1>2, <1>6 DEF Calls, Setters, MapOps, KeyOps
  <2>2. call.p \in Ptr
    BY <1>5, <1>6, <2>1
  <2> QED BY <1>1, <1>2, <1>6, <2>1, <2>2, KeysAssumption DEF CallOK, Bucket, Live
<1>7. ASSUME call.op \in Setters, Stops(Content[call.p]) # {}, ~Hit, Insert PROVE TableOK'
  <2> DEFINE b == [key |-> call.p, value |-> call.v]
  <2>1. b \in Bucket /\ Live(b) /\ b.key = call.p
    BY <1>6, <1>7
  <2>2. /\ buckets' = [buckets EXCEPT ![Target] = b] /\ order' = Append(order, Target)
        /\ count' = count + 1 /\ UNCHANGED <<capacity, tombstone_count>>
    BY <1>7 DEF Insert
  <2> HIDE DEF b
  <2> QED BY <1>1, <1>2, <1>5, <1>6, <1>7, <2>1, <2>2, Inserted
<1>8. ASSUME call.op \in Setters, Stops(Content[call.p]) # {}, Hit, NEW b \in Bucket, Live(b),
             Content[b.key] = Content[call.p], buckets' = [buckets EXCEPT ![Target] = b],
             UNCHANGED <<capacity, count, tombstone_count, order>>
      PROVE  TableOK'
  <2>1. Target \in Index /\ Live(buckets[Target]) /\ SameKey(b, buckets[Target])
    BY <1>5, <1>6, <1>8 DEF Hit, SameKey
  <2> QED BY <1>1, <1>2, <1>8, <2>1, Rewritten
<1>9. ASSUME call.op \notin MapOps, Stops(Content[call.p]) # {}, Bury PROVE TableOK'
  <2>1. CASE Hit
    <3>1. Target \in Index /\ Live(buckets[Target])
      BY <1>5, <1>9, <2>1 DEF Hit
    <3> QED BY <1>1, <1>2, <1>9, <2>1, <3>1, Buried DEF Bury
  <2>2. CASE ~Hit
    BY <1>1, <1>2, <1>9, <2>2, Kept DEF Bury
  <2> QED BY <2>1, <2>2
<1>10. CASE Set
  <2>1. call.op \in Setters /\ Stops(Content[call.p]) # {}
    BY <1>10 DEF Set, Applies, Setters, MapOps
  <2>2. CASE Hit
    <3> DEFINE b == [buckets[Target] EXCEPT !.value = call.v]
    <3>1. /\ Target \in Index /\ Content[buckets[Target].key] = Content[call.p]
          /\ call.v \in Value /\ buckets[Target] \in Bucket
      BY <1>1, <1>5, <1>6, <2>1, <2>2 DEF TableTyped
    <3>2. b \in Bucket /\ b.key = buckets[Target].key
      BY <3>1 DEF Bucket
    <3>3. Live(b) /\ Content[b.key] = Content[call.p]
      BY <2>2, <3>1, <3>2 DEF Live, Hit
    <3>4. /\ buckets' = [buckets EXCEPT ![Target] = b]
          /\ UNCHANGED <<capacity, count, tombstone_count, order>>
      BY <1>10, <2>2 DEF Set
    <3> HIDE DEF b
    <3> QED BY <1>3, <1>8, <2>1, <2>2, <3>2, <3>3, <3>4
  <2>3. CASE ~Hit
    BY <1>3, <1>7, <1>10, <2>1, <2>3 DEF Set
  <2> QED BY <2>2, <2>3
<1>11. CASE SetFree
  <2>1. call.op \in Setters /\ Stops(Content[call.p]) # {}
    BY <1>11 DEF SetFree, Applies, Setters, MapOps
  <2>2. CASE Hit
    <3> DEFINE b == [key |-> call.p, value |-> call.v]
    <3>1. b \in Bucket /\ Live(b) /\ Content[b.key] = Content[call.p]
      BY <1>6, <2>1
    <3>2. /\ buckets' = [buckets EXCEPT ![Target] = b]
          /\ UNCHANGED <<capacity, count, tombstone_count, order>>
      BY <1>11, <2>2 DEF SetFree
    <3> HIDE DEF b
    <3> QED BY <1>3, <1>8, <2>1, <2>2, <3>1, <3>2
  <2>3. CASE ~Hit
    BY <1>3, <1>7, <1>11, <2>1, <2>3 DEF SetFree
  <2> QED BY <2>2, <2>3
<1>12. CASE GetSet
  <2>1. call.op \in Setters /\ Stops(Content[call.p]) # {}
    BY <1>12 DEF GetSet, Applies, Setters, MapOps
  <2> QED BY <1>3, <1>4, <1>7, <1>12, <2>1 DEF GetSet
<1>13. CASE Remove \/ RemoveFree
  BY <1>3, <1>9, <1>13 DEF Remove, RemoveFree, Applies, MapOps
<1>14. CASE Get \/ Size \/ Iterate
  BY <1>4, <1>14 DEF Get, Size, Iterate
<1> QED BY <1>10, <1>11, <1>12, <1>13, <1>14 DEF Operation

LEMMA InvStep == IInv /\ [Next]_vars => IInv'
<1> SUFFICES ASSUME IInv, [Next]_vars PROVE IInv'
  OBVIOUS
<1>1. CASE UNCHANGED vars
  <2>1. UNCHANGED <<table, pending>>
    BY <1>1 DEF vars, table
  <2>2. TableOK'
    BY <2>1, Kept DEF IInv
  <2> QED BY <1>1, <2>2 DEF IInv, CallOK, vars, Overloaded, Index
<1> QED BY <1>1, CallStep, ResizeStep, OperationStep DEF Next

LEMMA Invariance == Spec => []IInv
BY InitInv, InvStep, PTL DEF Spec

-----------------------------------------------------------------------------
(* The elements behind a sequence of buckets *)

LiveBucket == {b \in Bucket : Live(b)}

LEMMA ElementsType ==
  ASSUME NEW bs \in Seq(Bucket)
  PROVE  /\ LiveElements(bs) \in Seq(LiveBucket)
         /\ \A i \in DOMAIN LiveElements(bs) :
              \E n \in DOMAIN bs : bs[n] = LiveElements(bs)[i] /\ Live(bs[n])
<1> DEFINE R == {bs[n] : n \in DOMAIN bs} \cap LiveBucket
           e == LiveElements(bs)
<1>1. e \in Seq(R)
  BY OnlyType DEF LiveElements, LiveBucket
<1>2. R \subseteq LiveBucket
  OBVIOUS
<1> HIDE DEF R, e
<1>3. e \in Seq(LiveBucket) /\ DOMAIN e = 1 .. Len(e)
  BY <1>1, <1>2, SeqMonotonic, LenProperties
<1>4. \A i \in DOMAIN e : e[i] \in R
  BY <1>1, <1>3, ElementOfSeq
<1> QED BY <1>3, <1>4 DEF R, e, LiveBucket

\* a and c are the elements before and after what is in the n-th place.
Split(bs, n, a, c) ==
  /\ a \in Seq(LiveBucket) /\ c \in Seq(LiveBucket)
  /\ \A i \in DOMAIN a : \E m \in DOMAIN bs : m # n /\ bs[m] = a[i]
  /\ \A i \in DOMAIN c : \E m \in DOMAIN bs : m # n /\ bs[m] = c[i]
  /\ \A b \in Bucket : LiveElements([bs EXCEPT ![n] = b]) =
                         IF Live(b) THEN Append(a, b) \o c ELSE a \o c

LEMMA Splitting ==
  ASSUME NEW bs \in Seq(Bucket), NEW n \in DOMAIN bs
  PROVE  \E a, c : Split(bs, n, a, c)
<1> DEFINE pre == SubSeq(bs, 1, n - 1)
           post == SubSeq(bs, n + 1, Len(bs))
           a == LiveElements(pre)
           c == LiveElements(post)
<1>1. Len(bs) \in Nat /\ DOMAIN bs = 1 .. Len(bs) /\ n \in 1 .. Len(bs) /\ n \in Nat
  BY LenProperties
<1>2. \A m \in 1 .. Len(bs) : bs[m] \in Bucket
  BY ElementOfSeq
<1>3. /\ pre \in Seq(Bucket) /\ Len(pre) = n - 1
      /\ \A i \in 1 .. n - 1 : pre[i] = bs[i]
  <2>1. \A i \in 1 .. n - 1 : bs[i] \in Bucket
    BY <1>1, <1>2
  <2>2. /\ pre \in Seq(Bucket) /\ Len(pre) = IF 1 <= n - 1 THEN (n - 1) - 1 + 1 ELSE 0
        /\ \A i \in 1 .. (n - 1) - 1 + 1 : pre[i] = bs[1 + i - 1]
    BY <1>1, <2>1, SubSeqProperties
  <2> HIDE DEF pre
  <2>3. Len(pre) = n - 1 /\ 1 .. (n - 1) - 1 + 1 = 1 .. n - 1
    BY <1>1, <2>2
  <2>4. \A i \in 1 .. n - 1 : 1 + i - 1 = i
    OBVIOUS
  <2> QED BY <2>2, <2>3, <2>4
<1>4. /\ post \in Seq(Bucket) /\ Len(post) = Len(bs) - n
      /\ \A i \in 1 .. Len(bs) - n : post[i] = bs[n + i]
  <2>1. \A i \in n + 1 .. Len(bs) : bs[i] \in Bucket
    BY <1>1, <1>2
  <2>2. /\ post \in Seq(Bucket)
        /\ Len(post) = IF n + 1 <= Len(bs) THEN Len(bs) - (n + 1) + 1 ELSE 0
        /\ \A i \in 1 .. Len(bs) - (n + 1) + 1 : post[i] = bs[(n + 1) + i - 1]
    BY <1>1, <2>1, SubSeqProperties
  <2> HIDE DEF post
  <2>3. Len(post) = Len(bs) - n /\ 1 .. Len(bs) - (n + 1) + 1 = 1 .. Len(bs) - n
    BY <1>1, <2>2
  <2>4. \A i \in 1 .. Len(bs) - n : (n + 1) + i - 1 = n + i
    BY <1>1
  <2> QED BY <2>2, <2>3, <2>4
<1> HIDE DEF pre, post
<1>5. a \in Seq(LiveBucket) /\ c \in Seq(LiveBucket)
  BY <1>3, <1>4, ElementsType
<1>6. \A i \in DOMAIN a : \E m \in DOMAIN bs : m # n /\ bs[m] = a[i]
  <2> SUFFICES ASSUME NEW i \in DOMAIN a PROVE \E m \in DOMAIN bs : m # n /\ bs[m] = a[i]
    OBVIOUS
  <2>1. PICK m \in DOMAIN pre : pre[m] = a[i]
    BY <1>3, ElementsType
  <2>2. m \in 1 .. n - 1
    BY <1>3, <2>1, LenProperties
  <2>3. m \in DOMAIN bs /\ m # n /\ bs[m] = pre[m]
    BY <1>1, <1>3, <2>2
  <2> QED BY <2>1, <2>3
<1>7. \A i \in DOMAIN c : \E m \in DOMAIN bs : m # n /\ bs[m] = c[i]
  <2> SUFFICES ASSUME NEW i \in DOMAIN c PROVE \E m \in DOMAIN bs : m # n /\ bs[m] = c[i]
    OBVIOUS
  <2>1. PICK m \in DOMAIN post : post[m] = c[i]
    BY <1>4, ElementsType
  <2>2. m \in 1 .. Len(bs) - n
    BY <1>4, <2>1, LenProperties
  <2>3. n + m \in DOMAIN bs /\ n + m # n /\ bs[n + m] = post[m]
    BY <1>1, <1>4, <2>2
  <2> QED BY <2>1, <2>3
<1>8. ASSUME NEW b \in Bucket
      PROVE  LiveElements([bs EXCEPT ![n] = b]) = IF Live(b) THEN Append(a, b) \o c ELSE a \o c
  <2> DEFINE new == [bs EXCEPT ![n] = b]
             pb == Append(pre, b)
  <2>1. /\ new \in Seq(Bucket) /\ Len(new) = Len(bs)
        /\ \A j \in 1 .. Len(bs) : new[j] = IF j = n THEN b ELSE bs[j]
    BY <1>1, ExceptSeq
  <2>2. /\ pb \in Seq(Bucket) /\ Len(pb) = n
        /\ (\A i \in 1 .. n - 1 : pb[i] = pre[i]) /\ pb[n] = b
    <3>1. /\ pb \in Seq(Bucket) /\ Len(pb) = Len(pre) + 1
          /\ \A i \in 1 .. Len(pre) : pb[i] = pre[i]
          /\ pb[Len(pre) + 1] = b
      BY <1>3, AppendProperties
    <3>2. Len(pre) + 1 = n
      BY <1>1, <1>3
    <3> HIDE DEF pb
    <3> QED BY <1>3, <3>1, <3>2
  <2> HIDE DEF new, pb
  <2>3. /\ pb \o post \in Seq(Bucket) /\ Len(pb \o post) = n + (Len(bs) - n)
        /\ \A i \in 1 .. n + (Len(bs) - n) : (pb \o post)[i] = IF i <= n THEN pb[i] ELSE post[i - n]
    <3>1. /\ pb \o post \in Seq(Bucket) /\ Len(pb \o post) = Len(pb) + Len(post)
          /\ \A i \in 1 .. Len(pb) + Len(post) :
               (pb \o post)[i] = IF i <= Len(pb) THEN pb[i] ELSE post[i - Len(pb)]
      BY <1>4, <2>2, ConcatProperties
    <3> QED BY <1>4, <2>2, <3>1
  <2>4. new = pb \o post
    <3> DEFINE w == pb \o post
    <3>1. w \in Seq(Bucket) /\ Len(w) = n + (Len(bs) - n)
      BY <2>3
    <3>2. n + (Len(bs) - n) = Len(bs)
      BY <1>1
    <3>3. \A i \in 1 .. Len(bs) : w[i] = IF i <= n THEN pb[i] ELSE post[i - n]
      BY <2>3, <3>2
    <3> HIDE DEF w
    <3>4. ASSUME NEW i \in 1 .. Len(bs) PROVE new[i] = w[i]
      <4>1. CASE i < n
        <5>1. i \in 1 .. n - 1 /\ i # n /\ i <= n
          BY <1>1, <4>1
        <5> QED BY <1>3, <2>1, <2>2, <3>3, <5>1
      <4>2. CASE i = n
        <5>1. i <= n
          BY <1>1, <4>2
        <5> QED BY <2>1, <2>2, <3>3, <4>2, <5>1
      <4>3. CASE i > n
        <5>1. ~(i <= n) /\ i # n /\ i - n \in 1 .. Len(bs) - n /\ n + (i - n) = i
          BY <1>1, <4>3
        <5> QED BY <1>4, <2>1, <3>3, <5>1
      <4> QED BY <1>1, <4>1, <4>2, <4>3
    <3>5. new = w
      BY <2>1, <3>1, <3>2, <3>4, SeqEqual
    <3> QED BY <3>5 DEF w
  <2>5. Only(pb \o post, LiveBucket) = Only(pb, LiveBucket) \o Only(post, LiveBucket)
    BY <1>4, <2>2, OnlyConcat
  <2>6. Only(pb, LiveBucket) = IF b \in LiveBucket THEN Append(Only(pre, LiveBucket), b)
                               ELSE Only(pre, LiveBucket)
    BY <1>3, OnlyAppend DEF pb
  <2>7. b \in LiveBucket <=> Live(b)
    BY DEF LiveBucket
  <2>8. LiveElements(new) = Only(new, LiveBucket) /\ a = Only(pre, LiveBucket)
        /\ c = Only(post, LiveBucket)
    BY DEF LiveElements, LiveBucket
  <2> HIDE DEF a, c
  <2>9. LiveElements(new) = IF Live(b) THEN Append(a, b) \o c ELSE a \o c
    BY <2>4, <2>5, <2>6, <2>7, <2>8
  <2> QED BY <2>9 DEF new
<1>9. Split(bs, n, a, c)
  BY <1>5, <1>6, <1>7, <1>8, Zenon DEF Split
<1> QED BY <1>9

\* There are as many elements as live buckets.
LEMMA ElementCount ==
  ASSUME NEW bs \in Seq(Bucket)
  PROVE  Len(LiveElements(bs)) = Cardinality({n \in DOMAIN bs : Live(bs[n])})
<1> DEFINE L(s) == {n \in DOMAIN s : Live(s[n])}
           G == {s \in Seq(Bucket) : /\ IsFiniteSet(L(s)) 
                                     /\ Len(LiveElements(s)) = Cardinality(L(s))}
<1>1. <<>> \in G
  <2>1. L(<<>>) = {} /\ LiveElements(<<>>) = <<>>
    BY OnlyEmpty DEF LiveElements
  <2> QED BY <2>1, EmptySeq, FS_EmptySet
<1>2. ASSUME NEW s \in G, NEW b \in Bucket PROVE Append(s, b) \in G
  <2> DEFINE u == Append(s, b)
             e == LiveElements(s)
             k == Len(s) + 1
  <2>1. /\ s \in Seq(Bucket) /\ u \in Seq(Bucket) /\ Len(s) \in Nat
        /\ DOMAIN s = 1 .. Len(s) /\ DOMAIN u = 1 .. k
        /\ u[k] = b /\ \A i \in 1 .. Len(s) : u[i] = s[i]
    BY <1>2, LenProperties, AppendProperties
  <2>2. LiveElements(u) = IF Live(b) THEN Append(e, b) ELSE e
    <3>1. Only(u, LiveBucket) = IF b \in LiveBucket THEN Append(Only(s, LiveBucket), b)
                                ELSE Only(s, LiveBucket)
      BY <2>1, OnlyAppend
    <3> HIDE DEF u
    <3> QED BY <3>1 DEF LiveElements, LiveBucket
  <2>3. e \in Seq(LiveBucket) /\ (Live(b) => b \in LiveBucket)
    BY <2>1, ElementsType DEF LiveBucket
  <2>4. /\ IsFiniteSet(L(s)) /\ Len(e) = Cardinality(L(s)) /\ Len(e) \in Nat
    BY <1>2, <2>3, LenProperties
  <2> HIDE DEF u, e
  <2>5. L(u) = IF Live(b) THEN L(s) \cup {k} ELSE L(s)
    <3>1. 1 .. k = (1 .. Len(s)) \cup {k} /\ k \notin 1 .. Len(s)
      BY <2>1
    <3> QED BY <2>1, <3>1
  <2>6. k \notin L(s)
    BY <2>1
  <2> HIDE DEF L, k
  <2>7. CASE Live(b)
    <3>1. Len(Append(e, b)) = Len(e) + 1
      BY <2>3, <2>7, AppendProperties
    <3>2. IsFiniteSet(L(s) \cup {k}) /\ Cardinality(L(s) \cup {k}) = Cardinality(L(s)) + 1
      BY <2>4, <2>6, FS_AddElement
    <3> QED BY <2>1, <2>2, <2>4, <2>5, <2>7, <3>1, <3>2 DEF u
  <2>8. CASE ~Live(b)
    BY <2>1, <2>2, <2>4, <2>5, <2>8 DEF u, e
  <2> QED BY <2>7, <2>8
<1>3. G = Seq(Bucket)
  <2> HIDE DEF G
  <2>1. G \in SUBSET Seq(Bucket)
    BY DEF G
  <2> QED BY <1>1, <1>2, <2>1, SeqInduction
<1> QED BY <1>3

\* What stands between a and c can be looked at, replaced and taken out.
Amid(T, a, x, c, e, k) ==
  /\ e \in Seq(T) /\ k \in DOMAIN e /\ e[k] = x
  /\ \A i \in DOMAIN e : i # k => \/ i \in DOMAIN a /\ e[i] = a[i]
                                  \/ i - k \in DOMAIN c /\ e[i] = c[i - k]
  /\ \A y \in T : [e EXCEPT ![k] = y] = Append(a, y) \o c
  /\ SubSeq(e, 1, k - 1) \o SubSeq(e, k + 1, Len(e)) = a \o c

LEMMA Between ==
  ASSUME NEW T, NEW a \in Seq(T), NEW c \in Seq(T), NEW x \in T,
         NEW e, e = Append(a, x) \o c, NEW k, k = Len(a) + 1
  PROVE  Amid(T, a, x, c, e, k)
<1>1. /\ Len(a) \in Nat /\ DOMAIN a = 1 .. Len(a) /\ Len(c) \in Nat /\ DOMAIN c = 1 .. Len(c)
      /\ k \in Nat \ {0} /\ Len(a) = k - 1
  BY LenProperties
<1>2. ASSUME NEW y \in T, NEW w, w = Append(a, y) \o c
      PROVE  /\ w \in Seq(T) /\ Len(w) = k + Len(c)
             /\ \A i \in 1 .. k + Len(c) :
                  w[i] = IF i < k THEN a[i] ELSE IF i = k THEN y ELSE c[i - k]
  <2> DEFINE ay == Append(a, y)
  <2>1. /\ ay \in Seq(T) /\ Len(ay) = Len(a) + 1 /\ ay[Len(a) + 1] = y
        /\ \A i \in 1 .. Len(a) : ay[i] = a[i]
    BY AppendProperties
  <2>2. w = ay \o c
    BY <1>2
  <2> HIDE DEF ay
  <2>3. /\ w \in Seq(T) /\ Len(w) = k + Len(c)
        /\ \A i \in 1 .. k + Len(c) : w[i] = IF i <= k THEN ay[i] ELSE c[i - k]
    <3>1. /\ ay \o c \in Seq(T) /\ Len(ay \o c) = Len(ay) + Len(c)
          /\ \A i \in 1 .. Len(ay) + Len(c) :
               (ay \o c)[i] = IF i <= Len(ay) THEN ay[i] ELSE c[i - Len(ay)]
      BY <2>1, ConcatProperties
    <3>2. Len(ay) = k
      BY <2>1
    <3> QED BY <2>2, <3>1, <3>2
  <2>4. \A i \in 1 .. k + Len(c) : /\ i < k => i <= k /\ i \in 1 .. Len(a)
                                   /\ i = k => i <= k
                                   /\ ~(i < k) /\ i # k => ~(i <= k)
    BY <1>1
  <2> QED BY <2>1, <2>3, <2>4
<1>3. /\ e \in Seq(T) /\ Len(e) = k + Len(c) /\ DOMAIN e = 1 .. k + Len(c)
      /\ \A i \in 1 .. k + Len(c) :
           e[i] = IF i < k THEN a[i] ELSE IF i = k THEN x ELSE c[i - k]
  BY <1>2, LenProperties
<1>4. k \in DOMAIN e /\ k \in 1 .. Len(e) /\ e[k] = x
  BY <1>1, <1>3
<1>5. ASSUME NEW i \in DOMAIN e, i # k
      PROVE  (i \in DOMAIN a /\ e[i] = a[i]) \/ (i - k \in DOMAIN c /\ e[i] = c[i - k])
  BY <1>1, <1>3, <1>5
<1>6. ASSUME NEW y \in T PROVE [e EXCEPT ![k] = y] = Append(a, y) \o c
  <2> DEFINE w == Append(a, y) \o c
             f == [e EXCEPT ![k] = y]
  <2>1. /\ w \in Seq(T) /\ Len(w) = k + Len(c)
        /\ \A i \in 1 .. k + Len(c) :
             w[i] = IF i < k THEN a[i] ELSE IF i = k THEN y ELSE c[i - k]
    BY <1>2
  <2>2. /\ f \in Seq(T) /\ Len(f) = Len(e)
        /\ \A j \in 1 .. Len(e) : f[j] = IF j = k THEN y ELSE e[j]
    <3>1. e \in Seq(T) /\ k \in 1 .. Len(e) /\ y \in T
      BY <1>3, <1>4
    <3> QED BY ONLY <3>1, ExceptSeq
  <2> HIDE DEF w, f
  <2>3. ASSUME NEW i \in 1 .. Len(f) PROVE f[i] = w[i]
    <3>1. i \in 1 .. k + Len(c) /\ i \in 1 .. Len(e)
      BY <1>3, <2>2
    <3>4. f[i] = IF i = k THEN y ELSE e[i]
      BY ONLY <2>2, <3>1, Zenon
    <3>5. e[i] = IF i < k THEN a[i] ELSE IF i = k THEN x ELSE c[i - k]
      BY ONLY <1>3, <3>1, Zenon
    <3>6. w[i] = IF i < k THEN a[i] ELSE IF i = k THEN y ELSE c[i - k]
      BY ONLY <2>1, <3>1, Zenon
    <3>2. CASE i = k
      <4>1. ~(i < k)
        BY <1>1, <3>2
      <4> QED BY ONLY <3>2, <3>4, <3>6, <4>1
    <3>3. CASE i # k
      BY ONLY <3>3, <3>4, <3>5, <3>6
    <3> QED BY <3>2, <3>3
  <2>4. f = w
    BY <1>3, <2>1, <2>2, <2>3, SeqEqual
  <2> QED BY <2>4 DEF f, w
<1>7. SubSeq(e, 1, k - 1) = a
  <2> DEFINE s == SubSeq(e, 1, k - 1)
  <2>1. \A i \in 1 .. k - 1 : i \in 1 .. k + Len(c) /\ i \in 1 .. Len(e) /\ i < k
    BY <1>1, <1>3
  <2>2. \A i \in 1 .. k - 1 : e[i] \in T
    BY <1>3, <2>1, ElementOfSeq
  <2>3. /\ s \in Seq(T) /\ Len(s) = IF 1 <= k - 1 THEN (k - 1) - 1 + 1 ELSE 0
        /\ \A i \in 1 .. (k - 1) - 1 + 1 : s[i] = e[1 + i - 1]
    BY <1>1, <2>2, SubSeqProperties
  <2> HIDE DEF s
  <2>4. Len(s) = k - 1 /\ (k - 1) - 1 + 1 = k - 1 /\ \A i \in 1 .. k - 1 : 1 + i - 1 = i
    BY <1>1, <2>3
  <2>5. \A i \in 1 .. Len(s) : s[i] = a[i]
    BY <1>3, <2>1, <2>3, <2>4
  <2>6. s = a
    BY <1>1, <2>3, <2>4, <2>5, SeqEqual
  <2> QED BY <2>6 DEF s
<1>8. SubSeq(e, k + 1, Len(e)) = c
  <2> DEFINE s == SubSeq(e, k + 1, Len(e))
  <2>1. \A i \in k + 1 .. Len(e) : i \in 1 .. Len(e)
    BY <1>1, <1>3
  <2>2. \A i \in k + 1 .. Len(e) : e[i] \in T
    BY <1>3, <2>1, ElementOfSeq
  <2>3. /\ s \in Seq(T) /\ Len(s) = IF k + 1 <= Len(e) THEN Len(e) - (k + 1) + 1 ELSE 0
        /\ \A i \in 1 .. Len(e) - (k + 1) + 1 : s[i] = e[(k + 1) + i - 1]
    BY <1>1, <1>3, <2>2, SubSeqProperties
  <2> HIDE DEF s
  <2>4. /\ Len(s) = Len(c) /\ Len(e) - (k + 1) + 1 = Len(c)
        /\ \A i \in 1 .. Len(c) : /\ (k + 1) + i - 1 = k + i /\ k + i \in 1 .. k + Len(c)
                                  /\ ~(k + i < k) /\ k + i # k /\ (k + i) - k = i
    BY <1>1, <1>3, <2>3
  <2>5. ASSUME NEW i \in 1 .. Len(s) PROVE s[i] = c[i]
    <3>1. i \in 1 .. Len(c) /\ i \in 1 .. Len(e) - (k + 1) + 1
      BY <2>4
    <3>2. s[i] = e[k + i] /\ k + i \in 1 .. k + Len(c) /\ ~(k + i < k) /\ k + i # k /\ (k + i) - k = i
      BY <2>3, <2>4, <3>1
    <3> QED BY <1>3, <3>2
  <2>6. s = c
    BY <2>3, <2>4, <2>5, SeqEqual
  <2> QED BY <2>6 DEF s
<1> QED BY <1>3, <1>4, <1>5, <1>6, <1>7, <1>8 DEF Amid

-----------------------------------------------------------------------------
(* The refinement of OrderedMap *)

LEMMA NodesAre ==
  ASSUME TableOK
  PROVE  /\ Nodes \in Seq(Bucket) /\ DOMAIN Nodes = DOMAIN order /\ Len(Nodes) = Len(order)
         /\ \A n \in DOMAIN order : order[n] \in Index /\ Nodes[n] = buckets[order[n]]
<1>1. /\ order \in Seq(Index) /\ Len(order) \in Nat /\ DOMAIN order = 1 .. Len(order)
      /\ buckets \in [Index -> Bucket]
  BY LenProperties DEF TableOK, TableTyped
<1>2. \A n \in 1 .. Len(order) : order[n] \in Index
  BY <1>1, ElementOfSeq
<1>3. /\ Nodes = [n \in 1 .. Len(order) |-> buckets[order[n]]]
      /\ Nodes \in [1 .. Len(order) -> Bucket]
  BY <1>1, <1>2 DEF Nodes
<1>4. Nodes \in Seq(Bucket)
  BY <1>1, <1>3, SeqDef
<1> QED BY <1>1, <1>2, <1>3, <1>4, LenProperties

\* Between resizes the elements are those behind the list.
LEMMA Settled ==
  ASSUME TableOK, pending = <<>>
  PROVE  Elements = LiveElements(Nodes) /\ Elements \in Seq(LiveBucket)
<1>1. LiveElements(pending) = <<>>
  BY OnlyEmpty DEF LiveElements
<1>2. LiveElements(Nodes) \in Seq(LiveBucket)
  BY NodesAre, ElementsType
<1> QED BY <1>1, <1>2, ConcatEmptySeq DEF Elements

\* The elements after a step, in terms of the list and what is pending then.
LEMMA ElementsNext == Elements' = LiveElements(Nodes') \o LiveElements(pending')
BY DEF Elements, LiveElements, LiveBucket, Live, Bucket

\* A call whose key is in the table: the element has one place among the others,
\* where it is changed as its bucket is.
LEMMA HitIs ==
  ASSUME TableOK, pending = <<>>, call.p \in Ptr, Target \in Index, Hit,
         Content[buckets[Target].key] = Content[call.p]
  PROVE  /\ Ordered!Present /\ Elements[Ordered!Position] = buckets[Target]
         /\ \A b \in Bucket :
              buckets' = [buckets EXCEPT ![Target] = b] /\ UNCHANGED <<order, pending>>
                => Elements' = IF Live(b) THEN [Elements EXCEPT ![Ordered!Position] = b]
                               ELSE Ordered!Without(Ordered!Position)
<1> DEFINE x == buckets[Target]
<1>1. /\ Nodes \in Seq(Bucket) /\ DOMAIN Nodes = DOMAIN order
      /\ \A n \in DOMAIN order : order[n] \in Index /\ Nodes[n] = buckets[order[n]]
      /\ Elements = LiveElements(Nodes)
  BY NodesAre, Settled
<1>2. PICK n \in DOMAIN order : order[n] = Target
  <2>1. Target \in Used
    BY DEF Hit, Live, Vacant, Used
  <2> QED BY <2>1 DEF TableOK, ListCoversTable
<1>3. \A m \in DOMAIN order : m # n => order[m] # Target
  BY <1>2 DEF TableOK, ListCoversTable
<1>4. x \in Bucket /\ Live(x) /\ x \in LiveBucket /\ Nodes[n] = x
  BY <1>1, <1>2 DEF TableOK, TableTyped, Hit, LiveBucket
<1>5. PICK a, c : Split(Nodes, n, a, c)
  BY <1>1, Splitting
<1> DEFINE k == Len(a) + 1
           e == Append(a, x) \o c
<1>6. Elements = e
  <2>1. [Nodes EXCEPT ![n] = x] = Nodes
    BY <1>1, <1>4 DEF Nodes
  <2>2. LiveElements([Nodes EXCEPT ![n] = x]) = e
    BY <1>4, <1>5, Zenon DEF Split
  <2> QED BY <1>1, <2>1, <2>2
<1>7. /\ a \in Seq(LiveBucket) /\ c \in Seq(LiveBucket)
      /\ \A i \in DOMAIN a : \E m \in DOMAIN order : m # n /\ Nodes[m] = a[i]
      /\ \A i \in DOMAIN c : \E m \in DOMAIN order : m # n /\ Nodes[m] = c[i]
      /\ \A b \in Bucket : LiveElements([Nodes EXCEPT ![n] = b]) =
                             IF Live(b) THEN Append(a, b) \o c ELSE a \o c
  BY <1>1, <1>5 DEF Split
<1> HIDE DEF k, e, x
<1>8. /\ e \in Seq(LiveBucket) /\ k \in DOMAIN e /\ e[k] = x
      /\ \A i \in DOMAIN e : i # k => \/ i \in DOMAIN a /\ e[i] = a[i]
                                      \/ i - k \in DOMAIN c /\ e[i] = c[i - k]
      /\ \A y \in LiveBucket : [e EXCEPT ![k] = y] = Append(a, y) \o c
      /\ SubSeq(e, 1, k - 1) \o SubSeq(e, k + 1, Len(e)) = a \o c
  <2>1. e = Append(a, x) \o c /\ k = Len(a) + 1
    BY DEF e, k
  <2>2. Amid(LiveBucket, a, x, c, e, k)
    BY <1>4, <1>7, <2>1, Between
  <2> QED BY <2>2, Zenon DEF Amid
<1>9. ASSUME NEW i \in DOMAIN e, i # k PROVE Content[e[i].key] # Content[call.p]
  <2>1. PICK m \in DOMAIN order : m # n /\ Nodes[m] = e[i]
    <3>1. CASE i \in DOMAIN a /\ e[i] = a[i]
      BY <1>7, <3>1
    <3>2. CASE i - k \in DOMAIN c /\ e[i] = c[i - k]
      BY <1>7, <3>2
    <3> QED BY <1>8, <1>9, <3>1, <3>2
  <2>2. e[i] \in LiveBucket
    BY <1>8, LenProperties, ElementOfSeq
  <2>3. order[m] \in Index /\ order[m] # Target /\ Live(buckets[order[m]]) /\ e[i] = buckets[order[m]]
    BY <1>1, <1>3, <2>1, <2>2 DEF LiveBucket
  <2>4. ~SameKey(buckets[order[m]], buckets[Target])
    BY <2>3 DEF TableOK, Distinct, Hit
  <2> QED BY <2>3, <2>4 DEF SameKey
<1>10. Ordered!Positions = {k}
  <2>1. Content[e[k].key] = Content[call.p]
    BY <1>8 DEF x
  <2> QED BY <1>6, <1>8, <1>9, <2>1 DEF Ordered!Positions
<1>11. Ordered!Present /\ Ordered!Position = k
  BY <1>10 DEF Ordered!Present, Ordered!Position
<1>12. ASSUME NEW b \in Bucket, buckets' = [buckets EXCEPT ![Target] = b],
              UNCHANGED <<order, pending>>
       PROVE  Elements' = IF Live(b) THEN [e EXCEPT ![k] = b] ELSE a \o c
  <2>1. buckets' \in [Index -> Bucket] /\ \A j \in Index : buckets'[j] = IF j = Target THEN b ELSE buckets[j]
    BY <1>12 DEF TableOK, TableTyped
  <2>2. Nodes' = [Nodes EXCEPT ![n] = b]
    <3>1. \A m \in DOMAIN order : buckets'[order[m]] = IF m = n THEN b ELSE Nodes[m]
      BY <1>1, <1>2, <1>3, <2>1
    <3>2. Nodes' = [m \in DOMAIN order |-> buckets'[order[m]]]
      BY <1>12 DEF Nodes
    <3>3. [Nodes EXCEPT ![n] = b] = [m \in DOMAIN order |-> IF m = n THEN b ELSE Nodes[m]]
      BY <1>1
    <3> QED BY <3>1, <3>2, <3>3
  <2>3. Elements' = LiveElements(Nodes')
    <3>1. LiveElements(pending') = <<>>
      BY <1>12, OnlyEmpty DEF LiveElements
    <3>2. Nodes' \in Seq(Bucket)
      <4>1. Len(Nodes) \in Nat /\ n \in 1 .. Len(Nodes)
        BY <1>1, LenProperties
      <4> QED BY <1>1, <1>12, <2>2, <4>1, ExceptSeq
    <3>3. LiveElements(Nodes') \in Seq(LiveBucket)
      BY <3>2, ElementsType
    <3> QED BY <3>1, <3>3, ElementsNext, ConcatEmptySeq
  <2>4. Elements' = IF Live(b) THEN Append(a, b) \o c ELSE a \o c
    BY <1>7, <1>12, <2>2, <2>3
  <2>5. Live(b) => b \in LiveBucket
    BY <1>12 DEF LiveBucket
  <2> QED BY <1>8, <2>4, <2>5
<1>13. Ordered!Without(k) = a \o c
  BY <1>6, <1>8 DEF Ordered!Without
<1> QED BY <1>6, <1>8, <1>11, <1>12, <1>13 DEF x

\* A bucket that is linked last is the last node.
LEMMA NodesGrow ==
  ASSUME TableOK, NEW i \in Index, Vacant(buckets[i]), NEW b \in Bucket, Live(b),
         buckets' = [buckets EXCEPT ![i] = b], order' = Append(order, i)
  PROVE  /\ Nodes' \in Seq(Bucket)
         /\ LiveElements(Nodes') = Append(LiveElements(Nodes), b)
<1>1. /\ Nodes \in Seq(Bucket) /\ Len(Nodes) = Len(order)
      /\ \A n \in DOMAIN order : order[n] \in Index /\ Nodes[n] = buckets[order[n]]
  BY NodesAre
<1>2. \A j \in Index : buckets'[j] = IF j = i THEN b ELSE buckets[j]
  BY DEF TableOK, TableTyped
<1>3. \A n \in DOMAIN order : order[n] # i
  BY DEF TableOK, ListCoversTable, Used
<1>4. /\ Len(order) \in Nat /\ DOMAIN order = 1 .. Len(order)
      /\ DOMAIN order' = 1 .. Len(order) + 1
      /\ \A n \in 1 .. Len(order) : order'[n] = order[n]
      /\ order'[Len(order) + 1] = i
  <2>1. order \in Seq(Index)
    BY DEF TableOK, TableTyped
  <2> QED BY <2>1, AppendProperties, LenProperties
<1>5. Nodes' = Append(Nodes, b) /\ Append(Nodes, b) \in Seq(Bucket)
  <2> DEFINE new == Append(Nodes, b)
  <2>1. /\ new \in Seq(Bucket) /\ Len(new) = Len(order) + 1
        /\ \A n \in 1 .. Len(order) : new[n] = Nodes[n]
        /\ new[Len(order) + 1] = b
    BY <1>1, AppendProperties
  <2> HIDE DEF new
  <2>2. DOMAIN new = 1 .. Len(order) + 1 /\ new = [n \in DOMAIN new |-> new[n]]
    BY <2>1, LenProperties
  <2>3. 1 .. Len(order) + 1 = (1 .. Len(order)) \cup {Len(order) + 1}
    BY <1>4
  <2>4. \A n \in 1 .. Len(order) + 1 : buckets'[order'[n]] = new[n]
    BY <1>1, <1>2, <1>3, <1>4, <2>1, <2>3
  <2>5. Nodes' = [n \in 1 .. Len(order) + 1 |-> buckets'[order'[n]]]
    BY <1>4 DEF Nodes
  <2>6. new = [n \in 1 .. Len(order) + 1 |-> new[n]]
    BY <2>2
  <2>7. Nodes' = new
    BY <2>4, <2>5, <2>6
  <2> QED BY <2>1, <2>7 DEF new
<1>6. b \in LiveBucket
  BY DEF LiveBucket
<1>7. Only(Append(Nodes, b), LiveBucket) =
        IF b \in LiveBucket THEN Append(Only(Nodes, LiveBucket), b) ELSE Only(Nodes, LiveBucket)
  BY <1>1, OnlyAppend
<1>8. Only(Nodes', LiveBucket) = Append(Only(Nodes, LiveBucket), b)
  BY <1>5, <1>6, <1>7
<1> QED BY <1>5, <1>8 DEF LiveElements, LiveBucket

\* A call whose key is not in the table: no element has it.
LEMMA MissIs ==
  ASSUME TableOK, pending = <<>>,
         \A i \in Index : Live(buckets[i]) => Content[buckets[i].key] # Content[call.p]
  PROVE  ~Ordered!Present
<1>1. /\ Nodes \in Seq(Bucket) /\ DOMAIN Nodes = DOMAIN order
      /\ \A n \in DOMAIN order : order[n] \in Index /\ Nodes[n] = buckets[order[n]]
      /\ Elements = LiveElements(Nodes)
  BY NodesAre, Settled
<1>2. ASSUME NEW i \in DOMAIN Elements PROVE Content[Elements[i].key] # Content[call.p]
  <2>1. PICK n \in DOMAIN Nodes : Nodes[n] = Elements[i] /\ Live(Nodes[n])
    BY <1>1, ElementsType
  <2> QED BY <1>1, <2>1
<1> QED BY <1>2 DEF Ordered!Present, Ordered!Positions

\* An insertion adds one at the end.
LEMMA ElementsGrow ==
  ASSUME TableOK, pending = <<>>, pending' = <<>>,
         NEW i \in Index, Vacant(buckets[i]), NEW b \in Bucket, Live(b),
         buckets' = [buckets EXCEPT ![i] = b], order' = Append(order, i)
  PROVE  Elements' = Append(Elements, b)
<1>1. Elements = LiveElements(Nodes)
  BY NodesAre, Settled
<1>2. /\ Nodes' \in Seq(Bucket)
      /\ LiveElements(Nodes') = Append(LiveElements(Nodes), b)
  BY NodesGrow
<1>3. LiveElements(pending') = <<>>
  BY OnlyEmpty DEF LiveElements
<1>4. LiveElements(Nodes') \in Seq(LiveBucket)
  BY <1>2, ElementsType
<1>5. Elements' = LiveElements(Nodes')
  BY <1>3, <1>4, ElementsNext, ConcatEmptySeq
<1> QED BY <1>1, <1>2, <1>5

\* Resizing is invisible: the list becomes pending, and its elements come back
\* one by one, in their order.
LEMMA BeginInvisible ==
  ASSUME TableOK, pending = <<>>, BeginResize
  PROVE  Elements' = Elements
<1>1. Nodes \in Seq(Bucket) /\ Elements = LiveElements(Nodes)
  BY NodesAre, Settled
<1>2. pending' = Nodes /\ order' = <<>>
  BY DEF BeginResize, Nodes
<1>3. Nodes' = <<>>
  BY <1>2 DEF Nodes
<1>4. LiveElements(<<>>) = <<>>
  BY OnlyEmpty DEF LiveElements
<1>5. LiveElements(Nodes) \in Seq(LiveBucket)
  BY <1>1, ElementsType
<1> QED BY <1>1, <1>2, <1>3, <1>4, <1>5, ElementsNext, ConcatEmptySeq

LEMMA MoveInvisible ==
  ASSUME TableOK, \A i \in Index : buckets[i] # Dead, pending # <<>>,
         MoveHead, pending' = Tail(pending)
  PROVE  Elements' = Elements
<1> DEFINE old == Head(pending)
           rest == LiveElements(Tail(pending))
           moved == LiveElements(Nodes)
<1>1. /\ pending \in Seq(Bucket) /\ old \in Bucket /\ Tail(pending) \in Seq(Bucket)
      /\ pending = <<old>> \o Tail(pending)
  <2>1. pending \in Seq(Bucket) /\ Len(pending) \in Nat \ {0}
    BY EmptySeq DEF TableOK, TableTyped
  <2>2. old \in Bucket /\ Tail(pending) \in Seq(Bucket) /\ Tail(pending) = SubSeq(pending, 2, Len(pending))
    BY <2>1, HeadTailProperties, TailIsSubSeq
  <2>3. SubSeq(pending, 1, Len(pending)) = <<pending[1]>> \o SubSeq(pending, 1 + 1, Len(pending))
    <3>1. 1 \in 1 .. Len(pending) /\ Len(pending) \in 1 .. Len(pending)
      BY <2>1
    <3> QED BY <2>1, <3>1, SubSeqRecursiveFirst
  <2>4. SubSeq(pending, 1, Len(pending)) = pending /\ old = pending[1] /\ 1 + 1 = 2
    BY <2>1, SubSeqFull
  <2> QED BY <2>1, <2>2, <2>3, <2>4
<1>2. /\ Nodes \in Seq(Bucket) /\ moved \in Seq(LiveBucket) /\ rest \in Seq(LiveBucket)
  BY <1>1, NodesAre, ElementsType
<1> HIDE DEF old, rest, moved
<1>3. LiveElements(pending) = IF Live(old) THEN <<old>> \o rest ELSE rest
  <2>1. <<old>> \in Seq(Bucket) /\ <<old>> = Append(<<>>, old) /\ <<>> \in Seq(Bucket)
    BY <1>1
  <2>2. Only(Append(<<>>, old), LiveBucket) =
          IF old \in LiveBucket THEN Append(Only(<<>>, LiveBucket), old) ELSE Only(<<>>, LiveBucket)
    BY <1>1, <2>1, OnlyAppend
  <2>3. Only(<<old>>, LiveBucket) = IF Live(old) THEN <<old>> ELSE <<>>
    <3>1. old \in LiveBucket <=> Live(old)
      BY <1>1 DEF LiveBucket
    <3> QED BY <2>1, <2>2, <3>1, OnlyEmpty
  <2>4. Only(pending, LiveBucket) = Only(<<old>>, LiveBucket) \o Only(Tail(pending), LiveBucket)
    <3> DEFINE t == Tail(pending)
               one == <<old>>
    <3>1. Only(one \o t, LiveBucket) = Only(one, LiveBucket) \o Only(t, LiveBucket)
      <4>1. t \in Seq(Bucket) /\ one \in Seq(Bucket)
        BY <1>1, <2>1
      <4> HIDE DEF t, one
      <4> QED BY <4>1, OnlyConcat
    <3> QED BY <1>1, <3>1
  <2>5. rest = Only(Tail(pending), LiveBucket) /\ LiveElements(pending) = Only(pending, LiveBucket)
    BY DEF rest, LiveElements, LiveBucket
  <2>6. <<>> \o rest = rest
    BY <1>2, ConcatEmptySeq
  <2> QED BY <2>3, <2>4, <2>5, <2>6
<1>4. Elements = moved \o LiveElements(pending) /\ Elements' = LiveElements(Nodes') \o rest
  <2>1. Elements' = LiveElements(Nodes') \o LiveElements(pending')
    BY ElementsNext
  <2> QED BY <2>1 DEF Elements, moved, rest
<1>5. CASE Live(old)
  <2> DEFINE i == ResizeEntry(Content[old.key])
  <2>1. old.key \in Ptr /\ old \in LiveBucket
    BY <1>1, <1>5 DEF Live, Bucket, LiveBucket
  <2>2. i \in Index /\ Vacant(buckets[i])
    BY <2>1, RoomFor
  <2>3. buckets' = [buckets EXCEPT ![i] = old] /\ order' = Append(order, i)
    BY <1>5 DEF MoveHead, old
  <2> HIDE DEF i
  <2>4. LiveElements(Nodes') = Append(moved, old)
    BY <1>1, <1>5, <2>2, <2>3, NodesGrow DEF moved
  <2>5. Append(moved, old) = moved \o <<old>> /\ <<old>> \in Seq(LiveBucket)
    BY <1>2, <2>1, AppendIsConcat
  <2>6. (moved \o <<old>>) \o rest = moved \o (<<old>> \o rest)
    BY <1>2, <2>5, ConcatAssociative
  <2> QED BY <1>3, <1>4, <1>5, <2>4, <2>5, <2>6
<1>6. CASE ~Live(old)
  <2>1. UNCHANGED <<buckets, order>>
    BY <1>6 DEF MoveHead, old
  <2>2. LiveElements(Nodes') = moved
    BY <2>1 DEF Nodes, moved
  <2> QED BY <1>3, <1>4, <1>6, <2>2
<1> QED BY <1>5, <1>6

\* hashmap_size counts the elements, and the list is as long as count says.
LEMMA SizeIs ==
  ASSUME TableOK, pending = <<>>
  PROVE  Len(Elements) = count - tombstone_count /\ Len(Nodes) = count
<1> DEFINE L == {n \in DOMAIN Nodes : Live(Nodes[n])}
<1>1. TableTyped /\ Shape /\ CountsMatch /\ ListCoversTable
  BY DEF TableOK
<1>2. /\ Nodes \in Seq(Bucket) /\ DOMAIN Nodes = DOMAIN order /\ Len(Nodes) = Len(order)
      /\ \A n \in DOMAIN order : order[n] \in Index /\ Nodes[n] = buckets[order[n]]
  BY NodesAre
<1>3. Len(Elements) = Cardinality(L)
  BY <1>2, Settled, ElementCount
<1>4. Cardinality(L) = Cardinality(LiveIndex)
  <2> DEFINE f == [n \in L |-> order[n]]
  <2>1. f \in [L -> LiveIndex] /\ \A m, n \in L : f[m] = f[n] => m = n
    BY <1>1, <1>2 DEF LiveIndex, ListCoversTable
  <2>2. \A i \in LiveIndex : \E n \in L : f[n] = i
    <3> SUFFICES ASSUME NEW i \in LiveIndex PROVE \E n \in L : f[n] = i
      OBVIOUS
    <3>1. i \in Used /\ Live(buckets[i])
      BY DEF LiveIndex, Used, Live, Vacant
    <3>2. PICK n \in DOMAIN order : order[n] = i
      BY <1>1, <3>1 DEF ListCoversTable
    <3> QED BY <1>2, <3>1, <3>2
  <2>3. IsFiniteSet(LiveIndex)
    BY <1>1, Counted
  <2> HIDE DEF f, L
  <2> QED BY <2>1, <2>2, <2>3, SameSize
<1>5. Cardinality(DOMAIN order) = Cardinality(Used)
  <2>1. order \in [DOMAIN order -> Used]
    BY <1>1, LenProperties DEF TableTyped, ListCoversTable
  <2>2. /\ \A m, n \in DOMAIN order : order[m] = order[n] => m = n
        /\ \A i \in Used : \E n \in DOMAIN order : order[n] = i
    BY <1>1 DEF ListCoversTable
  <2>3. IsFiniteSet(Used)
    BY <1>1, Counted
  <2> QED BY <2>1, <2>2, <2>3, SameSize
<1>6. Cardinality(DOMAIN order) = Len(order) /\ Len(order) \in Nat
  <2>1. Len(order) \in Nat /\ DOMAIN order = 1 .. Len(order)
    BY <1>1, LenProperties DEF TableTyped
  <2>2. Cardinality(1 .. Len(order)) = IF 1 > Len(order) THEN 0 ELSE Len(order) - 1 + 1
    BY <2>1, FS_Interval
  <2> QED BY <2>1, <2>2
<1>7. Cardinality(PendingLive) = 0
  BY FS_EmptySet DEF PendingLive
<1>8. /\ count = Cardinality(Used) + 0 /\ tombstone_count = Cardinality(DeadIndex)
      /\ Cardinality(Used) = Cardinality(LiveIndex) + Cardinality(DeadIndex)
  BY <1>1, <1>7, LiveAndDead DEF CountsMatch, DeadIndex
<1>9. /\ Cardinality(Used) \in Nat /\ Cardinality(LiveIndex) \in Nat /\ Cardinality(DeadIndex) \in Nat
  BY <1>1, Counted
<1> QED BY <1>2, <1>3, <1>4, <1>5, <1>6, <1>8, <1>9

\* What an operation finds: its call, no resize under way, and the bucket of
\* its key or the one where the key would go.
LEMMA Applied ==
  ASSUME IInv, NEW op, Applies(op)
  PROVE  /\ TableOK /\ pending = <<>> /\ pending' = <<>>
         /\ call \in Calls /\ call.op = op /\ call' = NoCall /\ Ordered!Answers(op)
         /\ op \notin MapOps =>
              /\ call.p \in Ptr /\ Target \in Index
              /\ IF Hit THEN Content[buckets[Target].key] = Content[call.p]
                 ELSE /\ Vacant(buckets[Target])
                      /\ \A i \in Index : Live(buckets[i]) => Content[buckets[i].key] # Content[call.p]
         /\ op \in Setters => /\ Ordered!Element = [key |-> call.p, value |-> call.v]
                              /\ Ordered!Element \in Bucket /\ Live(Ordered!Element)
<1>1. /\ TableOK /\ pending = <<>> /\ pending' = <<>> /\ call \in Calls /\ call.op = op
      /\ call' = NoCall /\ (op \notin MapOps => Stops(Content[call.p]) # {})
  BY DEF IInv, CallOK, Applies
<1>2. Ordered!Answers(op)
  BY <1>1 DEF Ordered!Answers
<1>3. ASSUME op \notin MapOps PROVE call.p \in Ptr
  BY <1>1, <1>3 DEF Calls, MapOps
<1>4. ASSUME op \notin MapOps
      PROVE  /\ Target \in Index
             /\ IF Hit THEN Content[buckets[Target].key] = Content[call.p]
                ELSE /\ Vacant(buckets[Target])
                     /\ \A i \in Index : Live(buckets[i]) => Content[buckets[i].key] # Content[call.p]
  BY <1>1, <1>3, <1>4, ProbeMisses DEF Target, Hit
<1>5. ASSUME op \in Setters
      PROVE  /\ Ordered!Element = [key |-> call.p, value |-> call.v]
             /\ Ordered!Element \in Bucket /\ Live(Ordered!Element)
  <2>1. call.p \in Ptr /\ call.v \in Value
    BY <1>1, <1>5 DEF Calls, Setters, MapOps, KeyOps
  <2> QED BY <2>1, KeysAssumption DEF Ordered!Element, Bucket, Live
<1> QED BY <1>1, <1>2, <1>3, <1>4, <1>5

LEMMA SameElements == UNCHANGED <<table, pending>> => Elements' = Elements
BY ElementsNext DEF Elements, Nodes, table

\* An insertion by one of the setters.
LEMMA InsertMaps ==
  ASSUME IInv, NEW op \in Setters, Applies(op), ~Hit, Insert
  PROVE  ~Ordered!Present /\ Elements' = Append(Elements, Ordered!Element)
<1>1. op \notin MapOps
  BY DEF Setters, MapOps
<1>2. /\ TableOK /\ pending = <<>> /\ pending' = <<>> /\ Target \in Index
      /\ Vacant(buckets[Target])
      /\ \A i \in Index : Live(buckets[i]) => Content[buckets[i].key] # Content[call.p]
  BY <1>1, Applied
<1>3. /\ Ordered!Element = [key |-> call.p, value |-> call.v]
      /\ Ordered!Element \in Bucket /\ Live(Ordered!Element)
  BY Applied
<1>4. buckets' = [buckets EXCEPT ![Target] = Ordered!Element] /\ order' = Append(order, Target)
  BY <1>3 DEF Insert
<1>5. ~Ordered!Present
  BY <1>2, MissIs
<1>6. Elements' = Append(Elements, Ordered!Element)
  <2> DEFINE b == Ordered!Element
             t == Target
  <2>1. /\ t \in Index /\ Vacant(buckets[t]) /\ b \in Bucket /\ Live(b)
        /\ buckets' = [buckets EXCEPT ![t] = b] /\ order' = Append(order, t)
    BY <1>2, <1>3, <1>4
  <2> HIDE DEF b, t
  <2>2. Elements' = Append(Elements, b)
    BY ONLY <1>2, <2>1, ElementsGrow
  <2> QED BY <2>2 DEF b
<1> QED BY <1>2, <1>3, <1>4, <1>5, <1>6

LEMMA SetMaps == IInv /\ Set => Ordered!Set
<1> SUFFICES ASSUME IInv, Set PROVE Ordered!Set
  OBVIOUS
<1>1. Applies("set") /\ ret' = NoOutcome /\ "set" \in Setters /\ "set" \notin MapOps
  BY DEF Set, Setters, MapOps
<1>2. Ordered!Answers("set") /\ NoOutcome = Ordered!NoOutcome
  BY <1>1, Applied DEF NoOutcome, Outcome, Ordered!NoOutcome, Ordered!Outcome
<1>3. CASE Hit
  <2> DEFINE x == buckets[Target]
             b == [x EXCEPT !.value = call.v]
  <2>1. /\ TableOK /\ pending = <<>> /\ pending' = <<>> /\ call \in Calls /\ call.op = "set"
        /\ call.p \in Ptr /\ Target \in Index /\ Content[x.key] = Content[call.p]
    BY <1>1, <1>3, Applied
  <2>2. x \in Bucket /\ Live(x) /\ call.v \in Value
    BY <1>3, <2>1 DEF TableOK, TableTyped, Hit, Calls, Setters, KeyOps, MapOps
  <2>3. b \in Bucket /\ Live(b)
    BY <2>2 DEF Bucket, Live
  <2>4. buckets' = [buckets EXCEPT ![Target] = b] /\ UNCHANGED <<order, pending>>
    BY <1>3, <2>1, <1>1 DEF Set
  <2> HIDE DEF b
  <2>5. /\ Ordered!Present /\ Elements[Ordered!Position] = x
        /\ Elements' = [Elements EXCEPT ![Ordered!Position] = b]
    BY <1>3, <2>1, <2>3, <2>4, HitIs
  <2>6. Elements' = [Elements EXCEPT ![Ordered!Position].value = call.v]
    BY <2>5 DEF b
  <2> QED BY <1>1, <1>2, <2>5, <2>6 DEF Ordered!Set
<1>4. CASE ~Hit
  <2>1. Insert
    BY <1>4 DEF Set
  <2>2. ~Ordered!Present /\ Elements' = Append(Elements, Ordered!Element)
    BY <1>1, <1>4, <2>1, InsertMaps
  <2> QED BY <1>1, <1>2, <2>2 DEF Ordered!Set
<1> QED BY <1>3, <1>4

LEMMA SetFreeMaps == IInv /\ SetFree => Ordered!SetFree
<1> SUFFICES ASSUME IInv, SetFree PROVE Ordered!SetFree
  OBVIOUS
<1>1. Applies("set_free") /\ "set_free" \in Setters /\ "set_free" \notin MapOps
  BY DEF SetFree, Setters, MapOps
<1>2. Ordered!Answers("set_free")
  BY <1>1, Applied
<1>3. CASE Hit
  <2> DEFINE x == buckets[Target]
             b == Ordered!Element
  <2>1. /\ TableOK /\ pending = <<>> /\ pending' = <<>>
        /\ call.p \in Ptr /\ Target \in Index /\ Content[x.key] = Content[call.p]
    BY <1>1, <1>3, Applied
  <2>2. b = [key |-> call.p, value |-> call.v] /\ b \in Bucket /\ Live(b)
    BY <1>1, Applied
  <2>3. x \in Bucket
    BY <2>1 DEF TableOK, TableTyped
  <2>4. Element(x) = x
    BY <2>3 DEF Element, Bucket
  <2>5. /\ buckets' = [buckets EXCEPT ![Target] = b] /\ UNCHANGED <<order, pending>>
        /\ ret' = Outcome(FALSE, 0, <<x>>)
    BY <1>3, <2>1, <2>2, <2>4 DEF SetFree
  <2> HIDE DEF b
  <2>6. /\ Ordered!Present /\ Elements[Ordered!Position] = x
        /\ Elements' = [Elements EXCEPT ![Ordered!Position] = b]
    BY <1>3, <2>1, <2>2, <2>5, HitIs
  <2> QED BY <1>2, <2>5, <2>6 DEF Ordered!SetFree, Outcome, Ordered!Outcome, b
<1>4. CASE ~Hit
  <2>1. Insert /\ ret' = NoOutcome
    BY <1>4 DEF SetFree
  <2>2. ~Ordered!Present /\ Elements' = Append(Elements, Ordered!Element)
    BY <1>1, <1>4, <2>1, InsertMaps
  <2> QED BY <1>2, <2>1, <2>2 DEF Ordered!SetFree, NoOutcome, Outcome, Ordered!Outcome
<1> QED BY <1>3, <1>4

LEMMA GetSetMaps == IInv /\ GetSet => Ordered!GetSet
<1> SUFFICES ASSUME IInv, GetSet PROVE Ordered!GetSet
  OBVIOUS
<1>1. Applies("get_set") /\ "get_set" \in Setters /\ "get_set" \notin MapOps
  BY DEF GetSet, Setters, MapOps
<1>2. Ordered!Answers("get_set")
  BY <1>1, Applied
<1>3. CASE Hit
  <2> DEFINE x == buckets[Target]
  <2>1. /\ TableOK /\ pending = <<>> /\ pending' = <<>>
        /\ call.p \in Ptr /\ Target \in Index /\ Content[x.key] = Content[call.p]
    BY <1>1, <1>3, Applied
  <2>2. ret' = Outcome(TRUE, x.value, <<>>) /\ UNCHANGED table
    BY <1>3 DEF GetSet
  <2>3. Ordered!Present = TRUE /\ Elements[Ordered!Position] = x
    BY <1>3, <2>1, HitIs DEF Ordered!Present
  <2>4. Elements' = Elements
    BY <2>1, <2>2, SameElements
  <2> QED BY <1>2, <2>2, <2>3, <2>4 DEF Ordered!GetSet, Outcome, Ordered!Outcome
<1>4. CASE ~Hit
  <2>1. Insert /\ ret' = Outcome(FALSE, call.v, <<>>)
    BY <1>4 DEF GetSet
  <2>2. Ordered!Present = FALSE /\ Elements' = Append(Elements, Ordered!Element)
    BY <1>1, <1>4, <2>1, InsertMaps DEF Ordered!Present
  <2> QED BY <1>2, <2>1, <2>2 DEF Ordered!GetSet, Outcome, Ordered!Outcome
<1> QED BY <1>3, <1>4

LEMMA GetMaps == IInv /\ Get => Ordered!Get
<1> SUFFICES ASSUME IInv, Get PROVE Ordered!Get
  OBVIOUS
<1> DEFINE x == buckets[Target]
<1>1. /\ Applies("get") /\ "get" \notin MapOps
      /\ ret' = Outcome(Hit, x.value, <<>>) /\ UNCHANGED table
  BY DEF Get, MapOps
<1>2. /\ Ordered!Answers("get") /\ TableOK /\ pending = <<>> /\ pending' = <<>>
      /\ call.p \in Ptr /\ Target \in Index
      /\ IF Hit THEN Content[x.key] = Content[call.p]
         ELSE /\ Vacant(x)
              /\ \A i \in Index : Live(buckets[i]) => Content[buckets[i].key] # Content[call.p]
  BY <1>1, Applied
<1>3. Elements' = Elements
  BY <1>1, <1>2, SameElements
<1>4. CASE Hit
  <2>1. Ordered!Present = TRUE /\ Elements[Ordered!Position] = x
    BY <1>2, <1>4, HitIs DEF Ordered!Present
  <2>2. Hit = TRUE
    BY <1>4 DEF Hit, Live
  <2>3. ret' = Outcome(TRUE, x.value, <<>>)
    BY <1>1, <2>2
  <2> QED BY <1>2, <1>3, <2>1, <2>3 DEF Ordered!Get, Outcome, Ordered!Outcome
<1>5. CASE ~Hit
  <2>1. ~Ordered!Present /\ x.value = 0
    BY <1>2, <1>5, MissIs DEF Vacant
  <2>2. Hit = FALSE /\ Ordered!Present = FALSE
    BY <1>5, <2>1 DEF Hit, Live, Ordered!Present
  <2>3. ret' = Outcome(FALSE, 0, <<>>)
    BY <1>1, <2>1, <2>2
  <2> QED BY <1>2, <1>3, <2>1, <2>2, <2>3 DEF Ordered!Get, Outcome, Ordered!Outcome
<1> QED BY <1>4, <1>5

\* Both removals bury the bucket; they differ in what the caller sees.
LEMMA BuryMaps ==
  ASSUME IInv, NEW op \in {"remove", "remove_free"}, Applies(op), Bury
  PROVE  /\ Ordered!Answers(op)
         /\ Ordered!Present <=> Hit
         /\ Elements' = IF Ordered!Present THEN Ordered!Without(Ordered!Position) ELSE Elements
         /\ Hit => Elements[Ordered!Position] = Element(buckets[Target])
<1> DEFINE x == buckets[Target]
<1>1. /\ Ordered!Answers(op) /\ TableOK /\ pending = <<>> /\ pending' = <<>>
      /\ call.p \in Ptr /\ Target \in Index
      /\ IF Hit THEN Content[x.key] = Content[call.p]
         ELSE /\ Vacant(x)
              /\ \A i \in Index : Live(buckets[i]) => Content[buckets[i].key] # Content[call.p]
  <2>1. op \notin MapOps
    BY DEF MapOps
  <2> QED BY <2>1, Applied
<1>2. CASE Hit
  <2>1. Dead \in Bucket /\ ~Live(Dead)
    BY DEF Dead, Bucket, Live
  <2>2. buckets' = [buckets EXCEPT ![Target] = Dead] /\ UNCHANGED <<order, pending>>
    BY <1>1, <1>2 DEF Bury
  <2> HIDE DEF Dead
  <2>3. /\ Ordered!Present /\ Elements[Ordered!Position] = x
        /\ Elements' = Ordered!Without(Ordered!Position)
    BY <1>1, <1>2, <2>1, <2>2, HitIs
  <2>4. Element(x) = x
    BY <1>1 DEF TableOK, TableTyped, Element, Bucket
  <2> QED BY <1>1, <1>2, <2>3, <2>4
<1>3. CASE ~Hit
  <2>1. ~Ordered!Present
    BY <1>1, <1>3, MissIs
  <2>2. Elements' = Elements
    BY <1>1, <1>3, SameElements DEF Bury
  <2> QED BY <1>1, <1>3, <2>1, <2>2
<1> QED BY <1>2, <1>3

LEMMA RemoveMaps == IInv /\ (Remove \/ RemoveFree) => Ordered!Remove
<1> SUFFICES ASSUME IInv, Remove \/ RemoveFree PROVE Ordered!Remove
  OBVIOUS
<1>1. CASE Remove
  <2>1. Applies("remove") /\ Bury /\ ret' = NoOutcome
    BY <1>1 DEF Remove
  <2>2. /\ Ordered!Answers("remove")
        /\ Elements' = IF Ordered!Present THEN Ordered!Without(Ordered!Position) ELSE Elements
    BY <2>1, BuryMaps
  <2>3. call.op # "remove_free"
    BY <2>1 DEF Applies
  <2> QED BY <2>1, <2>2, <2>3 DEF Ordered!Remove, NoOutcome, Outcome, Ordered!Outcome
<1>2. CASE RemoveFree
  <2>1. /\ Applies("remove_free") /\ Bury /\ call.op = "remove_free"
        /\ ret' = Outcome(FALSE, 0, IF Hit THEN <<Element(buckets[Target])>> ELSE <<>>)
    BY <1>2 DEF RemoveFree, Applies
  <2>2. /\ Ordered!Answers("remove_free")
        /\ Ordered!Present <=> Hit
        /\ Elements' = IF Ordered!Present THEN Ordered!Without(Ordered!Position) ELSE Elements
        /\ Hit => Elements[Ordered!Position] = Element(buckets[Target])
    BY <2>1, BuryMaps
  <2> QED BY <2>1, <2>2 DEF Ordered!Remove, Outcome, Ordered!Outcome
<1> QED BY <1>1, <1>2

LEMMA SizeMaps == IInv /\ Size => Ordered!Size
<1> SUFFICES ASSUME IInv, Size PROVE Ordered!Size
  OBVIOUS
<1>1. /\ Applies("size") /\ UNCHANGED table
      /\ ret' = Outcome(FALSE, count - tombstone_count, <<>>)
  BY DEF Size
<1>2. Ordered!Answers("size") /\ TableOK /\ pending = <<>> /\ pending' = <<>>
  BY <1>1, Applied
<1>3. Elements' = Elements /\ Len(Elements) = count - tombstone_count
  BY <1>1, <1>2, SameElements, SizeIs
<1> QED BY <1>1, <1>2, <1>3 DEF Ordered!Size, Outcome, Ordered!Outcome

\* hashmap_iterate passes IterBreak + 2 nodes of the list before it gives up:
\* it is not cut short if there are no more.
Uncut == Iterate => count <= IterBreak + 2

LEMMA IterateMaps == IInv /\ Uncut /\ Iterate => Ordered!Iterate
<1> SUFFICES ASSUME IInv, Uncut, Iterate PROVE Ordered!Iterate
  OBVIOUS
<1> DEFINE last == IF Len(Nodes) <= IterBreak + 2 THEN Len(Nodes) ELSE IterBreak + 2
<1>1. /\ Applies("iterate") /\ UNCHANGED table
      /\ ret' = Outcome(FALSE, 0, LiveElements(SubSeq(Nodes, 1, last)))
  BY DEF Iterate
<1>2. Ordered!Answers("iterate") /\ TableOK /\ pending = <<>> /\ pending' = <<>>
  BY <1>1, Applied
<1>3. Elements' = Elements /\ Len(Nodes) = count /\ Elements = LiveElements(Nodes)
  BY <1>1, <1>2, SameElements, SizeIs, Settled
<1>4. Len(Nodes) <= IterBreak + 2
  BY <1>3 DEF Uncut
<1>5. SubSeq(Nodes, 1, last) = Nodes
  BY <1>2, <1>4, NodesAre, SubSeqFull
<1> QED BY <1>1, <1>2, <1>3, <1>5 DEF Ordered!Iterate, Outcome, Ordered!Outcome

LEMMA StepMaps ==
  IInv /\ [Uncut]_vars /\ [Next]_vars => [Ordered!Next]_(Ordered!vars)
<1> SUFFICES ASSUME IInv, [Uncut]_vars, [Next]_vars
             PROVE  Ordered!Next \/ UNCHANGED Ordered!vars
  BY DEF Ordered!vars
<1>1. ASSUME NEW request \in Calls, Call(request) PROVE Ordered!Call
  <2>1. TableOK /\ pending = <<>> /\ call = NoCall /\ call' = request /\ UNCHANGED ret
    BY <1>1 DEF IInv, CallOK, Call
  <2>2. Elements' = Elements
    <3>1. CASE request.op \in Setters /\ Overloaded
      <4>1. BeginResize
        BY <1>1, <3>1 DEF Call
      <4> QED BY <2>1, <4>1, BeginInvisible
    <3>2. CASE ~(request.op \in Setters /\ Overloaded)
      <4>1. UNCHANGED <<table, pending>>
        BY <1>1, <3>2 DEF Call
      <4> QED BY <4>1, SameElements
    <3> QED BY <3>1, <3>2
  <2> QED BY <2>1, <2>2 DEF Ordered!Call
<1>2. ASSUME Resize PROVE UNCHANGED Ordered!vars
  <2>1. /\ TableOK /\ pending # <<>> /\ MoveHead /\ pending' = Tail(pending)
        /\ UNCHANGED <<call, ret>> /\ \A i \in Index : buckets[i] # Dead
    BY <1>2 DEF IInv, CallOK, Resize
  <2>2. Elements' = Elements
    BY <2>1, MoveInvisible
  <2> QED BY <2>1, <2>2 DEF Ordered!vars
<1>3. ASSUME Operation, Uncut PROVE Ordered!Next
  BY <1>3, SetMaps, SetFreeMaps, GetSetMaps, GetMaps, RemoveMaps, SizeMaps, IterateMaps
  DEF Operation, Ordered!Next
<1>4. ASSUME UNCHANGED vars PROVE UNCHANGED Ordered!vars
  <2>1. UNCHANGED <<table, pending>> /\ UNCHANGED <<call, ret>>
    BY <1>4 DEF vars, table
  <2> QED BY <2>1, SameElements DEF Ordered!vars
<1> QED BY <1>1, <1>2, <1>3, <1>4 DEF Next, Ordered!Next

LEMMA InitMaps == Init => Ordered!Init
<1> SUFFICES ASSUME Init PROVE Ordered!Init
  OBVIOUS
<1>1. TableOK /\ pending = <<>> /\ order = <<>>
  BY InitInv DEF IInv, Init
<1>2. Nodes = <<>>
  BY <1>1 DEF Nodes
<1>3. Elements = <<>>
  BY <1>1, <1>2, Settled, OnlyEmpty DEF LiveElements
<1> QED BY <1>3 DEF Ordered!Init, Init, NoOutcome, Outcome, Ordered!NoOutcome, Ordered!Outcome

\* Three quarters of the buckets are nodes at most, so that a table can be too
\* small for an iteration to be cut.
SmallTable == DefaultCapacity <= MaxCapacity /\ 3 * MaxCapacity <= 4 * (IterBreak + 2)
Bounded == capacity <= MaxCapacity

LEMMA SmallIsUncut == SmallTable /\ IInv /\ Bounded => Uncut
<1> SUFFICES ASSUME SmallTable, IInv, Bounded PROVE count <= IterBreak + 2
  BY DEF Uncut
<1>1. 4 * count <= 3 * capacity /\ count \in Nat /\ capacity \in Nat
  BY DEF IInv, TableOK, TableTyped
<1> QED BY <1>1, CapacityAssumption DEF SmallTable, Bounded

LEMMA BoundedStep == IInv /\ Bounded /\ [Next]_vars => Bounded'
<1> SUFFICES ASSUME IInv, Bounded, [Next]_vars PROVE Bounded'
  OBVIOUS
<1>1. CASE UNCHANGED capacity
  BY <1>1 DEF Bounded
<1>2. CASE \E request \in Calls : Call(request)
  <2>1. capacity' = capacity \/ (capacity' = 2 * capacity /\ 2 * capacity <= MaxCapacity)
    BY <1>2 DEF Call, BeginResize, table
  <2> QED BY <2>1 DEF Bounded
<1> QED BY <1>1, <1>2 DEF Next, Resize, Operation, Set, SetFree, GetSet, Get, Remove,
           RemoveFree, Size, Iterate, Insert, Bury, vars, table

-----------------------------------------------------------------------------
(* The theorems *)

\* Every variable keeps its type: no count goes below zero, no index leaves the
\* table, even while it doubles.
THEOREM TypeCorrect == Spec => []TypeOK
<1>1. IInv => TypeOK
  BY DEF IInv, TableOK, TableTyped, CallOK, TypeOK
<1> QED BY Invariance, <1>1, PTL

\* count and tombstone_count, from which hashmap_size and the load test are
\* computed, are what a walk over the table would count.
THEOREM Counting == Spec => []CountsMatch
<1>1. IInv => CountsMatch
  BY DEF IInv, TableOK
<1> QED BY Invariance, <1>1, PTL

\* The loops of find_entry and resize_entry end: the table is never full.
THEOREM Termination == Spec => []ProbesTerminate
<1>1. IInv => ProbesTerminate
  BY SomeVacant DEF IInv, TableOK
<1> QED BY Invariance, <1>1, PTL

\* The list threads every bucket in use once and nothing else.
THEOREM ListIsTable == Spec => []ListCoversTable
<1>1. IInv => ListCoversTable
  BY DEF IInv, TableOK
<1> QED BY Invariance, <1>1, PTL

\* Whatever hashes collide, wrap around the end, or were removed in between, a
\* probe for a stored key ends at its bucket.
THEOREM Reachability == Spec => []LiveReachable
<1>1. IInv => LiveReachable
  <2> SUFFICES ASSUME IInv, NEW i \in Index, Live(buckets[i])
               PROVE  FindEntry(Content[buckets[i].key]) = i
    BY DEF LiveReachable
  <2>1. TableOK /\ buckets[i].key \in Ptr
    BY DEF IInv, TableOK, TableTyped, Bucket, Live
  <2> QED BY <2>1, ProbeFinds
<1> QED BY Invariance, <1>1, PTL

\* Every call does to the elements, and answers, what map.h says, and resizing
\* is invisible, in tables of any size, as long as no hashmap_iterate gives up
\* before the end of the list (map.c:374).
THEOREM ImplementsIfUncut == Spec /\ [][Uncut]_vars => ImplementsOrderedMap
<1> QED BY Invariance, InitMaps, StepMaps, PTL DEF Spec, ImplementsOrderedMap, Ordered!Spec

\* With its break at 1000, none does in a table of up to 1336 buckets.
THEOREM Implements == ASSUME SmallTable PROVE Spec => ImplementsOrderedMap
<1>1. Init => Bounded
  BY DEF Init, Bounded, SmallTable
<1>2. IInv /\ Bounded /\ [Next]_vars => Bounded'
  BY BoundedStep
<1>3. IInv /\ Bounded => [Uncut]_vars
  BY SmallIsUncut
<1> QED BY Invariance, ImplementsIfUncut, <1>1, <1>2, <1>3, PTL DEF Spec
=============================================================================
