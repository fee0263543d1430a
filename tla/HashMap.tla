------------------------------ MODULE HashMap ------------------------------
(***************************************************************************)
(* libsrc/app/src/map/map.c: open addressing with linear probing,          *)
(* tombstones, doubling, and an insertion-ordered list threaded through    *)
(* the buckets.  The list (first, last and the next fields) is the         *)
(* sequence `order` of bucket indices; hash and ksize of a bucket are      *)
(* those of its key's content, so a bucket is its key and its value.       *)
(* One call runs at a time: it is picked up by Call, may first move every  *)
(* element to a table twice as large (one Resize step per list node), and  *)
(* takes effect in one of the operations below.                            *)
(***************************************************************************)
EXTENDS Integers, Sequences, FiniteSets, Subsequence

CONSTANTS
  Ptr,              (* the key pointers callers pass in                    *)
  Content,          (* the bytes each pointer refers to                    *)
  Hash,             (* the 32-bit hash of each content                     *)
  Value,            (* the values callers store; 0 among them              *)
  NULL,             (* the null key pointer                                *)
  Tombstone,        (* 0xDEAD, the value of a removed bucket               *)
  DefaultCapacity,  (* HASHMAP_DEFAULT_CAPACITY, 20 in the code            *)
  MaxCapacity,      (* bound: the largest table that is explored           *)
  IterBreak         (* 1000 in the code: hashmap_iterate gives up past it  *)

ASSUME KeysAssumption == NULL \notin Ptr
ASSUME HashAssumption == \A p \in Ptr : Hash[Content[p]] \in Nat
ASSUME ValueAssumption == Value \subseteq Nat /\ Tombstone \in Nat \ {0}
ASSUME CapacityAssumption == /\ DefaultCapacity \in Nat /\ DefaultCapacity >= 2
                             /\ MaxCapacity \in Nat
                             /\ IterBreak \in Nat

VARIABLES
  capacity, buckets, count, tombstone_count,   (* struct hashmap           *)
  order,    (* the list from first to last, as bucket indices              *)
  pending,  (* during a resize: the old buckets still to be moved          *)
  pc,       (* "idle", "resize" or "apply"                                 *)
  call,     (* the call in progress: [op, p, v], NoCall when there is none *)
  ret       (* the outcome of the last call                                *)

table == <<capacity, buckets, count, tombstone_count, order>>
vars == <<capacity, buckets, count, tombstone_count, order, pending, pc, call, ret>>

Setters == {"set", "get_set", "set_free"}
KeyOps == {"get", "remove", "remove_free"}
MapOps == {"size", "iterate"}

\* Every call a client can make, with the arguments its operation has.
Calls == [op : Setters, p : Ptr, v : Value]
           \cup [op : KeyOps, p : Ptr, v : {0}]
           \cup [op : MapOps, p : {NULL}, v : {0}]
NoCall == [op |-> "none", p |-> NULL, v |-> 0]

Bucket == [key : Ptr \cup {NULL}, value : Value \cup {0, Tombstone}]
Empty == [key |-> NULL, value |-> 0]
\* Mutant: a removed bucket looks as if it had never been used.
DeadLooksVacant == [key |-> NULL, value |-> 0]
Dead == [key |-> NULL, value |-> Tombstone]
Live(b) == b.key # NULL
Vacant(b) == b.key = NULL /\ b.value = 0

Outcome(found, out, calls) == [found |-> found, out |-> out, calls |-> calls]
NoOutcome == Outcome(FALSE, 0, <<>>)

Index == 0 .. capacity - 1

-----------------------------------------------------------------------------
(* Probing *)

\* The first index of S met when walking from h, one bucket at a time.
FirstFrom(h, S) ==
  LET At(d) == (h + d) % capacity
      distance == CHOOSE d \in Index :
                    At(d) \in S /\ \A e \in 0 .. d - 1 : At(e) \notin S
  IN At(distance)

\* Mutant: a probe stops at a tombstone, which an insertion then reuses.
StopsAtTombstones(k) == {i \in Index : \/ ~Live(buckets[i])
                                       \/ Content[buckets[i].key] = k}
\* find_entry returns at a bucket that was never used or holds the key.
Stops(k) == {i \in Index : \/ Vacant(buckets[i])
                           \/ /\ Live(buckets[i])
                              /\ Content[buckets[i].key] = k}
FindEntry(k) == FirstFrom(Hash[k], Stops(k))

\* resize_entry returns at the first bucket without a key.
ResizeEntry(k) == FirstFrom(Hash[k], {i \in Index : ~Live(buckets[i])})

-----------------------------------------------------------------------------
(* Resizing *)

\* Mutant: the element about to be added is not counted.
OverloadedLate == 4 * count > 3 * capacity

\* count + 1 > HASHMAP_MAX_LOAD * capacity, the maximal load being 0.75.
Overloaded == 4 * (count + 1) > 3 * capacity

\* Mutant: one bucket too many is cleared.
EmptyTableOneMore(n) == [i \in 0 .. n |-> Empty]
EmptyTable(n) == [i \in 0 .. n - 1 |-> Empty]

BeginResize ==
  /\ capacity' = 2 * capacity
  /\ buckets' = EmptyTable(2 * capacity)
  /\ count' = count - tombstone_count
  /\ tombstone_count' = 0
  /\ pending' = [n \in DOMAIN order |-> buckets[order[n]]]
  /\ order' = <<>>

\* One iteration of the do-while loop: tombstones are unlinked, a live entry
\* is copied to its bucket in the new table and linked after the last one.
MoveHead ==
  LET old == Head(pending) IN
  IF Live(old)
  THEN LET i == ResizeEntry(Content[old.key]) IN
       /\ buckets' = [buckets EXCEPT ![i] = old]
       /\ order' = Append(order, i)
  ELSE UNCHANGED <<buckets, order>>

Resize ==
  /\ pc = "resize"
  /\ pending # <<>>
  /\ MoveHead
  /\ pending' = Tail(pending)
  /\ pc' = IF Tail(pending) = <<>> THEN "apply" ELSE "resize"
  /\ UNCHANGED <<capacity, count, tombstone_count, call, ret>>

-----------------------------------------------------------------------------
(* The calls *)

Call(request) ==
  /\ pc = "idle"
  /\ call' = request
  /\ IF request.op \in Setters /\ Overloaded
     THEN /\ 2 * capacity <= MaxCapacity
          /\ BeginResize
          /\ pc' = "resize"
     ELSE pc' = "apply" /\ UNCHANGED <<table, pending>>
  /\ UNCHANGED ret

Element(b) == [key |-> b.key, value |-> b.value]

\* The bucket of the call's key, and what most operations do on a miss.
Target == FindEntry(Content[call.p])
Hit == Live(buckets[Target])

Insert ==
  /\ buckets' = [buckets EXCEPT ![Target] = [key |-> call.p, value |-> call.v]]
  /\ order' = Append(order, Target)
  /\ count' = count + 1
  /\ UNCHANGED <<capacity, tombstone_count>>

Applies(op) == /\ pc = "apply"
               /\ call.op = op
               /\ op \notin MapOps => Stops(Content[call.p]) # {}
               /\ pc' = "idle"
               /\ call' = NoCall
               /\ UNCHANGED pending

Set ==
  /\ Applies("set")
  /\ IF Hit
     THEN /\ buckets' = [buckets EXCEPT ![Target].value = call.v]
          /\ UNCHANGED <<capacity, count, tombstone_count, order>>
     ELSE Insert
  /\ ret' = NoOutcome

\* Mutant: the old key pointer, which the callback may have freed, is kept.
SetFreeKeepsKey ==
  /\ Applies("set_free")
  /\ IF Hit
     THEN /\ ret' = Outcome(FALSE, 0, <<Element(buckets[Target])>>)
          /\ buckets' = [buckets EXCEPT ![Target].value = call.v]
          /\ UNCHANGED <<capacity, count, tombstone_count, order>>
     ELSE Insert /\ ret' = NoOutcome

SetFree ==
  /\ Applies("set_free")
  /\ IF Hit
     THEN /\ ret' = Outcome(FALSE, 0, <<Element(buckets[Target])>>)
          /\ buckets' = [buckets EXCEPT ![Target] =
                           [key |-> call.p, value |-> call.v]]
          /\ UNCHANGED <<capacity, count, tombstone_count, order>>
     ELSE Insert /\ ret' = NoOutcome

GetSet ==
  /\ Applies("get_set")
  /\ IF Hit
     THEN ret' = Outcome(TRUE, buckets[Target].value, <<>>) /\ UNCHANGED table
     ELSE ret' = Outcome(FALSE, call.v, <<>>) /\ Insert

\* On a miss the out parameter is the value of the vacant bucket.
Get ==
  /\ Applies("get")
  /\ ret' = Outcome(Hit, buckets[Target].value, <<>>)
  /\ UNCHANGED table

\* Mutant: the tombstone is not counted.
BuryUncounted ==
  IF Hit
  THEN /\ buckets' = [buckets EXCEPT ![Target] = Dead]
       /\ UNCHANGED <<capacity, count, tombstone_count, order>>
  ELSE UNCHANGED table

Bury ==
  IF Hit
  THEN /\ buckets' = [buckets EXCEPT ![Target] = Dead]
       /\ tombstone_count' = tombstone_count + 1
       /\ UNCHANGED <<capacity, count, order>>
  ELSE UNCHANGED table

Remove == Applies("remove") /\ Bury /\ ret' = NoOutcome

RemoveFree ==
  /\ Applies("remove_free")
  /\ Bury
  /\ ret' = Outcome(FALSE, 0,
                    IF Hit THEN <<Element(buckets[Target])>> ELSE <<>>)

Size ==
  /\ Applies("size")
  /\ ret' = Outcome(FALSE, count - tombstone_count, <<>>)
  /\ UNCHANGED table

\* The elements behind a sequence of buckets, tombstones skipped.
LiveElements(bs) == Only(bs, {b \in Bucket : Live(b)})
Nodes == [n \in DOMAIN order |-> buckets[order[n]]]

\* hashmap_iterate counts the nodes it passes, tombstones included, and
\* breaks after the node that finds the counter above IterBreak.
Iterate ==
  /\ Applies("iterate")
  /\ ret' = LET last == IF Len(Nodes) <= IterBreak + 2 THEN Len(Nodes)
                        ELSE IterBreak + 2
            IN Outcome(FALSE, 0, LiveElements(SubSeq(Nodes, 1, last)))
  /\ UNCHANGED table

-----------------------------------------------------------------------------
Init ==
  /\ capacity = DefaultCapacity
  /\ buckets = EmptyTable(DefaultCapacity)
  /\ count = 0 /\ tombstone_count = 0
  /\ order = <<>> /\ pending = <<>>
  /\ pc = "idle" /\ call = NoCall /\ ret = NoOutcome

Operation == \/ Set \/ SetFree \/ GetSet \/ Get \/ Remove \/ RemoveFree
             \/ Size \/ Iterate

Next == \/ \E request \in Calls : Call(request)
        \/ Resize
        \/ Operation

Spec == Init /\ [][Next]_vars

-----------------------------------------------------------------------------
(* Properties *)

TypeOK ==
  /\ capacity \in Nat
  /\ buckets \in [Index -> Bucket]
  /\ count \in Nat /\ tombstone_count \in Nat
  /\ order \in Seq(Index)
  /\ pending \in Seq(Bucket)
  /\ pc \in {"idle", "resize", "apply"}
  /\ call \in Calls \cup {NoCall}

Used == {i \in Index : ~Vacant(buckets[i])}
PendingLive == {n \in DOMAIN pending : Live(pending[n])}

\* count is the number of buckets that are in use, tombstones included, plus
\* those a resize has still to place; tombstone_count is the number of
\* tombstones.  The load test and hashmap_size (map.c:346) rest on it.
CountsMatch ==
  /\ count = Cardinality(Used) + Cardinality(PendingLive)
  /\ tombstone_count = Cardinality({i \in Index : buckets[i] = Dead})

\* find_entry and resize_entry loop without a bound (map.c:77, 175): they end
\* because some bucket was never used, whatever was set, removed and resized.
ProbesTerminate == \E i \in Index : Vacant(buckets[i])

\* The list passes each bucket in use exactly once and no other, so nothing
\* is lost to iteration or to the next resize, and nothing is visited twice.
ListCoversTable ==
  /\ {order[n] : n \in DOMAIN order} = Used
  /\ \A m, n \in DOMAIN order : order[m] = order[n] => m = n

\* A probe for the key of a live bucket ends at that bucket: no tombstone and
\* no resize hides an element, and no key is stored twice.
LiveReachable ==
  \A i \in Index : Live(buckets[i]) => FindEntry(Content[buckets[i].key]) = i

\* Refinement: the elements are the live nodes of the list, those that a
\* resize has moved before those it has not.
Elements == LiveElements(Nodes) \o LiveElements(pending)
Ordered == INSTANCE OrderedMap WITH entries <- Elements

\* Every call does to the elements, and answers, what map.h says it does;
\* resizing is invisible.
ImplementsOrderedMap == Ordered!Spec

\* map.h:65 promises that iterating calls c on every element.
IterateVisitsAll == [][Iterate => ret'.calls = Elements]_vars
=============================================================================
