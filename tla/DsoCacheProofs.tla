--------------------------- MODULE DsoCacheProofs ---------------------------
(***************************************************************************)
(* For any set of paths, aliases, libraries and files: the loader's        *)
(* reference counts stay equal to what the program holds and has lost      *)
(* (RefsAccounted), so what the server calls is mapped (RunsMappedCode)    *)
(* and the shutdown leaves only lost handles and what hashmap_iterate does *)
(* not reach (UnloadedAtExit).                                             *)
(***************************************************************************)
EXTENDS DsoCache, BasicLemmas, FiniteSetTheorems, TLAPS

Message == [path : Path, flush : BOOLEAN]
Handling == {"flush", "lookup", "dlopen", "dlsym", "insert", "call", "dlclose"}

OnList(x, list) == \E n \in DOMAIN list : list[n] = x

\* What each point of exlib knows of its locals and of the cache entry of the
\* path it works on.  The counts alone are not inductive: that Insert never
\* overwrites an entry (and so never forgets a handle), that a flush always
\* owns the handle it closes, and that every entry has its node on the list,
\* so that the shutdown misses none but those too far down, rests on these
\* facts.
Control ==
  /\ pc \in Handling => req \in Message
  /\ pc \in {"dlsym", "insert", "dlclose"} => handle \in Image
  /\ pc \in {"dlopen", "dlsym", "insert"} => mloc[req.path] = None
  /\ pc = "lookup" /\ req.flush => mloc[req.path] = None
  /\ pc = "insert" => HasEntry(handle) /\ ~req.flush /\ sym = handle
  /\ pc = "call" => /\ sym \in Image /\ HasEntry(sym)
                    /\ req.flush => handle = sym
                    /\ ~req.flush => mloc[req.path] = sym
  /\ \A p \in Path : mloc[p] # None => HasEntry(mloc[p])
  /\ pc = "lodlibs" => \A l \in unread : mglb[l] = None
  /\ \A p \in Path : mloc[p] # None => OnList(p, nodes)
  /\ \A l \in LibPath : mglb[l] # None => OnList(l, libNodes)
  /\ pc = "end" => LibsUnloaded /\ DsosUnloaded

IInv == TypeOK /\ RefsAccounted /\ Control

-----------------------------------------------------------------------------
(* The lists of the maps *)

LEMMA OnAppended ==
  ASSUME NEW T, NEW list \in Seq(T), NEW y \in T
  PROVE  /\ Append(list, y) \in Seq(T) /\ OnList(y, Append(list, y))
         /\ \A x : OnList(x, list) => OnList(x, Append(list, y))
<1>1. /\ Append(list, y) \in Seq(T) /\ Len(list) \in Nat
      /\ DOMAIN list = 1 .. Len(list) /\ DOMAIN Append(list, y) = 1 .. Len(list) + 1
      /\ Append(list, y)[Len(list) + 1] = y
      /\ \A n \in 1 .. Len(list) : Append(list, y)[n] = list[n]
  BY LenProperties, AppendProperties
<1> QED BY <1>1 DEF OnList

\* Unlinking the other elements leaves those of S on the list.
LEMMA OnFiltered ==
  ASSUME NEW T, NEW list \in Seq(T), NEW S \in SUBSET T, NEW x \in S, OnList(x, list)
  PROVE  OnList(x, Only(list, S))
<1> DEFINE G == {s \in Seq(T) : OnList(x, s) => OnList(x, Only(s, S))}
<1>1. <<>> \in G
  BY EmptySeq DEF OnList
<1>2. ASSUME NEW s \in G, NEW y \in T PROVE Append(s, y) \in G
  <2> DEFINE o == Only(s, S)
             u == Append(s, y)
  <2>1. s \in Seq(T) /\ u \in Seq(T) /\ o \in Seq(T)
    <3>1. s \in Seq(T) /\ u \in Seq(T) /\ {s[n] : n \in DOMAIN s} \cap S \subseteq T
      BY <1>2, AppendProperties
    <3>2. o \in Seq({s[n] : n \in DOMAIN s} \cap S)
      BY <3>1, OnlyType
    <3> QED BY <3>1, <3>2, SeqMonotonic, Zenon
  <2>2. Only(u, S) = IF y \in S THEN Append(o, y) ELSE o
    BY <2>1, OnlyAppend
  <2>3. OnList(x, u) => OnList(x, s) \/ x = y
    BY <2>1, LenProperties, AppendProperties DEF OnList
  <2>4. OnList(x, s) => OnList(x, o)
    BY <1>2
  <2> HIDE DEF o, u
  <2>5. OnList(y, Append(o, y)) /\ (OnList(x, o) => OnList(x, Append(o, y)))
    BY <2>1, OnAppended
  <2>6. OnList(x, u) => OnList(x, Only(u, S))
    BY <2>2, <2>3, <2>4, <2>5
  <2> QED BY <2>1, <2>6 DEF u
<1>3. G = Seq(T)
  <2> HIDE DEF G
  <2>1. G \in SUBSET Seq(T)
    BY DEF G
  <2> QED BY <1>1, <1>2, <2>1, SeqInduction
<1> QED BY <1>3

\* A node is appended to mloc's list, tombstones are dropped or not: every
\* path that was on it still is.
LEMMA NodeAppended ==
  ASSUME nodes \in Seq(Maybe(Path)), NEW p \in Path, AppendNode(p)
  PROVE  /\ nodes' \in Seq(Maybe(Path)) /\ OnList(p, nodes')
         /\ \A q \in Path : OnList(q, nodes) => OnList(q, nodes')
<1>1. PICK list \in {nodes, Only(nodes, Path)} : nodes' = Append(list, p)
  BY DEF AppendNode
<1>2. /\ Path \in SUBSET Maybe(Path) /\ p \in Maybe(Path)
      /\ {nodes[n] : n \in DOMAIN nodes} \cap Path \subseteq Maybe(Path)
  BY DEF Maybe
<1>3. list \in Seq(Maybe(Path))
  <2>1. Only(nodes, Path) \in Seq({nodes[n] : n \in DOMAIN nodes} \cap Path)
    BY OnlyType
  <2> QED BY <1>2, <2>1, SeqMonotonic, Zenon
<1>4. \A q \in Path : OnList(q, nodes) => OnList(q, list)
  BY <1>2, OnFiltered
<1> QED BY <1>1, <1>2, <1>3, <1>4, OnAppended

LEMMA NodeTombstoned ==
  ASSUME nodes \in Seq(Maybe(Path)), NEW p \in Path, Tombstone(p)
  PROVE  /\ nodes' \in Seq(Maybe(Path))
         /\ \A q \in Path \ {p} : OnList(q, nodes) => OnList(q, nodes')
<1>1. Len(nodes) \in Nat /\ DOMAIN nodes = 1 .. Len(nodes)
  BY LenProperties
<1>2. \A n \in DOMAIN nodes : nodes[n] \in Maybe(Path)
  BY ElementOfSeq, <1>1
<1>3. /\ DOMAIN nodes' = DOMAIN nodes
      /\ nodes' = [n \in 1 .. Len(nodes) |-> nodes'[n]]
      /\ \A n \in DOMAIN nodes : nodes'[n] = IF nodes[n] = p THEN None ELSE nodes[n]
  BY <1>1 DEF Tombstone
<1>4. \A n \in 1 .. Len(nodes) : nodes'[n] \in Maybe(Path)
  BY <1>1, <1>2, <1>3 DEF Maybe
<1>5. nodes' \in Seq(Maybe(Path))
  BY <1>1, <1>3, <1>4, SeqDef
<1> QED BY <1>3, <1>5 DEF OnList

\* What is not reached is behind.
LEMMA ReachedOrBehind ==
  ASSUME NEW T, NEW list \in Seq(T), NEW x, OnList(x, list)
  PROVE  x \in Reached(list) \/ x \in Behind(list)
<1>1. PICK n \in DOMAIN list : list[n] = x
  BY DEF OnList
<1>2. n \in Nat
  BY LenProperties
<1> QED BY <1>1, <1>2, NodesAssumption DEF Reached, Behind

-----------------------------------------------------------------------------
(* Counting the keys that map to an image *)

Keys(f, D, i) == {x \in D : f[x] = i}
Updates(g, f, d, j) == g = [f EXCEPT ![d] = j]

\* Giving an empty key the image j adds one key to j and none to the others.
LEMMA CountSet ==
  ASSUME NEW D, IsFiniteSet(D), NEW f \in [D -> Maybe(Image)], NEW d \in D,
         f[d] = None, NEW j \in Image, NEW i \in Image,
         NEW g, Updates(g, f, d, j)
  PROVE  Cardinality(Keys(g, D, i)) =
           Cardinality(Keys(f, D, i)) + (IF i = j THEN 1 ELSE 0)
<1>1. IsFiniteSet(Keys(f, D, i)) /\ d \notin Keys(f, D, i)
  BY FS_Subset, NoneAssumption DEF Keys, Updates
<1>2. CASE i = j
  <2>1. Keys(g, D, i) = Keys(f, D, i) \cup {d}
    BY <1>2 DEF Keys, Updates
  <2> QED BY <1>1, <1>2, <2>1, FS_AddElement
<1>3. CASE i # j
  <2>1. Keys(g, D, i) = Keys(f, D, i)
    BY <1>3, NoneAssumption DEF Keys, Updates
  <2> QED BY <1>1, <1>3, <2>1, FS_CardinalityType
<1> QED BY <1>2, <1>3

\* Emptying a key of image j takes one key from j and none from the others,
\* and j had one to give.
LEMMA CountClear ==
  ASSUME NEW D, IsFiniteSet(D), NEW f \in [D -> Maybe(Image)], NEW d \in D,
         NEW j \in Image, f[d] = j, NEW i \in Image,
         NEW g, Updates(g, f, d, None)
  PROVE  /\ Cardinality(Keys(g, D, i)) =
              Cardinality(Keys(f, D, i)) - (IF i = j THEN 1 ELSE 0)
         /\ i = j => Cardinality(Keys(f, D, i)) > 0
<1>1. IsFiniteSet(Keys(f, D, i)) /\ IsFiniteSet(Keys(g, D, i))
  BY FS_Subset DEF Keys, Updates
<1>2. Cardinality(Keys(f, D, i)) \in Nat /\ Cardinality(Keys(g, D, i)) \in Nat
  BY <1>1, FS_CardinalityType
<1>3. CASE i = j
  <2>1. Keys(f, D, i) = Keys(g, D, i) \cup {d} /\ d \notin Keys(g, D, i)
    BY <1>3, NoneAssumption DEF Keys, Updates
  <2>2. Cardinality(Keys(f, D, i)) = Cardinality(Keys(g, D, i)) + 1
    BY <1>1, <2>1, FS_AddElement
  <2> QED BY <1>2, <1>3, <2>2
<1>4. CASE i # j
  <2>1. Keys(g, D, i) = Keys(f, D, i)
    BY <1>4, NoneAssumption DEF Keys, Updates
  <2> QED BY <1>2, <1>4, <2>1
<1> QED BY <1>3, <1>4

\* The two sets of holders are such sets of keys, and finite.
LEMMA Holders ==
  ASSUME TypeOK, NEW i \in Image
  PROVE  /\ CacheHolds(i) = Keys(mloc, Path, i)
         /\ LibHolds(i) = Keys(mglb, LibPath, i)
         /\ Cardinality(CacheHolds(i)) \in Nat
         /\ Cardinality(LibHolds(i)) \in Nat
<1>1. IsFiniteSet(CacheHolds(i)) /\ IsFiniteSet(LibHolds(i))
  BY FS_Subset, PathAssumption DEF CacheHolds, LibHolds
<1> QED BY <1>1, FS_CardinalityType DEF CacheHolds, LibHolds, Keys

\* dlopen yields an image.
LEMMA TargetIsImage ==
  ASSUME TypeOK, NEW p \in Path \cup LibPath, Loadable(p)
  PROVE  OpenTarget(p) \in Image
<1>1. CASE Known(p) # {}
  BY <1>1 DEF OpenTarget, Known
<1>2. CASE Known(p) = {}
  BY <1>2, FileAssumption DEF OpenTarget, Loadable, TypeOK, Maybe
<1> QED BY <1>1, <1>2

\* A handle is an image the loader has a reference for, whoever holds it.
LEMMA HeldIsReferenced ==
  ASSUME IInv, NEW i \in Image
  PROVE  /\ refs[i] \in Nat
         /\ \A p \in Path : mloc[p] = i => refs[i] > 0
         /\ \A l \in LibPath : mglb[l] = i => refs[i] > 0
         /\ HandleOpen /\ handle = i => refs[i] > 0
<1> DEFINE cached == Cardinality(CacheHolds(i))
           libs == Cardinality(LibHolds(i))
<1>1. cached \in Nat /\ libs \in Nat
  BY Holders DEF IInv
<1>2. lost[i] \in Nat /\ InHand(i) \in {0, 1} /\ refs[i] \in Nat
  BY DEF IInv, TypeOK, InHand
<1>3. refs[i] = cached + libs + InHand(i) + lost[i]
  BY DEF IInv, RefsAccounted
<1>4. ASSUME NEW p \in Path, mloc[p] = i  PROVE cached > 0
  <2>0. Updates([mloc EXCEPT ![p] = None], mloc, p, None)
    BY DEF Updates
  <2>1. mloc \in [Path -> Maybe(Image)] /\ IsFiniteSet(Path)
    BY PathAssumption DEF IInv, TypeOK
  <2>2. Cardinality(Keys(mloc, Path, i)) > 0
    BY <1>4, <2>1, <2>0, CountClear
  <2> QED BY <2>2, Holders DEF IInv
<1>5. ASSUME NEW l \in LibPath, mglb[l] = i  PROVE libs > 0
  <2>0. Updates([mglb EXCEPT ![l] = None], mglb, l, None)
    BY DEF Updates
  <2>1. mglb \in [LibPath -> Maybe(Image)] /\ IsFiniteSet(LibPath)
    BY PathAssumption DEF IInv, TypeOK
  <2>2. Cardinality(Keys(mglb, LibPath, i)) > 0
    BY <1>5, <2>1, <2>0, CountClear
  <2> QED BY <2>2, Holders DEF IInv
<1>6. HandleOpen /\ handle = i => InHand(i) = 1
  BY DEF InHand
<1> HIDE DEF cached, libs
<1> QED BY <1>1, <1>2, <1>3, <1>4, <1>5, <1>6

LEMMA OpenType ==
  ASSUME TypeOK, NEW p \in Path \cup LibPath, Loadable(p), DlOpen(p)
  PROVE  /\ refs' \in [Image -> Nat]
         /\ names' \in [Image -> SUBSET (Path \cup LibPath)]
         /\ \A i \in Image :
              refs'[i] = refs[i] + (IF i = OpenTarget(p) THEN 1 ELSE 0)
<1>1. OpenTarget(p) \in Image
  BY TargetIsImage
<1>2. /\ refs \in [Image -> Nat]
      /\ names \in [Image -> SUBSET (Path \cup LibPath)]
  BY DEF TypeOK
<1> DEFINE t == OpenTarget(p)
<1>3. refs' = [refs EXCEPT ![t] = @ + 1] /\ names' = [names EXCEPT ![t] = @ \cup {p}]
  BY DEF DlOpen
<1> HIDE DEF t
<1>4. t \in Image
  BY <1>1 DEF t
<1>5. refs' \in [Image -> Nat] /\ \A i \in Image : refs'[i] = refs[i] + (IF i = t THEN 1 ELSE 0)
  BY <1>2, <1>3, <1>4
<1>6. names' \in [Image -> SUBSET (Path \cup LibPath)]
  BY <1>2, <1>3, <1>4
<1> QED BY <1>5, <1>6 DEF t

LEMMA CloseType ==
  ASSUME TypeOK, NEW j \in Image, refs[j] > 0, DlClose(j)
  PROVE  /\ refs' \in [Image -> Nat]
         /\ names' \in [Image -> SUBSET (Path \cup LibPath)]
         /\ \A i \in Image : refs'[i] = refs[i] - (IF i = j THEN 1 ELSE 0)
<1>1. /\ refs \in [Image -> Nat]
      /\ names \in [Image -> SUBSET (Path \cup LibPath)]
  BY DEF TypeOK
<1>2. names' \in [Image -> SUBSET (Path \cup LibPath)]
  BY <1>1 DEF DlClose
<1>3. refs' \in [Image -> Nat] /\ \A i \in Image : refs'[i] = refs[i] - (IF i = j THEN 1 ELSE 0)
  BY <1>1 DEF DlClose
<1> QED BY <1>2, <1>3

-----------------------------------------------------------------------------
(* The invariant is inductive *)

USE DEF Goto, Return, Lose, world, loader, lists, maps, life, local, vars

LEMMA InitInv == Init => IInv
<1> SUFFICES ASSUME Init PROVE IInv
  OBVIOUS
<1>1. TypeOK
  BY BoundsAssumption, EmptySeq DEF Init, TypeOK, Maybe, Labels
<1>2. RefsAccounted
  <2> SUFFICES ASSUME NEW i \in Image
               PROVE  refs[i] = Cardinality(CacheHolds(i))
                        + Cardinality(LibHolds(i)) + InHand(i) + lost[i]
    BY DEF RefsAccounted
  <2>1. CacheHolds(i) = {} /\ LibHolds(i) = {}
    BY NoneAssumption DEF Init, CacheHolds, LibHolds
  <2>2. InHand(i) = 0 /\ refs[i] = 0 /\ lost[i] = 0
    BY DEF Init, InHand, HandleOpen
  <2> QED BY <2>1, <2>2, FS_EmptySet
<1>3. Control
  BY DEF Init, Control, Handling
<1> QED BY <1>1, <1>2, <1>3 DEF IInv

\* Type correctness.  Only dlclose needs more than the types: a reference to
\* give back.
LEMMA TypeStep == IInv /\ [Next]_vars => TypeOK'
<1> SUFFICES ASSUME IInv, [Next]_vars PROVE TypeOK'
  OBVIOUS
<1> USE DEF IInv, Maybe, Labels
<1>1. ASSUME NEW p \in Path, NEW flush \in BOOLEAN, Request(p, flush) PROVE TypeOK'
  BY <1>1 DEF Request, TypeOK
<1>2. CASE FlushCached
  <2>1. CASE mloc[req.path] # None
    <3>1. req.path \in Path /\ mloc[req.path] \in Image
      BY <1>2, <2>1 DEF FlushCached, TypeOK, Control, Handling, Message
    <3>2. refs[mloc[req.path]] > 0
      BY <3>1, HeldIsReferenced
    <3>3. DlClose(mloc[req.path])
      BY <1>2, <2>1 DEF FlushCached
    <3>4. refs' \in [Image -> Nat] /\ names' \in [Image -> SUBSET (Path \cup LibPath)]
      BY <3>1, <3>2, <3>3, CloseType
    <3>5. mloc' \in [Path -> Maybe(Image)] /\ nodes' \in Seq(Maybe(Path))
      BY <1>2, <2>1, <3>1, NodeTombstoned DEF FlushCached, TypeOK
    <3> QED BY <1>2, <2>1, <3>4, <3>5 DEF FlushCached, TypeOK
  <2>2. CASE mloc[req.path] = None
    BY <1>2, <2>2 DEF FlushCached, TypeOK
  <2> QED BY <2>1, <2>2
<1>3. CASE Lookup
  <2>1. req.path \in Path
    BY <1>3 DEF Lookup, Control, Handling, Message
  <2> QED BY <1>3, <2>1 DEF Lookup, TypeOK
<1>4. CASE OpenDso
  <2>1. req.path \in Path /\ Loadable(req.path) /\ DlOpen(req.path)
    BY <1>4 DEF OpenDso, Control, Handling, Message
  <2>2. OpenTarget(req.path) \in Image /\ disk[FileOf[req.path]] \in Maybe(Image)
    BY <2>1, TargetIsImage, FileAssumption DEF TypeOK
  <2>3. refs' \in [Image -> Nat] /\ names' \in [Image -> SUBSET (Path \cup LibPath)]
    BY <2>1, OpenType
  <2> QED BY <1>4, <2>2, <2>3 DEF OpenDso, TypeOK
<1>5. CASE OpenFails
  BY <1>5 DEF OpenFails, TypeOK
<1>6. CASE FindEntry
  BY <1>6 DEF FindEntry, TypeOK
<1>7. CASE EntryMissing
  <2>1. handle \in Image
    BY <1>7 DEF EntryMissing, Control
  <2>2. lost' \in [Image -> Nat]
    BY <1>7, <2>1 DEF EntryMissing, TypeOK
  <2> QED BY <1>7, <2>2 DEF EntryMissing, TypeOK
<1>8. CASE Insert
  <2>1. req.path \in Path
    BY <1>8 DEF Insert, Control, Handling, Message
  <2>2. nodes' \in Seq(Maybe(Path))
    BY <1>8, <2>1, NodeAppended DEF Insert, TypeOK
  <2> QED BY <1>8, <2>2 DEF Insert, TypeOK
<1>9. CASE InsertFails
  <2>1. handle \in Image
    BY <1>9 DEF InsertFails, Control
  <2>2. lost' \in [Image -> Nat]
    BY <1>9, <2>1 DEF InsertFails, TypeOK
  <2> QED BY <1>9, <2>2 DEF InsertFails, TypeOK
<1>10. CASE CallEntry
  <2>1. running' \in BOOLEAN
    BY <1>10 DEF CallEntry, TypeOK
  <2> QED BY <1>10, <2>1 DEF CallEntry, TypeOK
<1>11. CASE CloseFlushed
  <2>1. handle \in Image /\ HandleOpen /\ DlClose(handle)
    BY <1>11 DEF CloseFlushed, Control, HandleOpen
  <2>2. refs' \in [Image -> Nat] /\ names' \in [Image -> SUBSET (Path \cup LibPath)]
    BY <2>1, HeldIsReferenced, CloseType
  <2> QED BY <1>11, <2>2 DEF CloseFlushed, TypeOK
<1>12. ASSUME NEW l \in LibPath, LoadLib(l) PROVE TypeOK'
  <2>1. CASE Loadable(l)
    <3>1. DlOpen(l) /\ OpenTarget(l) \in Image
      BY <1>12, <2>1, TargetIsImage DEF LoadLib
    <3>2. refs' \in [Image -> Nat] /\ names' \in [Image -> SUBSET (Path \cup LibPath)]
      BY <2>1, <3>1, OpenType
    <3>3. mglb' \in [LibPath -> Maybe(Image)] /\ libNodes' \in Seq(LibPath)
      <4>1. libNodes' = Append(libNodes, l) /\ mglb' = [mglb EXCEPT ![l] = OpenTarget(l)]
        BY <1>12, <2>1 DEF LoadLib
      <4>2. libNodes \in Seq(LibPath) /\ mglb \in [LibPath -> Maybe(Image)]
        BY DEF TypeOK
      <4>3. Append(libNodes, l) \in Seq(LibPath)
        BY <4>2, OnAppended
      <4> QED BY <3>1, <4>1, <4>2, <4>3
    <3> QED BY <1>12, <2>1, <3>2, <3>3 DEF LoadLib, TypeOK
  <2>2. CASE ~Loadable(l)
    BY <1>12, <2>2 DEF LoadLib, TypeOK
  <2> QED BY <2>1, <2>2
<1>13. ASSUME NEW l \in LibPath, UnloadLib(l) PROVE TypeOK'
  <2>1. mglb[l] \in Image /\ DlClose(mglb[l])
    BY <1>13 DEF UnloadLib, TypeOK
  <2>2. refs' \in [Image -> Nat] /\ names' \in [Image -> SUBSET (Path \cup LibPath)]
    BY <2>1, HeldIsReferenced, CloseType
  <2> QED BY <1>13, <2>2 DEF UnloadLib, TypeOK
<1>14. ASSUME NEW p \in Path, UnloadDso(p) PROVE TypeOK'
  <2>1. mloc[p] \in Image /\ DlClose(mloc[p])
    BY <1>14 DEF UnloadDso, TypeOK
  <2>2. refs' \in [Image -> Nat] /\ names' \in [Image -> SUBSET (Path \cup LibPath)]
    BY <2>1, HeldIsReferenced, CloseType
  <2> QED BY <1>14, <2>2 DEF UnloadDso, TypeOK
<1>15. CASE Listen \/ FreeManager \/ Exit
  BY <1>15 DEF Listen, FreeManager, Exit, TypeOK
<1>16. ASSUME NEW f \in File, NEW kind \in Kind, Deploy(f, kind) PROVE TypeOK'
  <2>1. built[f] + 1 \in 1 .. MaxVersion
    BY <1>16, BoundsAssumption DEF Deploy, TypeOK
  <2>2. [file |-> f, ver |-> built[f] + 1, kind |-> kind] \in Image
    BY <2>1 DEF Image
  <2> QED BY <1>16, <2>1, <2>2, BoundsAssumption DEF Deploy, TypeOK
<1>17. ASSUME NEW f \in File, Undeploy(f) PROVE TypeOK'
  BY <1>17 DEF Undeploy, TypeOK
<1>18. CASE UNCHANGED vars
  BY <1>18 DEF TypeOK
<1> QED
  BY <1>1, <1>2, <1>3, <1>4, <1>5, <1>6, <1>7, <1>8, <1>9, <1>10, <1>11, <1>12,
     <1>13, <1>14, <1>15, <1>16, <1>17, <1>18
  DEF Next, Exlib, Lifecycle, FileSystem, Idle

Balance(i) ==
  refs[i] = Cardinality(CacheHolds(i)) + Cardinality(LibHolds(i))
              + InHand(i) + lost[i]

\* The counts.  Each action moves references between the holders of one image,
\* or takes or gives back one at the loader.
LEMMA BalanceStep ==
  ASSUME IInv, [Next]_vars, NEW i \in Image
  PROVE  Balance(i)'
<1> DEFINE cached == Cardinality(CacheHolds(i))
           libs == Cardinality(LibHolds(i))
<1>1. /\ TypeOK /\ Control /\ TypeOK'
      /\ cached \in Nat /\ libs \in Nat /\ InHand(i) \in {0, 1}
      /\ lost[i] \in Nat /\ refs[i] \in Nat
  BY TypeStep, Holders DEF IInv, TypeOK, InHand
<1>2. refs[i] = cached + libs + InHand(i) + lost[i]
  BY DEF IInv, RefsAccounted
<1>3. mloc' = mloc => cached' = cached
  BY DEF CacheHolds
<1>4. mglb' = mglb => libs' = libs
  BY DEF LibHolds
<1>5. ASSUME NEW p \in Path, NEW j \in Image, mloc[p] = None,
             mloc' = [mloc EXCEPT ![p] = j]
      PROVE  cached' = cached + (IF i = j THEN 1 ELSE 0)
  <2>0. Updates(mloc', mloc, p, j)
    BY <1>5 DEF Updates
  <2>1. mloc \in [Path -> Maybe(Image)] /\ IsFiniteSet(Path)
    BY <1>1, PathAssumption DEF TypeOK
  <2>2. Cardinality(Keys(mloc', Path, i)) =
          Cardinality(Keys(mloc, Path, i)) + (IF i = j THEN 1 ELSE 0)
    BY <1>5, <2>1, <2>0, CountSet
  <2> QED BY <1>5, <2>2 DEF CacheHolds, Keys
<1>6. ASSUME NEW l \in LibPath, NEW j \in Image, mglb[l] = None,
             mglb' = [mglb EXCEPT ![l] = j]
      PROVE  libs' = libs + (IF i = j THEN 1 ELSE 0)
  <2>0. Updates(mglb', mglb, l, j)
    BY <1>6 DEF Updates
  <2>1. mglb \in [LibPath -> Maybe(Image)] /\ IsFiniteSet(LibPath)
    BY <1>1, PathAssumption DEF TypeOK
  <2>2. Cardinality(Keys(mglb', LibPath, i)) =
          Cardinality(Keys(mglb, LibPath, i)) + (IF i = j THEN 1 ELSE 0)
    BY <1>6, <2>1, <2>0, CountSet
  <2> QED BY <1>6, <2>2 DEF LibHolds, Keys
<1>7. ASSUME NEW p \in Path, mloc[p] \in Image,
             mloc' = [mloc EXCEPT ![p] = None], DlClose(mloc[p])
      PROVE  /\ cached' = cached - (IF i = mloc[p] THEN 1 ELSE 0)
             /\ refs'[i] = refs[i] - (IF i = mloc[p] THEN 1 ELSE 0)
  <2>0. Updates(mloc', mloc, p, None)
    BY <1>7 DEF Updates
  <2>1. mloc \in [Path -> Maybe(Image)] /\ IsFiniteSet(Path)
    BY <1>1, PathAssumption DEF TypeOK
  <2>2. Cardinality(Keys(mloc', Path, i)) =
          Cardinality(Keys(mloc, Path, i)) - (IF i = mloc[p] THEN 1 ELSE 0)
    BY <1>7, <2>1, <2>0, CountClear
  <2>3. cached' = cached - (IF i = mloc[p] THEN 1 ELSE 0)
    BY <1>7, <2>2 DEF CacheHolds, Keys
  <2> QED BY <1>1, <1>7, <2>3, HeldIsReferenced, CloseType
<1>8. ASSUME NEW l \in LibPath, mglb[l] \in Image,
             mglb' = [mglb EXCEPT ![l] = None], DlClose(mglb[l])
      PROVE  /\ libs' = libs - (IF i = mglb[l] THEN 1 ELSE 0)
             /\ refs'[i] = refs[i] - (IF i = mglb[l] THEN 1 ELSE 0)
  <2>0. Updates(mglb', mglb, l, None)
    BY <1>8 DEF Updates
  <2>1. mglb \in [LibPath -> Maybe(Image)] /\ IsFiniteSet(LibPath)
    BY <1>1, PathAssumption DEF TypeOK
  <2>2. Cardinality(Keys(mglb', LibPath, i)) =
          Cardinality(Keys(mglb, LibPath, i)) - (IF i = mglb[l] THEN 1 ELSE 0)
    BY <1>8, <2>1, <2>0, CountClear
  <2>3. libs' = libs - (IF i = mglb[l] THEN 1 ELSE 0)
    BY <1>8, <2>2 DEF LibHolds, Keys
  <2> QED BY <1>1, <1>8, <2>3, HeldIsReferenced, CloseType
<1>9. SUFFICES refs'[i] = cached' + libs' + InHand(i)' + lost'[i]
  BY DEF Balance
<1> HIDE DEF cached, libs
<1> USE DEF InHand, HandleOpen
<1>10. ASSUME NEW p \in Path, NEW flush \in BOOLEAN, Request(p, flush)
       PROVE  refs'[i] = cached' + libs' + InHand(i)' + lost'[i]
  BY <1>2, <1>3, <1>4, <1>10 DEF Request
<1>11. CASE FlushCached
  <2>1. CASE mloc[req.path] # None
    <3>1. req.path \in Path /\ mloc[req.path] \in Image
      BY <1>1, <1>11, <2>1 DEF FlushCached, TypeOK, Control, Handling, Message, Maybe
    <3>2. /\ cached' = cached - (IF i = mloc[req.path] THEN 1 ELSE 0)
          /\ refs'[i] = refs[i] - (IF i = mloc[req.path] THEN 1 ELSE 0)
      BY <1>7, <1>11, <2>1, <3>1 DEF FlushCached
    <3> QED BY <1>1, <1>2, <1>4, <1>11, <3>2 DEF FlushCached
  <2>2. CASE mloc[req.path] = None
    BY <1>2, <1>3, <1>4, <1>11, <2>2 DEF FlushCached
  <2> QED BY <2>1, <2>2
<1>12. CASE Lookup
  BY <1>1, <1>2, <1>3, <1>4, <1>12 DEF Lookup, Control
<1>13. CASE OpenDso
  <2>1. req.path \in Path /\ Loadable(req.path) /\ DlOpen(req.path)
    BY <1>1, <1>13 DEF OpenDso, Control, Handling, Message
  <2>2. refs'[i] = refs[i] + (IF i = OpenTarget(req.path) THEN 1 ELSE 0)
    BY <1>1, <2>1, OpenType
  <2>3. InHand(i) = 0 /\ InHand(i)' = (IF i = OpenTarget(req.path) THEN 1 ELSE 0)
    BY <1>13 DEF OpenDso
  <2> QED BY <1>1, <1>2, <1>3, <1>4, <1>13, <2>2, <2>3 DEF OpenDso
<1>14. CASE OpenFails
  BY <1>2, <1>3, <1>4, <1>14 DEF OpenFails
<1>15. CASE FindEntry
  BY <1>2, <1>3, <1>4, <1>15 DEF FindEntry
<1>16. CASE EntryMissing \/ InsertFails
  <2>1. lost'[i] = lost[i] + InHand(i) /\ InHand(i)' = 0
    BY <1>1, <1>16 DEF EntryMissing, InsertFails, Control, TypeOK
  <2> QED BY <1>1, <1>2, <1>3, <1>4, <1>16, <2>1 DEF EntryMissing, InsertFails
<1>17. CASE Insert
  <2>1. /\ req.path \in Path /\ handle \in Image /\ mloc[req.path] = None
        /\ ~req.flush
    BY <1>1, <1>17 DEF Insert, Control, Handling, Message
  <2>2. cached' = cached + (IF i = handle THEN 1 ELSE 0)
    BY <1>5, <1>17, <2>1 DEF Insert
  <2>3. InHand(i)' = 0 /\ InHand(i) = (IF i = handle THEN 1 ELSE 0)
    BY <1>17, <2>1 DEF Insert
  <2> QED BY <1>1, <1>2, <1>4, <1>17, <2>2, <2>3 DEF Insert
<1>18. CASE CallEntry
  BY <1>1, <1>2, <1>3, <1>4, <1>18 DEF CallEntry
<1>19. CASE CloseFlushed
  <2>1. handle \in Image /\ HandleOpen /\ DlClose(handle)
    BY <1>1, <1>19 DEF CloseFlushed, Control
  <2>2. refs'[i] = refs[i] - InHand(i) /\ InHand(i)' = 0
    BY <1>1, <1>19, <2>1, HeldIsReferenced, CloseType DEF CloseFlushed
  <2> QED BY <1>1, <1>2, <1>3, <1>4, <1>19, <2>2 DEF CloseFlushed
<1>20. ASSUME NEW l \in LibPath, LoadLib(l)
       PROVE  refs'[i] = cached' + libs' + InHand(i)' + lost'[i]
  <2>1. CASE Loadable(l)
    <3>1. DlOpen(l) /\ OpenTarget(l) \in Image /\ mglb[l] = None
      BY <1>1, <1>20, <2>1, TargetIsImage DEF LoadLib, Control
    <3>2. /\ libs' = libs + (IF i = OpenTarget(l) THEN 1 ELSE 0)
          /\ refs'[i] = refs[i] + (IF i = OpenTarget(l) THEN 1 ELSE 0)
      BY <1>1, <1>6, <1>20, <2>1, <3>1, OpenType DEF LoadLib
    <3> QED BY <1>1, <1>2, <1>3, <1>20, <3>2 DEF LoadLib
  <2>2. CASE ~Loadable(l)
    BY <1>2, <1>3, <1>4, <1>20, <2>2 DEF LoadLib
  <2> QED BY <2>1, <2>2
<1>21. ASSUME NEW l \in LibPath, UnloadLib(l)
       PROVE  refs'[i] = cached' + libs' + InHand(i)' + lost'[i]
  <2>1. mglb[l] \in Image
    BY <1>1, <1>21 DEF UnloadLib, TypeOK, Maybe
  <2>2. /\ libs' = libs - (IF i = mglb[l] THEN 1 ELSE 0)
        /\ refs'[i] = refs[i] - (IF i = mglb[l] THEN 1 ELSE 0)
    BY <1>8, <1>21, <2>1 DEF UnloadLib
  <2> QED BY <1>1, <1>2, <1>3, <1>21, <2>2 DEF UnloadLib
<1>22. ASSUME NEW p \in Path, UnloadDso(p)
       PROVE  refs'[i] = cached' + libs' + InHand(i)' + lost'[i]
  <2>1. mloc[p] \in Image
    BY <1>1, <1>22 DEF UnloadDso, TypeOK, Maybe
  <2>2. /\ cached' = cached - (IF i = mloc[p] THEN 1 ELSE 0)
        /\ refs'[i] = refs[i] - (IF i = mloc[p] THEN 1 ELSE 0)
    BY <1>7, <1>22, <2>1 DEF UnloadDso
  <2> QED BY <1>1, <1>2, <1>4, <1>22, <2>2 DEF UnloadDso
<1>23. CASE Listen \/ FreeManager \/ Exit
  BY <1>2, <1>3, <1>4, <1>23 DEF Listen, FreeManager, Exit
<1>24. CASE FileSystem \/ UNCHANGED vars
  BY <1>2, <1>3, <1>4, <1>24 DEF FileSystem, Deploy, Undeploy
<1> QED
  BY <1>10, <1>11, <1>12, <1>13, <1>14, <1>15, <1>16, <1>17, <1>18, <1>19,
     <1>20, <1>21, <1>22, <1>23, <1>24
  DEF Next, Exlib, Lifecycle, Idle

\* The facts about the program's locals.
LEMMA ControlStep == IInv /\ [Next]_vars => Control'
<1> SUFFICES ASSUME IInv, [Next]_vars PROVE Control'
  OBVIOUS
<1>1. TypeOK /\ Control
  BY DEF IInv
<1> USE <1>1 DEF HasEntry
<1>2. ASSUME NEW p \in Path, NEW flush \in BOOLEAN, Request(p, flush) PROVE Control'
  BY <1>2 DEF Request, Control, Handling, Message
<1>3. CASE FlushCached
  <2>1. req.path \in Path /\ req' = req /\ pc' = "lookup"
    BY <1>3 DEF FlushCached, Control, Handling, Message
  <2>2. mloc'[req.path] = None /\ \A p \in Path : mloc'[p] \in {mloc[p], None}
    BY <1>3, <2>1 DEF FlushCached, TypeOK
  <2>3. \A p \in Path : mloc'[p] # None => OnList(p, nodes')
    <3>1. CASE mloc[req.path] # None
      <4>1. Tombstone(req.path) /\ nodes \in Seq(Maybe(Path))
        BY <1>3, <3>1 DEF FlushCached, TypeOK
      <4>2. \A q \in Path \ {req.path} : OnList(q, nodes) => OnList(q, nodes')
        BY <2>1, <4>1, NodeTombstoned
      <4> QED BY <2>1, <2>2, <4>2 DEF Control
    <3>2. CASE mloc[req.path] = None
      <4>1. mloc' = mloc /\ nodes' = nodes
        BY <1>3, <3>2 DEF FlushCached
      <4> QED BY <4>1 DEF Control
    <3> QED BY <3>1, <3>2
  <2> QED BY <1>3, <2>1, <2>2, <2>3 DEF FlushCached, Control, Handling
<1>4. CASE Lookup
  <2>1. req.path \in Path
    BY <1>4 DEF Lookup, Control, Handling, Message
  <2>2. mloc[req.path] # None => mloc[req.path] \in Image
    BY <2>1 DEF TypeOK, Maybe
  <2> QED BY <1>4, <2>1, <2>2 DEF Lookup, Control, Handling
<1>5. CASE OpenDso
  <2>1. OpenTarget(req.path) \in Image
    BY <1>5, TargetIsImage DEF OpenDso, Control, Handling, Message
  <2> QED BY <1>5, <2>1 DEF OpenDso, Control, Handling
<1>6. CASE OpenFails
  BY <1>6 DEF OpenFails, Control, Handling
<1>7. CASE FindEntry
  BY <1>7 DEF FindEntry, Control, Handling
<1>8. CASE EntryMissing \/ InsertFails
  BY <1>8 DEF EntryMissing, InsertFails, Control, Handling
<1>9. CASE Insert
  <2>1. /\ req.path \in Path /\ ~req.flush
        /\ handle \in Image /\ HasEntry(handle) /\ sym = handle
    BY <1>9 DEF Insert, Control, Handling, Message
  <2>2. mloc'[req.path] = handle /\ \A p \in Path : mloc'[p] \in {mloc[p], handle}
    BY <1>9, <2>1 DEF Insert, TypeOK
  <2>3. sym' = sym /\ req' = req /\ pc' = "call" /\ handle' = handle
    BY <1>9 DEF Insert
  <2>4. \A p \in Path : mloc'[p] # None => OnList(p, nodes')
    <3>1. \A p \in Path : p # req.path => mloc'[p] = mloc[p]
      BY <1>9 DEF Insert, TypeOK
    <3>2. AppendNode(req.path) /\ nodes \in Seq(Maybe(Path))
      BY <1>9 DEF Insert, TypeOK
    <3>3. /\ OnList(req.path, nodes')
          /\ \A q \in Path : OnList(q, nodes) => OnList(q, nodes')
      BY <2>1, <3>2, NodeAppended
    <3> QED BY <3>1, <3>3 DEF Control
  <2> QED BY <1>9, <2>1, <2>2, <2>3, <2>4 DEF Insert, Control, Handling
<1>10. CASE CallEntry
  BY <1>10 DEF CallEntry, Control, Handling
<1>11. CASE CloseFlushed
  BY <1>11 DEF CloseFlushed, Control, Handling
<1>12. ASSUME NEW l \in LibPath, LoadLib(l) PROVE Control'
  <2>1. \A k \in unread' : mglb'[k] = None
    BY <1>12 DEF LoadLib, Control, TypeOK
  <2>2. \A k \in LibPath : mglb'[k] # None => OnList(k, libNodes')
    <3>1. CASE Loadable(l)
      <4>1. /\ OnList(l, libNodes')
            /\ \A k \in LibPath : OnList(k, libNodes) => OnList(k, libNodes')
        <5>1. libNodes' = Append(libNodes, l) /\ libNodes \in Seq(LibPath)
          BY <1>12, <3>1 DEF LoadLib, TypeOK
        <5> QED BY <5>1, OnAppended
      <4>2. \A k \in LibPath : k # l => mglb'[k] = mglb[k]
        BY <1>12, <3>1 DEF LoadLib, TypeOK
      <4> QED BY <4>1, <4>2 DEF Control
    <3>2. CASE ~Loadable(l)
      BY <1>12, <3>2 DEF LoadLib, Control
    <3> QED BY <3>1, <3>2
  <2> QED BY <1>12, <2>1, <2>2 DEF LoadLib, Control, Handling
<1>13. ASSUME NEW l \in LibPath, UnloadLib(l) PROVE Control'
  <2>1. \A k \in LibPath : mglb'[k] \in {mglb[k], None}
    BY <1>13 DEF UnloadLib, TypeOK
  <2> QED BY <1>13, <2>1 DEF UnloadLib, Control, Handling
<1>14. ASSUME NEW p \in Path, UnloadDso(p) PROVE Control'
  <2>1. \A q \in Path : mloc'[q] \in {mloc[q], None}
    BY <1>14 DEF UnloadDso, TypeOK
  <2> QED BY <1>14, <2>1 DEF UnloadDso, Control, Handling
<1>15. CASE Listen \/ FreeManager
  BY <1>15 DEF Listen, FreeManager, Control, Handling
<1>16. CASE Exit
  BY <1>16 DEF Exit, LibsUnloaded, DsosUnloaded, Control, Handling
<1>17. CASE FileSystem \/ UNCHANGED vars
  BY <1>17 DEF FileSystem, Deploy, Undeploy, Control, Handling, LibsUnloaded, DsosUnloaded
<1> QED
  BY <1>2, <1>3, <1>4, <1>5, <1>6, <1>7, <1>8, <1>9, <1>10, <1>11, <1>12,
     <1>13, <1>14, <1>15, <1>16, <1>17
  DEF Next, Exlib, Lifecycle, Idle

-----------------------------------------------------------------------------
(* The theorems *)

\* The three facts together: what a module that runs DsoCache's steps cites.
LEMMA InvStep == IInv /\ [Next]_vars => IInv'
<1> SUFFICES ASSUME IInv, [Next]_vars PROVE IInv'
  OBVIOUS
<1>1. TypeOK' /\ Control'
  BY TypeStep, ControlStep
<1>2. RefsAccounted'
  BY BalanceStep DEF RefsAccounted, Balance
<1> QED BY <1>1, <1>2 DEF IInv

LEMMA Invariance == Spec => []IInv
BY InitInv, InvStep, PTL DEF Spec

\* Every variable keeps its type; that refs stays natural says the loader is
\* never handed a handle it does not know.
THEOREM TypeCorrect == Spec => []TypeOK
<1>1. IInv => TypeOK
  BY DEF IInv
<1> QED BY Invariance, <1>1, PTL

\* exlib and appmain close every handle they opened exactly once, except
\* those that exlib's two error returns lose.
THEOREM Accounting == Spec => []RefsAccounted
<1>1. IInv => RefsAccounted
  BY DEF IInv
<1> QED BY Invariance, <1>1, PTL

\* No flush, error, redeployment or shutdown makes the server call, or keep
\* in its cache, a function of a DSO that is no longer mapped.
THEOREM CallsAreSafe == Spec => []RunsMappedCode
<1>1. IInv => RunsMappedCode
  <2> SUFFICES ASSUME IInv PROVE RunsMappedCode
    OBVIOUS
  <2>1. TypeOK /\ Control
    BY DEF IInv
  <2>2. ASSUME NEW p \in Path, mloc[p] # None
        PROVE  mloc[p] \in Image /\ Mapped(mloc[p]) /\ HasEntry(mloc[p])
    <3>1. mloc[p] \in Image
      BY <2>1, <2>2 DEF TypeOK, Maybe
    <3> QED BY <2>1, <2>2, <3>1, HeldIsReferenced DEF Mapped, Control
  <2>3. CASE pc = "call"
    <3>1. sym \in Image /\ HasEntry(sym) /\ req \in Message
      BY <2>1, <2>3 DEF Control, Handling
    <3>2. CASE req.flush
      <4>1. HandleOpen /\ handle = sym
        BY <2>1, <2>3, <3>2 DEF HandleOpen, Control
      <4> QED BY <2>2, <3>1, <4>1, HeldIsReferenced, NoneAssumption
              DEF RunsMappedCode, Mapped
    <3>3. CASE ~req.flush
      <4>1. mloc[req.path] = sym /\ req.path \in Path
        BY <2>1, <2>3, <3>1, <3>3 DEF Control, Message
      <4> QED BY <2>2, <3>1, <4>1, HeldIsReferenced, NoneAssumption
              DEF RunsMappedCode, Mapped
    <3> QED BY <3>2, <3>3
  <2> QED BY <2>2, <2>3 DEF RunsMappedCode
<1> QED BY Invariance, <1>1, PTL

\* At the end of appmain every DSO is unloaded but those with a lost handle
\* and those whose entry lies where hashmap_iterate does not come.
THEOREM CleanExit == Spec => []UnloadedAtExit
<1>1. IInv => UnloadedAtExit
  <2> SUFFICES ASSUME IInv, pc = "end", NEW i \in Image
               PROVE  refs[i] = lost[i] + LeftOpen(i)
    BY DEF UnloadedAtExit
  <2>1. TypeOK /\ Control
    BY DEF IInv
  <2>2. ASSUME NEW p \in CacheHolds(i) PROVE p \in Behind(nodes)
    <3>1. p \in Path /\ mloc[p] # None
      BY NoneAssumption DEF CacheHolds
    <3>2. OnList(p, nodes) /\ p \notin Reached(nodes)
      BY <2>1, <3>1 DEF Control, DsosUnloaded
    <3> QED BY <2>1, <3>2, ReachedOrBehind DEF TypeOK
  <2>3. ASSUME NEW l \in LibHolds(i) PROVE l \in Behind(libNodes)
    <3>1. l \in LibPath /\ mglb[l] # None
      BY NoneAssumption DEF LibHolds
    <3>2. OnList(l, libNodes) /\ l \notin Reached(libNodes)
      BY <2>1, <3>1 DEF Control, LibsUnloaded
    <3> QED BY <2>1, <3>2, ReachedOrBehind DEF TypeOK
  <2>4. /\ CacheHolds(i) \cap Behind(nodes) = CacheHolds(i)
        /\ LibHolds(i) \cap Behind(libNodes) = LibHolds(i)
    BY <2>2, <2>3
  <2>5. InHand(i) = 0
    BY DEF InHand, HandleOpen
  <2> DEFINE cached == Cardinality(CacheHolds(i))
             libs == Cardinality(LibHolds(i))
  <2>6. refs[i] = cached + libs + 0 + lost[i] /\ LeftOpen(i) = cached + libs
    BY <2>4, <2>5 DEF IInv, RefsAccounted, LeftOpen
  <2>7. cached \in Nat /\ libs \in Nat /\ lost[i] \in Nat
    BY <2>1, Holders DEF TypeOK
  <2> HIDE DEF cached, libs
  <2> QED BY <2>6, <2>7
<1> QED BY Invariance, <1>1, PTL

\* When dlopen hands exlib an image that is not the build on disk, the loader
\* knew it by name already, so somebody held it; nobody lets go of it before
\* the handler runs.
StaleIsHeld ==
  pc = "dlsym" \/ (pc = "call" /\ req.flush) => handle = seen \/ HeldElsewhere(handle)

LEMMA StaleStep == IInv /\ StaleIsHeld /\ [Next]_vars => StaleIsHeld'
<1> SUFFICES ASSUME IInv, StaleIsHeld, [Next]_vars PROVE StaleIsHeld'
  OBVIOUS
<1>1. CASE OpenDso
  <2> DEFINE t == OpenTarget(req.path)
  <2>1. req.path \in Path /\ Loadable(req.path) /\ TypeOK /\ RefsAccounted
    BY <1>1 DEF OpenDso, IInv, Control, Handling, Message
  <2>2. t \in Image
    BY <2>1, TargetIsImage
  <2>3. ASSUME t # disk[FileOf[req.path]]
        PROVE  HeldElsewhere(t)
    <3>1. t \in Known(req.path)
      BY <2>3 DEF OpenTarget
    <3>2. refs[t] > 0
      BY <3>1 DEF Known, Mapped
    <3>3. refs[t] = Cardinality(CacheHolds(t)) + Cardinality(LibHolds(t)) + lost[t]
      <4> HIDE DEF t
      <4>1. InHand(t) = 0
        BY <1>1 DEF OpenDso, InHand, HandleOpen
      <4>2. /\ Cardinality(CacheHolds(t)) \in Nat
            /\ Cardinality(LibHolds(t)) \in Nat
        BY <2>1, <2>2, Holders
      <4> QED BY <2>1, <2>2, <4>1, <4>2 DEF RefsAccounted, TypeOK
    <3>4. lost[t] \in Nat
      BY <2>1, <2>2 DEF TypeOK
    <3> HIDE DEF t
    <3>5. CacheHolds(t) = {} /\ LibHolds(t) = {} => refs[t] = 0 + 0 + lost[t]
      BY <3>3, FS_EmptySet
    <3> QED BY <3>2, <3>4, <3>5 DEF HeldElsewhere
  <2>4. /\ handle' = t /\ seen' = disk[FileOf[req.path]]
        /\ mloc' = mloc /\ mglb' = mglb /\ lost' = lost
    BY <1>1 DEF OpenDso
  <2> HIDE DEF t
  <2> QED BY <2>3, <2>4 DEF StaleIsHeld, HeldElsewhere, CacheHolds, LibHolds
<1>2. CASE FindEntry
  BY <1>2 DEF FindEntry, StaleIsHeld, HeldElsewhere, CacheHolds, LibHolds
<1>3. CASE FileSystem \/ UNCHANGED vars
  BY <1>3 DEF FileSystem, Deploy, Undeploy, StaleIsHeld, HeldElsewhere,
              CacheHolds, LibHolds
<1>4. CASE \/ FlushCached \/ OpenFails \/ EntryMissing \/ InsertFails
           \/ CallEntry \/ CloseFlushed
  BY <1>4 DEF FlushCached, OpenFails, EntryMissing, InsertFails, CallEntry,
              CloseFlushed, StaleIsHeld
<1>5. CASE Lookup \/ Insert
  BY <1>5 DEF Lookup, Insert, IInv, Control, StaleIsHeld
<1>6. CASE Lifecycle
  BY <1>6 DEF Lifecycle, LoadLib, UnloadLib, UnloadDso, Listen, FreeManager, Exit,
              StaleIsHeld
<1>7. ASSUME NEW p \in Path, NEW flush \in BOOLEAN, Request(p, flush) PROVE StaleIsHeld'
  BY <1>7 DEF Request, StaleIsHeld
<1> QED
  BY <1>1, <1>2, <1>3, <1>4, <1>5, <1>6, <1>7 DEF Next, Exlib, Idle

\* A flush reloads what is on disk, or the image it runs is held by another
\* path, by ./lib or by a lost handle, and so cannot be reloaded.
THEOREM FlushIsFresh == Spec => []FlushReloads
<1>1. Init => StaleIsHeld
  BY DEF Init, StaleIsHeld
<1>2. IInv /\ StaleIsHeld => FlushReloads
  <2> SUFFICES ASSUME IInv, StaleIsHeld, pc = "call", req.flush
               PROVE  sym = seen \/ HeldElsewhere(sym)
    BY DEF FlushReloads
  <2>1. handle = sym
    BY DEF IInv, Control
  <2> QED BY <2>1 DEF StaleIsHeld
<1> QED BY Invariance, StaleStep, <1>1, <1>2, PTL DEF Spec

-----------------------------------------------------------------------------
(* The loader's names.  What an image was opened under decides what dlopen *)
(* returns later, so the modules about handlers that leave something       *)
(* behind in their DSO need these facts.                                   *)

\* A name leads to at most one mapped image, a build of the file it names,
\* and the cache and exlib's handle are known under the path they are for.
Named ==
  /\ \A f \in File : disk[f] # None => disk[f].file = f
  /\ \A i \in Image : \A p \in names[i] : Mapped(i) /\ i.file = FileOf[p]
  /\ \A i, j \in Image : \A p \in names[i] : p \in names[j] => i = j
  /\ \A p \in Path : mloc[p] # None => p \in names[mloc[p]]
  /\ HandleOpen => req.path \in names[handle]

Held ==
  /\ \A p \in Path : mloc[p] # None => mloc[p] \in Image /\ Mapped(mloc[p])
  /\ HandleOpen => handle \in Image /\ Mapped(handle)

\* What the program holds is mapped, before a step and after it.
LEMMA HeldIsMapped == IInv => Held
<1> SUFFICES ASSUME IInv PROVE Held
  OBVIOUS
<1>1. \A p \in Path : mloc[p] # None => mloc[p] \in Image
  BY DEF IInv, TypeOK, Maybe
<1>2. HandleOpen => handle \in Image
  BY DEF IInv, Control, HandleOpen
<1> QED BY <1>1, <1>2, HeldIsReferenced DEF Held, Mapped

LEMMA HeldAfterwards == IInv' => Held'
BY HeldIsMapped, PTL

LEMMA NamedInit == Init => Named
BY DEF Init, Named, HandleOpen

\* dlopen adds the name to the image it returns, which alone had it if any had.
LEMMA NamedOpen ==
  ASSUME IInv, Named, NEW p \in Path \cup LibPath, Loadable(p), DlOpen(p),
         disk' = disk
  PROVE  /\ \A i \in Image : \A q \in names'[i] : Mapped(i)' /\ i.file = FileOf[q]
         /\ \A i, j \in Image : \A q \in names'[i] : q \in names'[j] => i = j
         /\ \A i \in Image : names[i] \subseteq names'[i]
         /\ OpenTarget(p) \in Image /\ p \in names'[OpenTarget(p)]
         /\ OpenTarget(p).file = FileOf[p]
<1> DEFINE t == OpenTarget(p)
<1>1. TypeOK /\ t \in Image
  BY TargetIsImage DEF IInv
<1>2. t.file = FileOf[p]
  <2>1. CASE Known(p) # {}
    BY <2>1 DEF OpenTarget, Known, Named
  <2>2. CASE Known(p) = {}
    BY <2>2, <1>1, FileAssumption, NoneAssumption DEF OpenTarget, Named
  <2> QED BY <2>1, <2>2
<1>3. \A i \in Image : p \in names[i] => i = t
  BY <1>1 DEF OpenTarget, Known, Named
<1>4. names' = [names EXCEPT ![t] = @ \cup {p}] /\ names \in [Image -> SUBSET (Path \cup LibPath)]
  BY <1>1 DEF DlOpen, TypeOK
<1>5. \A i \in Image : refs'[i] = refs[i] + (IF i = t THEN 1 ELSE 0) /\ refs[i] \in Nat
  BY <1>1, OpenType DEF TypeOK
<1> HIDE DEF t
<1>6. \A i \in Image : Mapped(i) \/ i = t => Mapped(i)'
  BY <1>5 DEF Mapped
<1>7. \A i \in Image : names'[i] = IF i = t THEN names[i] \cup {p} ELSE names[i]
  BY <1>1, <1>4
<1>8. \A i \in Image : \A q \in names'[i] : Mapped(i)' /\ i.file = FileOf[q]
  <2> SUFFICES ASSUME NEW i \in Image, NEW q \in names'[i]
               PROVE  Mapped(i)' /\ i.file = FileOf[q]
    OBVIOUS
  <2>1. q \in names[i] \/ (i = t /\ q = p)
    BY <1>7
  <2>2. CASE q \in names[i]
    BY <2>2, <1>6 DEF Named
  <2>3. CASE i = t /\ q = p
    BY <2>3, <1>2, <1>6
  <2> QED BY <2>1, <2>2, <2>3
<1>9. \A i, j \in Image : \A q \in names'[i] : q \in names'[j] => i = j
  <2> SUFFICES ASSUME NEW i \in Image, NEW j \in Image, NEW q, q \in names'[i], q \in names'[j]
               PROVE  i = j
    OBVIOUS
  <2>1. /\ q \in names[i] \/ (i = t /\ q = p)
        /\ q \in names[j] \/ (j = t /\ q = p)
    BY <1>7
  <2>2. q \in names[i] /\ q \in names[j] => i = j
    BY DEF Named
  <2> QED BY <1>3, <2>1, <2>2
<1>10. t \in Image /\ p \in names'[t] /\ \A i \in Image : names[i] \subseteq names'[i]
  BY <1>1, <1>7
<1> QED BY <1>2, <1>8, <1>9, <1>10 DEF t

\* dlclose takes the names of an image only with its last reference.
LEMMA NamedClose ==
  ASSUME IInv, Named, NEW j \in Image, refs[j] > 0, DlClose(j)
  PROVE  /\ \A i \in Image : \A q \in names'[i] : Mapped(i)' /\ i.file = FileOf[q]
         /\ \A i, k \in Image : \A q \in names'[i] : q \in names'[k] => i = k
         /\ \A i \in Image : Mapped(i)' => names'[i] = names[i]
<1>1. TypeOK
  BY DEF IInv
<1>2. \A i \in Image : refs'[i] = refs[i] - (IF i = j THEN 1 ELSE 0) /\ refs[i] \in Nat
  BY <1>1, CloseType DEF TypeOK
<1>3. \A i \in Image : names'[i] = IF i = j /\ ~(refs[j] > 1) THEN {} ELSE names[i]
  BY <1>1 DEF DlClose, TypeOK
<1> QED BY <1>2, <1>3 DEF Named, Mapped

LEMMA NamedStep == IInv /\ Named /\ [Next]_vars => Named'
<1> SUFFICES ASSUME IInv, Named, [Next]_vars PROVE Named'
  OBVIOUS
<1>1. IInv' /\ Held' /\ Held /\ TypeOK /\ Control
  BY InvStep, HeldAfterwards, HeldIsMapped DEF IInv
<1>2. UNCHANGED loader => \A i \in Image : Mapped(i)' = Mapped(i)
  BY DEF Mapped
<1> USE <1>1
<1>3. ASSUME NEW p \in Path, NEW flush \in BOOLEAN, Request(p, flush) PROVE Named'
  BY <1>2, <1>3 DEF Request, Named, HandleOpen
<1>4. CASE FlushCached
  <2>1. req.path \in Path /\ \A p \in Path : mloc'[p] # None => mloc'[p] = mloc[p]
    BY <1>4 DEF FlushCached, Control, Handling, Message, TypeOK
  <2>2. CASE mloc[req.path] # None
    <3>1. /\ mloc[req.path] \in Image /\ refs[mloc[req.path]] > 0
          /\ DlClose(mloc[req.path])
      BY <1>4, <2>1, <2>2 DEF FlushCached, Held, Mapped
    <3>2. /\ \A i \in Image : \A q \in names'[i] : Mapped(i)' /\ i.file = FileOf[q]
          /\ \A i, k \in Image : \A q \in names'[i] : q \in names'[k] => i = k
          /\ \A i \in Image : Mapped(i)' => names'[i] = names[i]
      BY <3>1, NamedClose
    <3>3. \A p \in Path : mloc'[p] # None => p \in names'[mloc'[p]]
      BY <2>1, <3>2 DEF Held, Named, Mapped
    <3> QED BY <1>4, <3>2, <3>3 DEF FlushCached, Named, HandleOpen
  <2>3. CASE mloc[req.path] = None
    BY <1>2, <1>4, <2>3 DEF FlushCached, Named, HandleOpen
  <2> QED BY <2>2, <2>3
<1>5. CASE Lookup \/ OpenFails \/ EntryMissing \/ InsertFails \/ CallEntry
  BY <1>2, <1>5 DEF Lookup, OpenFails, EntryMissing, InsertFails, CallEntry,
                    Named, HandleOpen, Control, Handling, Message
<1>6. CASE OpenDso
  <2>1. req.path \in Path /\ Loadable(req.path) /\ DlOpen(req.path) /\ disk' = disk
    BY <1>6 DEF OpenDso, Control, Handling, Message
  <2>2. /\ \A i \in Image : \A q \in names'[i] : Mapped(i)' /\ i.file = FileOf[q]
        /\ \A i, j \in Image : \A q \in names'[i] : q \in names'[j] => i = j
        /\ \A i \in Image : names[i] \subseteq names'[i]
        /\ req.path \in names'[OpenTarget(req.path)]
    BY <2>1, NamedOpen
  <2>3. \A p \in Path : mloc'[p] # None => p \in names'[mloc'[p]]
    BY <1>6, <2>2 DEF OpenDso, Held, Named
  <2>4. handle' = OpenTarget(req.path) /\ req' = req
    BY <1>6 DEF OpenDso
  <2> QED BY <2>1, <2>2, <2>3, <2>4 DEF Named
<1>7. CASE FindEntry
  BY <1>2, <1>7 DEF FindEntry, Named, HandleOpen
<1>8. CASE Insert
  <2>1. req.path \in Path /\ \A p \in Path : mloc'[p] = IF p = req.path THEN handle ELSE mloc[p]
    BY <1>8 DEF Insert, Control, Handling, Message, TypeOK
  <2>2. \A p \in Path : mloc'[p] # None => p \in names[mloc'[p]]
    BY <1>8, <2>1 DEF Insert, Named, HandleOpen
  <2> QED BY <1>2, <1>8, <2>2 DEF Insert, Named, HandleOpen, Control
<1>9. CASE CloseFlushed
  <2>1. handle \in Image /\ refs[handle] > 0 /\ DlClose(handle) /\ ~HandleOpen'
    BY <1>9 DEF CloseFlushed, Held, HandleOpen, Mapped
  <2>2. /\ \A i \in Image : \A q \in names'[i] : Mapped(i)' /\ i.file = FileOf[q]
        /\ \A i, k \in Image : \A q \in names'[i] : q \in names'[k] => i = k
        /\ \A i \in Image : Mapped(i)' => names'[i] = names[i]
    BY <2>1, NamedClose
  <2>3. \A p \in Path : mloc'[p] # None => p \in names'[mloc'[p]]
    BY <1>9, <2>2 DEF CloseFlushed, Held, Named, Mapped
  <2> QED BY <1>9, <2>1, <2>2, <2>3 DEF CloseFlushed, Named
<1>10. ASSUME NEW l \in LibPath, LoadLib(l) PROVE Named'
  <2>1. CASE Loadable(l)
    <3>1. DlOpen(l) /\ disk' = disk
      BY <1>10, <2>1 DEF LoadLib
    <3>2. /\ \A i \in Image : \A q \in names'[i] : Mapped(i)' /\ i.file = FileOf[q]
          /\ \A i, j \in Image : \A q \in names'[i] : q \in names'[j] => i = j
          /\ \A i \in Image : names[i] \subseteq names'[i]
      BY <2>1, <3>1, NamedOpen
    <3> QED BY <1>10, <3>1, <3>2 DEF LoadLib, Named, HandleOpen, Held
  <2>2. CASE ~Loadable(l)
    BY <1>2, <1>10, <2>2 DEF LoadLib, Named, HandleOpen
  <2> QED BY <2>1, <2>2
<1>11. ASSUME NEW l \in LibPath, UnloadLib(l) PROVE Named'
  <2>1. mglb[l] \in Image /\ refs[mglb[l]] > 0 /\ DlClose(mglb[l])
    BY <1>11, HeldIsReferenced DEF UnloadLib, TypeOK, Maybe
  <2>2. /\ \A i \in Image : \A q \in names'[i] : Mapped(i)' /\ i.file = FileOf[q]
        /\ \A i, k \in Image : \A q \in names'[i] : q \in names'[k] => i = k
        /\ \A i \in Image : Mapped(i)' => names'[i] = names[i]
    BY <2>1, NamedClose
  <2>3. \A p \in Path : mloc'[p] # None => p \in names'[mloc'[p]]
    BY <1>11, <2>2 DEF UnloadLib, Held, Named, Mapped
  <2> QED BY <1>11, <2>2, <2>3 DEF UnloadLib, Named, HandleOpen
<1>12. ASSUME NEW p \in Path, UnloadDso(p) PROVE Named'
  <2>1. mloc[p] \in Image /\ refs[mloc[p]] > 0 /\ DlClose(mloc[p])
    BY <1>12 DEF UnloadDso, Held, Mapped
  <2>2. /\ \A i \in Image : \A q \in names'[i] : Mapped(i)' /\ i.file = FileOf[q]
        /\ \A i, k \in Image : \A q \in names'[i] : q \in names'[k] => i = k
        /\ \A i \in Image : Mapped(i)' => names'[i] = names[i]
    BY <2>1, NamedClose
  <2>3. \A q \in Path : mloc'[q] # None => mloc'[q] = mloc[q]
    BY <1>12 DEF UnloadDso, TypeOK
  <2>4. \A q \in Path : mloc'[q] # None => q \in names'[mloc'[q]]
    BY <2>2, <2>3 DEF Held, Named, Mapped
  <2> QED BY <1>12, <2>2, <2>4 DEF UnloadDso, Named, HandleOpen
<1>13. CASE Listen \/ FreeManager \/ Exit
  BY <1>2, <1>13 DEF Listen, FreeManager, Exit, Named, HandleOpen
<1>14. CASE FileSystem \/ UNCHANGED vars
  <2>1. \A f \in File : disk'[f] # None => disk'[f].file = f
    BY <1>14 DEF FileSystem, Deploy, Undeploy, Named, TypeOK
  <2> QED BY <1>2, <1>14, <2>1 DEF FileSystem, Deploy, Undeploy, Named, HandleOpen
<1> QED
  BY <1>3, <1>4, <1>5, <1>6, <1>7, <1>8, <1>9, <1>10, <1>11, <1>12, <1>13, <1>14
  DEF Next, Exlib, Lifecycle, Idle

-----------------------------------------------------------------------------
(* What a step leaves alone: for the handlers, whose modules look at the   *)
(* same steps                                                              *)

\* An entry leaves the cache by a flush of its path or by the shutdown.
LEMMA EntryKept ==
  ASSUME IInv, [Next]_vars, NEW p \in Path, mloc[p] # None, pc # "unload",
         ~(pc = "flush" /\ req.path = p)
  PROVE  mloc'[p] = mloc[p]
<1>1. TypeOK /\ Control
  BY DEF IInv
<1>2. CASE FlushCached
  BY <1>1, <1>2 DEF FlushCached, TypeOK
<1>3. CASE Insert
  BY <1>1, <1>3 DEF Insert, Control, TypeOK
<1>4. CASE \E q \in Path : UnloadDso(q)
  BY <1>4 DEF UnloadDso
<1>5. CASE mloc' = mloc
  BY <1>5
<1> QED
  BY <1>2, <1>3, <1>4, <1>5
  DEF Next, Exlib, Lifecycle, FileSystem, Idle, Request, Lookup, OpenDso, OpenFails,
      FindEntry, EntryMissing, InsertFails, CallEntry, CloseFlushed, LoadLib,
      UnloadLib, Listen, FreeManager, Exit, Deploy, Undeploy

\* An image that stays mapped keeps the names it was opened under.
LEMMA NamesKept ==
  ASSUME IInv, Named, [Next]_vars, NEW i \in Image, Mapped(i)'
  PROVE  names[i] \subseteq names'[i]
<1>1. TypeOK /\ Control /\ Held
  BY HeldIsMapped DEF IInv
<1>2. ASSUME NEW j \in Image, refs[j] > 0, DlClose(j)
      PROVE  names'[i] = names[i]
  BY <1>2, NamedClose
<1>3. ASSUME NEW p \in Path \cup LibPath, Loadable(p), DlOpen(p), disk' = disk
      PROVE  names[i] \subseteq names'[i]
  BY <1>3, NamedOpen
<1>4. CASE FlushCached
  <2>1. CASE mloc[req.path] # None
    <3>1. /\ mloc[req.path] \in Image /\ refs[mloc[req.path]] > 0
          /\ DlClose(mloc[req.path])
      BY <1>1, <1>4, <2>1 DEF FlushCached, Held, Mapped, Control, Handling, Message
    <3> QED BY <1>2, <3>1
  <2>2. CASE mloc[req.path] = None
    BY <1>4, <2>2 DEF FlushCached
  <2> QED BY <2>1, <2>2
<1>5. CASE OpenDso
  <2>1. req.path \in Path
    BY <1>1, <1>5 DEF OpenDso, Control, Handling, Message
  <2> QED BY <1>3, <1>5, <2>1 DEF OpenDso
<1>6. CASE CloseFlushed
  BY <1>1, <1>2, <1>6 DEF CloseFlushed, Held, HandleOpen, Mapped
<1>7. ASSUME NEW l \in LibPath, LoadLib(l) PROVE names[i] \subseteq names'[i]
  BY <1>3, <1>7 DEF LoadLib
<1>8. ASSUME NEW l \in LibPath, UnloadLib(l) PROVE names[i] \subseteq names'[i]
  <2>1. mglb[l] \in Image /\ refs[mglb[l]] > 0 /\ DlClose(mglb[l])
    BY <1>1, <1>8, HeldIsReferenced DEF UnloadLib, TypeOK, Maybe
  <2> QED BY <1>2, <2>1
<1>9. ASSUME NEW p \in Path, UnloadDso(p) PROVE names[i] \subseteq names'[i]
  <2>1. mloc[p] \in Image /\ refs[mloc[p]] > 0 /\ DlClose(mloc[p])
    BY <1>1, <1>9 DEF UnloadDso, Held, Mapped
  <2> QED BY <1>2, <2>1
<1>10. CASE names' = names
  BY <1>10
<1> QED
  BY <1>4, <1>5, <1>6, <1>7, <1>8, <1>9, <1>10
  DEF Next, Exlib, Lifecycle, FileSystem, Idle, Request, Lookup, OpenFails, Insert,
      FindEntry, EntryMissing, InsertFails, CallEntry, Listen, FreeManager, Exit,
      Deploy, Undeploy

\* A flush past its first step still handles the message it began with.
LEMMA MessageKept ==
  ASSUME IInv, [Next]_vars, pc' \in Handling \ {"flush"}, req'.flush
  PROVE  req' = req /\ pc \in Handling
BY DEF Next, Exlib, Lifecycle, FileSystem, Idle, Request, FlushCached, Lookup,
       OpenDso, OpenFails, FindEntry, EntryMissing, Insert, InsertFails, CallEntry,
       CloseFlushed, LoadLib, UnloadLib, UnloadDso, Listen, FreeManager, Exit,
       Deploy, Undeploy, Handling

\* The shutdown is not left, and it is not entered by a step that touches the
\* loader.
LEMMA ShutdownStep ==
  ASSUME [Next]_vars
  PROVE  /\ pc \in {"unload", "end"} => pc' \in {"unload", "end"}
         /\ pc \notin {"unload", "end"} /\ pc' \in {"unload", "end"} =>
              UNCHANGED loader
BY DEF Next, Exlib, Lifecycle, FileSystem, Idle, Request, FlushCached, Lookup,
       OpenDso, OpenFails, FindEntry, EntryMissing, Insert, InsertFails, CallEntry,
       CloseFlushed, LoadLib, UnloadLib, UnloadDso, Listen, FreeManager, Exit,
       Deploy, Undeploy

\* The step in which a handler runs moves no DSO, and what runs is mapped.  It
\* is known under the path of the message, for which the cache holds it unless
\* the message is a flush.
LEMMA HandlerStep ==
  ASSUME IInv, Named, [Next]_vars, pc = "call", pc' # "call"
  PROVE  /\ UNCHANGED <<refs, names, mloc>> /\ pc' \in {"dlclose", "poll"}
         /\ sym \in Image /\ Mapped(sym) /\ req.path \in Path
         /\ req.path \in names[sym] /\ sym.file = FileOf[req.path]
         /\ req.flush \/ mloc[req.path] = sym
<1>1. Control /\ Held /\ CallEntry
  BY HeldIsMapped
  DEF IInv, Next, Exlib, Lifecycle, FileSystem, Idle, Request, FlushCached, Lookup,
      OpenDso, OpenFails, FindEntry, EntryMissing, Insert, InsertFails,
      CloseFlushed, LoadLib, UnloadLib, UnloadDso, Listen, FreeManager, Exit,
      Deploy, Undeploy
<1>2. sym \in Image /\ req.path \in Path /\ sym # None
  BY <1>1, NoneAssumption DEF Control, Handling, Message
<1>3. /\ Mapped(sym) /\ req.path \in names[sym]
      /\ req.flush \/ mloc[req.path] = sym
  BY <1>1, <1>2 DEF Control, Held, Named, HandleOpen
<1> QED BY <1>1, <1>2, <1>3 DEF CallEntry, Named
=============================================================================
