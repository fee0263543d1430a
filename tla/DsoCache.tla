------------------------------ MODULE DsoCache ------------------------------
(***************************************************************************)
(* libsrc/app/src/a.c: the life of the server process seen from its DSOs.  *)
(* appmain loads ./lib, polls until `running` is cleared, lets mongoose    *)
(* close its connections, and unloads what the two maps hold.  Each HTTP   *)
(* message runs hdl_dso and exlib, one action per step that touches the    *)
(* cache (mloc), the dynamic loader or the handler.  There is one thread;  *)
(* what interleaves with it is the file system, where DSOs are built,      *)
(* deployed and removed at any moment.                                     *)
(*                                                                         *)
(* The maps are functions from keys to DSOs here; HashMap shows that       *)
(* map.c behaves as one.  What does not follow from that is which entries  *)
(* hashmap_iterate reaches: it gives up after so many nodes of the map's   *)
(* list, in which a removed entry stays as a tombstone until a resize.     *)
(***************************************************************************)
EXTENDS Integers, FiniteSets, Subsequence

CONSTANTS
  Path,       (* the strings exlib gets: ./www/<uri>.so, the keys of mloc  *)
  LibPath,    (* the names lodlibs builds: ./lib/<entry>.so, keys of mglb  *)
  File,       (* the files these name                                      *)
  FileOf,     (* which file each name leads to; //x and /x are aliases     *)
  None,       (* no DSO: a null handle, an absent entry, an absent file    *)
  MaxVersion, (* bound: how often a file is built                          *)
  IterReach,  (* how many nodes of a list hashmap_iterate passes: 1002     *)
  MaxNodes,   (* bound: nodes on mloc's list                               *)
  MaxLeaks,   (* bound: no more requests once this many handles are lost   *)
  MaxLate     (* bound: messages delivered after running was cleared       *)

Kind == {"handler", "stop", "noentry", "unloadable"}

\* A build of a DSO is an inode: make clean removes the old file first.
Image == [file : File, ver : 1 .. MaxVersion, kind : Kind]

ASSUME PathAssumption == IsFiniteSet(Path) /\ IsFiniteSet(LibPath)
ASSUME FileAssumption == FileOf \in [Path \cup LibPath -> File]
ASSUME NoneAssumption == None \notin Image \cup Path
ASSUME BoundsAssumption == MaxVersion \in Nat /\ MaxLeaks \in Nat /\ MaxLate \in Nat
ASSUME NodesAssumption == IterReach \in Nat /\ MaxNodes \in Nat /\ MaxNodes >= Cardinality(Path)

VARIABLES
  disk,    (* the build each file holds now, None when it is absent        *)
  built,   (* how many builds each file has seen                           *)
  refs,    (* the loader: references to each image, mapped while positive  *)
  names,   (* the loader: the names each mapped image was opened under     *)
  mglb,    (* the map of ./lib: name to handle                             *)
  mloc,    (* the cache: path to DSOEntry, whose hdl and usr are one image *)
  libNodes,(* the list of mglb: its keys as they were set                  *)
  nodes,   (* the list of mloc: its keys, and None for a tombstone         *)
  running, (* the global flag the stop handler clears                      *)
  late,    (* messages delivered since running was cleared                 *)
  unread,  (* the entries of ./lib that readdir has still to return        *)
  pc,      (* where the thread is                                          *)
  req,     (* the message being handled: its path and its flush parameter  *)
  handle,  (* exlib's handle                                               *)
  sym,     (* exlib's sym, as the image that contains it                   *)
  seen,    (* history: the build on disk when exlib called dlopen          *)
  lost     (* history: handles to each image that were dropped unclosed    *)

world == <<disk, built>>
loader == <<refs, names>>
lists == <<libNodes, nodes>>
maps == <<mglb, mloc, lists>>
life == <<running, late, unread>>
local == <<req, handle, sym, seen>>
vars == <<disk, built, refs, names, mglb, mloc, libNodes, nodes, running, late, unread,
          pc, req, handle, sym, seen, lost>>

HasEntry(i) == i.kind \in {"handler", "stop"}
Mapped(i) == refs[i] > 0

-----------------------------------------------------------------------------
(* The dynamic loader *)

Known(p) == {i \in Image : Mapped(i) /\ p \in names[i]}

\* Mutant: dlopen looks at the file only.
OpenTargetByFile(p) == disk[FileOf[p]]

\* dlopen first looks for a mapped object that was opened under this name,
\* and only then at the file; a file that is mapped already is shared.
OpenTarget(p) ==
  IF Known(p) # {} THEN CHOOSE i \in Known(p) : TRUE ELSE disk[FileOf[p]]
Loadable(p) == OpenTarget(p) # None /\ OpenTarget(p).kind # "unloadable"

DlOpen(p) == /\ refs' = [refs EXCEPT ![OpenTarget(p)] = @ + 1]
             /\ names' = [names EXCEPT ![OpenTarget(p)] = @ \cup {p}]

DlClose(i) == /\ refs' = [refs EXCEPT ![i] = @ - 1]
              /\ names' = [names EXCEPT ![i] = IF refs[i] > 1 THEN @ ELSE {}]

-----------------------------------------------------------------------------
(* The lists of the maps *)

\* The keys whose nodes a walk of hashmap_iterate passes, and those behind.
Reached(list) == {list[n] : n \in {m \in DOMAIN list : m <= IterReach}}
Behind(list) == {list[n] : n \in {m \in DOMAIN list : m > IterReach}}

\* hashmap_set appends a node.  It resizes the table first when that is full
\* to its load limit, which unlinks the tombstones; the capacity is not
\* modelled (HashMap has it), so either may happen at any time.
AppendNode(p) ==
  \E list \in {nodes, Only(nodes, Path)} :
    Len(list) < MaxNodes /\ nodes' = Append(list, p)

\* hashmap_remove leaves the node on the list.
Tombstone(p) == nodes' = [n \in DOMAIN nodes |-> IF nodes[n] = p THEN None ELSE nodes[n]]

-----------------------------------------------------------------------------
(* The file system, under the server's feet *)

Deploy(f, kind) ==
  /\ built[f] < MaxVersion
  /\ built' = [built EXCEPT ![f] = @ + 1]
  /\ disk' = [disk EXCEPT ![f] = [file |-> f, ver |-> built[f] + 1, kind |-> kind]]
  /\ UNCHANGED <<loader, maps, life, pc, local, lost>>

Undeploy(f) ==
  /\ disk[f] # None
  /\ disk' = [disk EXCEPT ![f] = None]
  /\ UNCHANGED <<built, loader, maps, life, pc, local, lost>>

-----------------------------------------------------------------------------
(* appmain, before the loop *)

\* One iteration of lodlibs' readdir loop, and the lodlib it makes.
LoadLib(l) ==
  /\ pc = "lodlibs"
  /\ l \in unread
  /\ unread' = unread \ {l}
  /\ IF Loadable(l)
     THEN /\ DlOpen(l)
          /\ mglb' = [mglb EXCEPT ![l] = OpenTarget(l)]
          /\ libNodes' = Append(libNodes, l)
     ELSE UNCHANGED <<loader, mglb, libNodes>>
  /\ UNCHANGED <<world, mloc, nodes, running, late, pc, local, lost>>

\* mg_http_listen: without a listener the loop is skipped.
Listen ==
  /\ pc = "lodlibs"
  /\ unread = {}
  /\ pc' \in {"poll", "unload"}
  /\ UNCHANGED <<world, loader, maps, life, local, lost>>

-----------------------------------------------------------------------------
(* One HTTP message: hdl_dso and exlib *)

Goto(label) == pc' = label

Losses == {i \in Image : lost[i] >= MaxLeaks}

\* A message arrives in the loop or, after running was cleared, from the rest
\* of the last poll and from the connections mg_mgr_free closes.
Request(p, flush) ==
  /\ pc = "poll"
  /\ Losses = {}
  /\ IF running THEN UNCHANGED late ELSE late < MaxLate /\ late' = late + 1
  /\ disk[FileOf[p]] # None                      \* access(dsopath, F_OK) == 0
  /\ req' = [path |-> p, flush |-> flush]
  /\ Goto(IF flush THEN "flush" ELSE "lookup")
  /\ UNCHANGED <<world, loader, maps, running, unread, handle, sym, seen, lost>>

\* The end of exlib: its locals go out of scope.
Return == Goto("poll") /\ req' = None /\ handle' = None /\ sym' = None /\ seen' = None

\* Mutant: the flush closes the handle and leaves it in the cache.
FlushCachedKeepsEntry ==
  /\ pc = "flush"
  /\ IF mloc[req.path] # None THEN DlClose(mloc[req.path]) ELSE UNCHANGED loader
  /\ Goto("lookup")
  /\ UNCHANGED <<world, maps, life, local, lost>>

\* Mutant: the flush forgets the handle without closing it.
FlushCachedKeepsOpen ==
  /\ pc = "flush"
  /\ mloc' = [mloc EXCEPT ![req.path] = None]
  /\ Tombstone(req.path)
  /\ Goto("lookup")
  /\ UNCHANGED <<world, loader, mglb, libNodes, life, local, lost>>

\* A flush closes the cached handle and forgets it.
FlushCached ==
  /\ pc = "flush"
  /\ IF mloc[req.path] # None
     THEN /\ DlClose(mloc[req.path])
          /\ mloc' = [mloc EXCEPT ![req.path] = None]
          /\ Tombstone(req.path)
     ELSE UNCHANGED <<loader, mloc, nodes>>
  /\ Goto("lookup")
  /\ UNCHANGED <<world, mglb, libNodes, life, local, lost>>

Lookup ==
  /\ pc = "lookup"
  /\ sym' = mloc[req.path]
  /\ Goto(IF mloc[req.path] # None THEN "call" ELSE "dlopen")
  /\ UNCHANGED <<world, loader, maps, life, req, handle, seen, lost>>

OpenDso ==
  /\ pc = "dlopen"
  /\ Loadable(req.path)
  /\ DlOpen(req.path)
  /\ handle' = OpenTarget(req.path)
  /\ seen' = disk[FileOf[req.path]]
  /\ Goto("dlsym")
  /\ UNCHANGED <<world, maps, life, req, sym, lost>>

\* exlib:elod
OpenFails ==
  /\ pc = "dlopen"
  /\ ~Loadable(req.path)
  /\ Return
  /\ UNCHANGED <<world, loader, maps, life, lost>>

FindEntry ==
  /\ pc = "dlsym"
  /\ HasEntry(handle)
  /\ sym' = handle
  /\ Goto(IF req.flush THEN "call" ELSE "insert")
  /\ UNCHANGED <<world, loader, maps, life, req, handle, seen, lost>>

\* Returning without dlclose, the only reference to the handle is lost.
Lose == Return /\ lost' = [lost EXCEPT ![handle] = @ + 1]

\* exlib:esym
EntryMissing ==
  /\ pc = "dlsym"
  /\ ~HasEntry(handle)
  /\ Lose
  /\ UNCHANGED <<world, loader, maps, life>>

\* path3 and the DSOEntry are allocated and put in the cache.
Insert ==
  /\ pc = "insert"
  /\ mloc' = [mloc EXCEPT ![req.path] = handle]
  /\ AppendNode(req.path)
  /\ Goto("call")
  /\ UNCHANGED <<world, loader, mglb, libNodes, life, local, lost>>

\* malloc fails for path3 or for the DSOEntry.
InsertFails ==
  /\ pc = "insert"
  /\ Lose
  /\ UNCHANGED <<world, loader, maps, life>>

\* Mutant: the handle is closed after every call, not only after a flush.
CallEntryAlwaysCloses ==
  /\ pc = "call"
  /\ running' = (running /\ sym.kind # "stop")
  /\ IF handle # None THEN Goto("dlclose") /\ UNCHANGED local ELSE Return
  /\ UNCHANGED <<world, loader, maps, late, unread, lost>>

\* sym(c, ev, ev_data, fn_data): of all handlers only stop touches this state.
CallEntry ==
  /\ pc = "call"
  /\ running' = (running /\ sym.kind # "stop")
  /\ IF req.flush THEN Goto("dlclose") /\ UNCHANGED local ELSE Return
  /\ UNCHANGED <<world, loader, maps, late, unread, lost>>

\* Mutant: the handle of a flushed request is never closed.
CloseFlushedNever ==
  /\ pc = "dlclose"
  /\ Return
  /\ UNCHANGED <<world, loader, maps, life, lost>>

CloseFlushed ==
  /\ pc = "dlclose"
  /\ DlClose(handle)
  /\ Return
  /\ UNCHANGED <<world, maps, life, lost>>

-----------------------------------------------------------------------------
(* appmain, after the loop *)

\* Mutant: the loop runs until running is set.
FreeManagerInverted ==
  /\ pc = "poll"
  /\ running
  /\ Goto("unload")
  /\ UNCHANGED <<world, loader, maps, life, local, lost>>

\* mg_mgr_free has closed every connection.
FreeManager ==
  /\ pc = "poll"
  /\ ~running
  /\ Goto("unload")
  /\ UNCHANGED <<world, loader, maps, life, local, lost>>

\* free_map_hdl_entry on the entries of mglb that hashmap_iterate reaches,
\* then free_map_dso_entry on those of mloc.
UnloadLib(l) ==
  /\ pc = "unload"
  /\ l \in Reached(libNodes) /\ mglb[l] # None
  /\ DlClose(mglb[l])
  /\ mglb' = [mglb EXCEPT ![l] = None]
  /\ UNCHANGED <<world, mloc, lists, life, pc, local, lost>>

LibsUnloaded == \A l \in LibPath \cap Reached(libNodes) : mglb[l] = None
DsosUnloaded == \A p \in Path \cap Reached(nodes) : mloc[p] = None

\* Mutant: the entries of mloc are freed but their handles stay open.
UnloadDsoKeepsOpen(p) ==
  /\ pc = "unload"
  /\ LibsUnloaded
  /\ p \in Reached(nodes) /\ mloc[p] # None
  /\ mloc' = [mloc EXCEPT ![p] = None]
  /\ UNCHANGED <<world, loader, mglb, lists, life, pc, local, lost>>

UnloadDso(p) ==
  /\ pc = "unload"
  /\ LibsUnloaded
  /\ p \in Reached(nodes) /\ mloc[p] # None
  /\ DlClose(mloc[p])
  /\ mloc' = [mloc EXCEPT ![p] = None]
  /\ UNCHANGED <<world, mglb, lists, life, pc, local, lost>>

Exit ==
  /\ pc = "unload"
  /\ LibsUnloaded /\ DsosUnloaded
  /\ Goto("end")
  /\ UNCHANGED <<world, loader, maps, life, local, lost>>

-----------------------------------------------------------------------------
Init ==
  /\ built = [f \in File |-> 0] /\ disk = [f \in File |-> None]
  /\ refs = [i \in Image |-> 0] /\ names = [i \in Image |-> {}]
  /\ mglb = [l \in LibPath |-> None] /\ mloc = [p \in Path |-> None]
  /\ libNodes = <<>> /\ nodes = <<>>
  /\ running = TRUE /\ late = 0 /\ unread = LibPath
  /\ pc = "lodlibs"
  /\ req = None /\ handle = None /\ sym = None /\ seen = None
  /\ lost = [i \in Image |-> 0]

Exlib == \/ FlushCached \/ Lookup \/ OpenDso \/ OpenFails \/ FindEntry
         \/ EntryMissing \/ Insert \/ InsertFails \/ CallEntry \/ CloseFlushed

Lifecycle == \/ \E l \in LibPath : LoadLib(l) \/ UnloadLib(l)
             \/ \E p \in Path : UnloadDso(p)
             \/ Listen \/ FreeManager \/ Exit

FileSystem == \/ \E f \in File, kind \in Kind : Deploy(f, kind)
              \/ \E f \in File : Undeploy(f)

\* The process waits in mg_mgr_poll, or has exited.
Idle == pc \in {"poll", "end"} /\ UNCHANGED vars

Next == \/ \E p \in Path, flush \in BOOLEAN : Request(p, flush)
        \/ Exlib
        \/ Lifecycle
        \/ FileSystem
        \/ Idle

\* The one thread never stops by itself between two steps.
Fairness == WF_vars(Exlib) /\ WF_vars(Lifecycle)

Spec == Init /\ [][Next]_vars /\ Fairness

-----------------------------------------------------------------------------
(* Properties *)

Labels == {"lodlibs", "poll", "flush", "lookup", "dlopen", "dlsym", "insert",
           "call", "dlclose", "unload", "end"}
Maybe(S) == S \cup {None}

TypeOK ==
  /\ disk \in [File -> Maybe(Image)] /\ built \in [File -> 0 .. MaxVersion]
  /\ refs \in [Image -> Nat]
  /\ names \in [Image -> SUBSET (Path \cup LibPath)]
  /\ mglb \in [LibPath -> Maybe(Image)] /\ mloc \in [Path -> Maybe(Image)]
  /\ libNodes \in Seq(LibPath) /\ nodes \in Seq(Maybe(Path))
  /\ running \in BOOLEAN /\ late \in Nat /\ unread \in SUBSET LibPath
  /\ pc \in Labels
  /\ req \in Maybe([path : Path, flush : BOOLEAN])
  /\ handle \in Maybe(Image) /\ sym \in Maybe(Image) /\ seen \in Maybe(Image)
  /\ lost \in [Image -> Nat]

\* Who holds a reference to an image: the cache, ./lib, exlib's own handle.
CacheHolds(i) == {p \in Path : mloc[p] = i}
LibHolds(i) == {l \in LibPath : mglb[l] = i}
HandleOpen == \/ pc \in {"dlsym", "insert", "dlclose"}
              \/ pc = "call" /\ req.flush
InHand(i) == IF HandleOpen /\ handle = i THEN 1 ELSE 0

\* The loader's count of every image is what the program holds plus what it
\* has lost: no handle is closed twice, by a flush and by the shutdown say,
\* and none is forgotten but by the two error returns of exlib.
RefsAccounted ==
  \A i \in Image :
    refs[i] = Cardinality(CacheHolds(i)) + Cardinality(LibHolds(i))
                + InHand(i) + lost[i]

\* Whatever was flushed, redeployed or removed since, the function exlib is
\* about to call, and every function it has cached, is code that is mapped.
RunsMappedCode ==
  /\ pc = "call" => sym # None /\ Mapped(sym) /\ HasEntry(sym)
  /\ \A p \in Path : mloc[p] # None => Mapped(mloc[p]) /\ HasEntry(mloc[p])

\* A flush runs the build that is on disk, unless someone else holds the old
\* one: an alias of the path in the cache, ./lib, or a handle that was lost.
HeldElsewhere(i) == CacheHolds(i) # {} \/ LibHolds(i) # {} \/ lost[i] > 0
FlushReloads == pc = "call" /\ req.flush => sym = seen \/ HeldElsewhere(sym)

\* When the process ends, a DSO is mapped only by a handle that exlib lost or
\* by an entry that hashmap_iterate did not get to, for IterReach other nodes
\* come before its own on the list, be they entries or tombstones.  As long
\* as the lists are no longer than that, only lost handles remain.
LeftOpen(i) == Cardinality(CacheHolds(i) \cap Behind(nodes))
                 + Cardinality(LibHolds(i) \cap Behind(libNodes))
UnloadedAtExit == pc = "end" => \A i \in Image : refs[i] = lost[i] + LeftOpen(i)

\* Once the stop handler ran, the server finishes what is in flight, unloads
\* its DSOs and ends.
ShutsDown == ~running ~> pc = "end"
=============================================================================
