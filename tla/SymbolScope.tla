---------------------------- MODULE SymbolScope ----------------------------
(***************************************************************************)
(* The symbols DSOs take from each other.  a.c opens every DSO with        *)
(* RTLD_GLOBAL: it joins one list, in the order of loading, in which the   *)
(* loader looks for every exported name, and an image that was found there *)
(* stays mapped as long as the one that needed it.  ex0 needs acc, which   *)
(* only ./lib/data1.so has.  lst and blog export the helpers their own     *)
(* entry calls (ls, test1), so that a new build may end up with the        *)
(* helpers of an old one; those of lst write to the connection that the    *)
(* entry of their own build has stored in a static variable.               *)
(*                                                                         *)
(* A request is one step here, whichever way exlib returns.  DsoCache      *)
(* takes exlib apart, for pages that do not depend on each other's         *)
(* symbols.                                                                *)
(***************************************************************************)
EXTENDS Integers, Sequences, FiniteSets, SequencesExt, Subsequence

CONSTANTS
  Path, LibPath,   (* the names exlib and lodlibs give to dlopen            *)
  File, FileOf,    (* the files, and which of them a name leads to          *)
  Defines, Needs,  (* the symbol each file exports, and the one it looks up *)
  None,
  MaxVersion,      (* bound: how often a file is built                      *)
  MaxCalls,        (* bound: the calls of ex0                               *)
  MaxLost          (* bound: the handles that are lost                      *)

Image == [file : File, ver : 1 .. MaxVersion]
ASSUME ScopeAssumption == /\ FileOf \in [Path \cup LibPath -> File]
                          /\ IsFiniteSet(Path) /\ IsFiniteSet(LibPath)
                          /\ MaxVersion \in Nat /\ MaxCalls \in Nat /\ MaxLost \in Nat
                          /\ None \notin Image

\* Pages are in ./www, and libraries in ./lib.  What a page exports, as lst and
\* blog do, only its own entry needs, and no other file exports it.
ASSUME PageAssumption ==
  \A p \in Path : /\ \A q \in LibPath : FileOf[q] # FileOf[p]
                  /\ Defines[FileOf[p]] # None =>
                       /\ Needs[FileOf[p]] = Defines[FileOf[p]]
                       /\ \A f \in File : Defines[FileOf[p]] \in {Defines[f], Needs[f]}
                                           => f = FileOf[p]

\* Of the libraries only data1 exports anything.
ASSUME LibraryAssumption ==
  \A p, q \in LibPath : Defines[FileOf[p]] # None /\ Defines[FileOf[q]] # None => p = q

VARIABLES
  disk,        (* the build each file holds, or None                        *)
  ld,          (* the loader: references, names, scope, bindings            *)
  mglb, mloc,  (* the maps of a.c                                           *)
  lost,        (* history: the handles exlib has opened and dropped         *)
  acc,         (* data1's variable, in each image that has it               *)
  c,           (* lst's variable: no connection, this request's, or another *)
  pc,
  calls, used, (* history: requests that ex0 answered; paths requested      *)
  last         (* history: the last request, and what it was served by      *)

vars == <<disk, ld, mglb, mloc, lost, acc, c, pc, calls, used, last>>

-----------------------------------------------------------------------------
(* The dynamic loader: operators on its state *)

\* Mutant: a binding does not keep its target mapped.
KeptDirectly(refs, bound) == {i \in Image : refs[i] > 0}

\* What dlclose leaves: the images opened, and those they are bound to.
KeepsAll(kept, refs, bound) ==
  \A i \in Image : /\ refs[i] > 0 => i \in kept
                   /\ i \in kept /\ bound[i] # None => bound[i] \in kept
Kept(refs, bound) ==
  LET opened == {i \in Image : refs[i] > 0}
      others == {i \in Image \ opened : \E j \in Image : bound[j] = i}
      enough == {S \in SUBSET others : KeepsAll(opened \cup S, refs, bound)}
  IN opened \cup {i \in others : \A S \in enough : i \in S}

Mapped(l) == ToSet(l.scope)

\* A mapped object that was opened under this name, or else the file.
Target(l, p) ==
  LET known == {i \in Mapped(l) : p \in l.names[i]}
  IN IF known # {} THEN CHOOSE i \in known : TRUE ELSE disk[FileOf[p]]

\* The first in the list that exports what t needs; t itself is the last.
Providers(l, t) ==
  Only(IF t \in Mapped(l) THEN l.scope ELSE Append(l.scope, t),
       {i \in Image : Defines[i.file] = Needs[t.file]})
Opens(l, p) == /\ Target(l, p) # None
               /\ Needs[Target(l, p).file] # None => Providers(l, Target(l, p)) # <<>>

\* Mutant: an image that is opened again moves to the end of the list.
OpenedTwice(l, p) ==
  LET t == Target(l, p)
  IN [l EXCEPT !.refs[t] = @ + 1, !.names[t] = @ \cup {p},
               !.scope = Append(@, t),
               !.bound[t] = IF Needs[t.file] = None THEN None ELSE Head(Providers(l, t))]

Opened(l, p) ==
  LET t == Target(l, p)
      open == [l EXCEPT !.refs[t] = @ + 1, !.names[t] = @ \cup {p}]
  IN IF t \in Mapped(l) THEN open
     ELSE [open EXCEPT !.scope = Append(@, t),
             !.bound[t] = IF Needs[t.file] = None THEN None ELSE Head(Providers(l, t))]

Closed(l, t) ==
  LET refs == [l.refs EXCEPT ![t] = @ - 1]
      kept == Kept(refs, l.bound)
  IN [refs |-> refs, scope |-> Only(l.scope, kept),
      names |-> [i \in Image |-> IF i \in kept THEN l.names[i] ELSE {}],
      bound |-> [i \in Image |-> IF i \in kept THEN l.bound[i] ELSE None]]

\* The variables of an image are initialised when it is mapped.
Loads(l, i) == i \in Mapped(l) /\ i \notin Mapped(ld)

-----------------------------------------------------------------------------
(* The file system, and appmain before and after its loop *)

Deploy(f) ==
  /\ \E v \in 1 .. MaxVersion :
       /\ \A i \in Mapped(ld) \cup {disk[f]} : i # None /\ i.file = f => i.ver < v
       /\ disk' = [disk EXCEPT ![f] = [file |-> f, ver |-> v]]
  /\ UNCHANGED <<ld, mglb, mloc, lost, acc, c, pc, calls, used, last>>

\* Mutant: lodlib opens with RTLD_LOCAL.
JoinsNothing(l) == [l EXCEPT !.scope = ld.scope]
Joins(l) == l

\* lodlibs, in the order of readdir.
LoadLib(p) ==
  /\ pc = "lodlibs" /\ mglb[p] = None /\ Opens(ld, p)
  /\ ld' = Joins(Opened(ld, p))
  /\ mglb' = [mglb EXCEPT ![p] = Target(ld, p)]
  /\ acc' = [i \in Image |-> IF Loads(ld', i) THEN 0 ELSE acc[i]]
  /\ UNCHANGED <<disk, mloc, lost, c, pc, calls, used, last>>

\* The directory has been read; what was not loaded was not there, or lodlib failed.
Listen == /\ pc = "lodlibs" /\ pc' = "poll"
          /\ UNCHANGED <<disk, ld, mglb, mloc, lost, acc, c, calls, used, last>>

Stop == pc = "poll" /\ pc' = "unload"
        /\ UNCHANGED <<disk, ld, mglb, mloc, lost, acc, c, calls, used, last>>

UnloadLib(p) ==
  /\ pc = "unload" /\ mglb[p] # None
  /\ ld' = Closed(ld, mglb[p]) /\ mglb' = [mglb EXCEPT ![p] = None]
  /\ UNCHANGED <<disk, mloc, lost, acc, c, pc, calls, used, last>>

\* One entry of the walk over mloc, which may end before the last (DsoCache).
UnloadDso(p) ==
  /\ pc = "unload" /\ \A q \in LibPath : mglb[q] = None
  /\ mloc[p] # None
  /\ ld' = Closed(ld, mloc[p]) /\ mloc' = [mloc EXCEPT ![p] = None]
  /\ UNCHANGED <<disk, mglb, lost, acc, c, pc, calls, used, last>>

-----------------------------------------------------------------------------
(* A request *)

\* Mutant: the flush forgets the handle without closing it.
AfterFlushOpen(p) == ld
AfterFlush(p) == IF mloc[p] # None THEN Closed(ld, mloc[p]) ELSE ld

\* entry of the image i: that of ex0 adds to the acc it is bound to; that of
\* lst stores the connection and leaves the reply to the helper it is bound to.
Entry(p, flush, i, helper) ==
  LET counts == Needs[i.file] # None /\ Defines[i.file] = None
      stored == [j \in Image |-> IF j = i THEN "mine" ELSE
                                 IF j \in Mapped(ld') /\ c[j] # "none" THEN "another" ELSE "none"]
  IN /\ counts => calls < MaxCalls
     /\ calls' = calls + (IF counts THEN 1 ELSE 0)
     /\ acc' = IF counts THEN [acc EXCEPT ![helper] = @ + 1] ELSE acc
     /\ c' = stored
     /\ last' = [path |-> p, flush |-> flush, page |-> i, helper |-> helper,
                 writes |-> IF helper = None THEN "mine" ELSE stored[helper],
                 disk |-> disk[FileOf[p]], unresolved |-> FALSE]

\* exlib replies with an error and calls nothing; l is what it had not closed.
Failed(p, l, unresolved) ==
  /\ last' = [path |-> p, page |-> None, unresolved |-> unresolved]
  /\ c' = [i \in Image |-> IF i \in Mapped(l) THEN c[i] ELSE "none"]
  /\ UNCHANGED <<acc, calls>>

\* No memory for a path: exlib has not looked at the cache yet.
NoMemory(p) == UNCHANGED <<ld, mloc, lost>> /\ Failed(p, ld, FALSE)

\* The handler is cached, and this is not a flush.
Answers(p, flush) ==
  /\ ~flush /\ mloc[p] # None
  /\ UNCHANGED <<ld, mloc, lost>>
  /\ Entry(p, flush, mloc[p], ld.bound[mloc[p]])

\* Otherwise dlopen is called; with flush, a cached handle is closed first, and
\* the one opened after the call.
Reopened(p, flush) == IF flush THEN AfterFlush(p) ELSE ld
Uncached(p) == [mloc EXCEPT ![p] = None]

Loading(p, flush) ==
  LET l == Reopened(p, flush)
      i == Target(l, p)
      open == Opened(l, p)
  IN /\ flush \/ mloc[p] = None
     /\ Opens(l, p)
     /\ ld' = IF flush THEN Closed(open, i) ELSE open
     /\ mloc' = [mloc EXCEPT ![p] = IF flush THEN None ELSE i]
     /\ UNCHANGED lost
     /\ Entry(p, flush, i, open.bound[i])

\* dlopen fails: for want of a symbol, or the file is no DSO, or no memory.
Refuses(p, flush) ==
  LET l == Reopened(p, flush)
  IN /\ flush \/ mloc[p] = None
     /\ ld' = l /\ mloc' = Uncached(p) /\ UNCHANGED lost
     /\ \E unresolved \in BOOLEAN : /\ unresolved => ~Opens(l, p)
                                    /\ Failed(p, l, unresolved)

LostHandles == FoldFunction(+, 0, lost)

\* The DSO has no entry, or there is no memory to cache it: exlib returns and
\* drops the handle it has just opened.
Loses(p, flush) ==
  LET l == Reopened(p, flush)
      i == Target(l, p)
  IN /\ flush \/ mloc[p] = None
     /\ Opens(l, p) /\ LostHandles < MaxLost
     /\ ld' = Opened(l, p) /\ mloc' = Uncached(p)
     /\ lost' = [lost EXCEPT ![i] = @ + 1]
     /\ Failed(p, l, FALSE)

\* hdl_dso and exlib.
Request(p, flush) ==
  /\ pc = "poll" /\ disk[FileOf[p]] # None
  /\ used' = used \cup {p}
  /\ \/ Answers(p, flush) \/ Loading(p, flush)
     \/ NoMemory(p) \/ Refuses(p, flush) \/ Loses(p, flush)
  /\ UNCHANGED <<disk, mglb, pc>>

-----------------------------------------------------------------------------
Init ==
  /\ disk \in [File -> {None} \cup Image]
  /\ \A f \in File : disk[f] # None => disk[f] = [file |-> f, ver |-> 1]
  /\ ld = [refs |-> [i \in Image |-> 0], names |-> [i \in Image |-> {}],
           scope |-> <<>>, bound |-> [i \in Image |-> None]]
  /\ mglb = [p \in LibPath |-> None] /\ mloc = [p \in Path |-> None]
  /\ lost = [i \in Image |-> 0]
  /\ acc = [i \in Image |-> 0] /\ c = [i \in Image |-> "none"]
  /\ pc = "lodlibs" /\ calls = 0 /\ used = {} /\ last = None

Done == pc = "unload" /\ (\A p \in LibPath : mglb[p] = None) /\ UNCHANGED vars

Next == \/ \E f \in File : Deploy(f)
        \/ \E p \in LibPath : LoadLib(p) \/ UnloadLib(p)
        \/ \E p \in Path : UnloadDso(p)
        \/ \E p \in Path, flush \in BOOLEAN : Request(p, flush)
        \/ Listen \/ Stop \/ Done

Spec == Init /\ [][Next]_vars

-----------------------------------------------------------------------------
(* Properties *)

\* What is mapped is what the maps hold, the handles that exlib has lost, and
\* what those are bound to, each once.
TypeOK ==
  /\ disk \in [File -> {None} \cup Image]
  /\ mglb \in [LibPath -> {None} \cup Image] /\ mloc \in [Path -> {None} \cup Image]
  /\ IsInjective(ld.scope) /\ Mapped(ld) = Kept(ld.refs, ld.bound)
  /\ \A i \in Image :
       /\ lost[i] \in Nat
       /\ ld.refs[i] = Cardinality({p \in LibPath : mglb[p] = i})
                         + Cardinality({p \in Path : mloc[p] = i}) + lost[i]
       /\ ld.names[i] \subseteq Path \cup LibPath
       /\ ld.bound[i] \in {None} \cup Image
       /\ acc[i] \in 0 .. MaxCalls /\ c[i] \in {"none", "mine", "another"}
  /\ pc \in {"lodlibs", "poll", "unload"} /\ calls \in 0 .. MaxCalls
  /\ used \subseteq Path

\* No mapped image uses a symbol of one that is not mapped: not after a flush
\* of the page that has it, and not in the shutdown, which closes ./lib before
\* the pages that are bound to it.
BoundMapped == \A i \in Mapped(ld) : ld.bound[i] # None => ld.bound[i] \in Mapped(ld)

\* ex0 counts in data1's acc however often it is flushed and both are rebuilt;
\* and whenever dlopen misses a symbol of it, data1 was not loaded when the
\* server started.
CounterKept ==
  /\ \A i \in Mapped(ld) : Needs[i.file] = None /\ Defines[i.file] # None => acc[i] = calls
  /\ pc = "poll" /\ last # None /\ last.unresolved =>
       \A p \in LibPath : mglb[p] # None =>
         Defines[mglb[p].file] # Needs[FileOf[last.path]]

\* A page that is requested by one spelling of its path only runs the build
\* its entry is from, writes to the connection of the request, and after a
\* flush is the one on disk, unless exlib has lost a handle to the one it is.
OneNameIsEnough ==
  last # None /\ last.page # None
    /\ Cardinality({p \in used : FileOf[p] = FileOf[last.path]}) = 1 =>
      /\ Defines[last.page.file] # None => last.helper = last.page /\ last.writes = "mine"
      /\ last.flush => last.page = last.disk \/ lost[last.page] > 0

\* With several spellings, a flush may run an old build; then another spelling
\* has it in the cache, or a newer build has taken its helpers, or exlib has
\* lost a handle to it.
OldOnlyIfHeld ==
  pc = "poll" /\ last # None /\ last.page # None /\ last.flush /\ last.page # last.disk =>
    \/ \E p \in Path \ {last.path} : mloc[p] = last.page
    \/ \E i \in Mapped(ld) \ {last.page} : ld.bound[i] = last.page
    \/ lost[last.page] > 0
=============================================================================
