-------------------------- MODULE SymbolScopeProofs --------------------------
(***************************************************************************)
(* For any names, files, symbols and builds: the loader keeps mapped what  *)
(* is bound to, and what follows for the pages and the counter of ex0.     *)
(***************************************************************************)
EXTENDS SymbolScope, FiniteSetTheorems, FunctionTheorems, SequenceTheorems,
        BasicLemmas

-----------------------------------------------------------------------------
(* The scope: what Only keeps of it *)

LEMMA Appending ==
  ASSUME NEW T, NEW t \in Seq(T), NEW x \in T
  PROVE  /\ Append(t, x) \in Seq(T) /\ ToSet(Append(t, x)) = ToSet(t) \cup {x}
         /\ IsInjective(t) /\ x \notin ToSet(t) => IsInjective(Append(t, x))
<1> DEFINE u == Append(t, x)
           n == Len(t)
<1>1. n \in Nat /\ DOMAIN t = 1 .. n
  BY LenProperties
<1>2. /\ u \in Seq(T) /\ Len(u) = n + 1 /\ DOMAIN u = 1 .. n + 1
      /\ (\A i \in 1 .. n : u[i] = t[i]) /\ u[n + 1] = x
  BY <1>1, AppendProperties, LenProperties
<1> HIDE DEF u, n
<1>3. 1 .. n + 1 = (1 .. n) \cup {n + 1}
  BY <1>1
<1>4. ToSet(u) = ToSet(t) \cup {x}
  <2>1. \A i \in 1 .. n + 1 : u[i] = IF i = n + 1 THEN x ELSE t[i]
    BY <1>2, <1>3
  <2>2. \A i \in 1 .. n : i # n + 1 /\ i \in 1 .. n + 1
    BY <1>1
  <2>3. n + 1 \in 1 .. n + 1
    BY <1>1
  <2> QED BY <1>1, <1>2, <1>3, <2>1, <2>2, <2>3 DEF ToSet
<1>5. ASSUME IsInjective(t), x \notin ToSet(t) PROVE IsInjective(u)
  <2>1. \A i, j \in 1 .. n : t[i] = t[j] => i = j
    BY <1>1, <1>5 DEF IsInjective
  <2>2. \A i \in 1 .. n : t[i] # x
    BY <1>1, <1>5 DEF ToSet
  <2> SUFFICES ASSUME NEW i \in 1 .. n + 1, NEW j \in 1 .. n + 1, u[i] = u[j] PROVE i = j
    BY <1>2 DEF IsInjective
  <2> QED BY <1>2, <1>3, <2>1, <2>2
<1> QED BY <1>2, <1>4, <1>5 DEF u

LEMMA OnlyKeeps ==
  ASSUME NEW T, NEW s \in Seq(T), NEW S
  PROVE  /\ Only(s, S) \in Seq(T) /\ ToSet(Only(s, S)) = ToSet(s) \cap S
         /\ IsInjective(s) => IsInjective(Only(s, S))
<1>1. PICK f : Chain(f, s, S, Len(s)) /\ Only(s, S) = f[Len(s)]
  BY OnlyChain
<1> DEFINE First(n) == {s[i] : i \in 1 .. n}
           Good(n) == /\ f[n] \in Seq(T) /\ ToSet(f[n]) = First(n) \cap S
                      /\ IsInjective(s) => IsInjective(f[n])
           G == {n \in Nat : n <= Len(s) => Good(n)}
<1>2. Len(s) \in Nat /\ DOMAIN s = 1 .. Len(s)
  BY LenProperties
<1>3. 0 \in G
  <2>1. f[0] = <<>>
    BY <1>1, <1>2 DEF Chain
  <2>2. First(0) = {} /\ ToSet(<<>>) = {} /\ IsInjective(<<>>) /\ <<>> \in Seq(T)
    BY DEF ToSet, IsInjective
  <2> QED BY <2>1, <2>2
<1>4. ASSUME NEW n \in G PROVE n + 1 \in G
  <2> DEFINE m == n + 1
             t == f[n]
  <2> SUFFICES ASSUME m <= Len(s) PROVE Good(m)
    OBVIOUS
  <2>1. /\ n \in Nat /\ m \in 1 .. Len(s) /\ m - 1 = n /\ Good(n)
    BY <1>2
  <2>2. f[m] = IF s[m] \in S THEN Append(t, s[m]) ELSE t
    <3>1. f[m] = IF s[m] \in S THEN Append(f[m - 1], s[m]) ELSE f[m - 1]
      <4> HIDE DEF m
      <4> QED BY <1>1, <1>2, <2>1, ChainAt
    <3> QED BY <2>1, <3>1
  <2>3. First(m) = First(n) \cup {s[m]} /\ s[m] \in T
    <3>1. 1 .. m = (1 .. n) \cup {m}
      BY <2>1
    <3>2. s[m] \in T
      BY <2>1, ElementOfSeq
    <3> QED BY <3>1, <3>2
  <2>4. CASE s[m] \notin S
    <3>1. f[m] = t /\ First(m) \cap S = First(n) \cap S
      BY <2>2, <2>3, <2>4
    <3> QED BY <2>1, <3>1
  <2>5. CASE s[m] \in S
    <3> DEFINE x == s[m]
               u == Append(t, x)
    <3>1. f[m] = u /\ First(m) \cap S = (First(n) \cap S) \cup {x}
      BY <2>2, <2>3, <2>5
    <3>2. t \in Seq(T) /\ ToSet(t) = First(n) \cap S /\ (IsInjective(s) => IsInjective(t)) /\ x \in T
      BY <2>1, <2>3
    <3>3. IsInjective(s) => x \notin ToSet(t)
      <4>1. IsInjective(s) => x \notin First(n)
        BY <1>2, <2>1 DEF IsInjective
      <4> QED BY <3>2, <4>1
    <3> HIDE DEF x, u, t, m, Good, First
    <3>4. u \in Seq(T) /\ ToSet(u) = ToSet(t) \cup {x} /\ (IsInjective(t) /\ x \notin ToSet(t) => IsInjective(u))
      BY <3>2, Appending DEF u
    <3> QED BY <3>1, <3>2, <3>3, <3>4 DEF Good
  <2> QED BY <2>4, <2>5
<1>5. G = Nat
  <2> HIDE DEF G
  <2>1. G \in SUBSET Nat
    BY DEF G
  <2> QED BY <1>3, <1>4, <2>1, Induction
<1>6. Good(Len(s))
  <2> HIDE DEF Good
  <2>1. Len(s) \in G
    BY <1>2, <1>5
  <2> QED BY <1>2, <2>1
<1>7. First(Len(s)) = ToSet(s)
  BY <1>2 DEF ToSet
<1> QED BY <1>1, <1>6, <1>7

-----------------------------------------------------------------------------
(* The loader *)

Name == Path \cup LibPath
Refs == [Image -> Nat]
Bound == [Image -> {None} \cup Image]
Loader == [refs : Refs, names : [Image -> SUBSET Name], scope : Seq(Image), bound : Bound]

\* What is mapped is what is kept; each mapped image has names, of its own
\* file, that no other has; and a symbol, if it needs one, from one that
\* exports it.
LoaderOK(l) ==
  /\ l \in Loader /\ IsInjective(l.scope)
  /\ Mapped(l) = Kept(l.refs, l.bound)
  /\ \A i \in Image \ Mapped(l) : l.names[i] = {} /\ l.bound[i] = None
  /\ \A i \in Mapped(l) : /\ l.names[i] # {}
                          /\ \A p \in l.names[i] : FileOf[p] = i.file
  /\ \A i, j \in Mapped(l) : l.names[i] \cap l.names[j] # {} => i = j
  /\ \A i \in Mapped(l) : IF l.bound[i] = None THEN Needs[i.file] = None
                          ELSE /\ Needs[i.file] # None
                               /\ Defines[l.bound[i].file] = Needs[i.file]

DiskOK == disk \in [File -> {None} \cup Image]
          /\ \A f \in File : disk[f] # None => disk[f].file = f

\* Kept is closed, and the least set that is.
LEMMA KeptCloses ==
  ASSUME NEW refs \in Refs, NEW bound \in Bound
  PROVE  Kept(refs, bound) \subseteq Image /\ KeepsAll(Kept(refs, bound), refs, bound)
<1> DEFINE opened == {i \in Image : refs[i] > 0}
           others == {i \in Image \ opened : \E j \in Image : bound[j] = i}
           enough == {S \in SUBSET others : KeepsAll(opened \cup S, refs, bound)}
           kept == opened \cup {i \in others : \A S \in enough : i \in S}
<1>1. Kept(refs, bound) = kept
  BY DEF Kept
<1>2. ASSUME NEW i \in kept, bound[i] # None PROVE bound[i] \in kept
  <2>1. i \in Image /\ bound[i] \in Image
    BY <1>2 DEF Bound
  <2>2. CASE bound[i] \in opened
    BY <2>2
  <2>3. CASE bound[i] \notin opened
    <3>1. bound[i] \in others
      BY <2>1, <2>3
    <3>2. ASSUME NEW S \in enough PROVE bound[i] \in S
      <4>1. i \in opened \cup S
        BY <1>2, <3>2
      <4>2. KeepsAll(opened \cup S, refs, bound)
        BY <3>2
      <4> HIDE DEF opened, enough
      <4> QED BY <1>2, <2>1, <2>3, <4>1, <4>2 DEF KeepsAll
    <3> QED BY <3>1, <3>2
  <2> QED BY <2>2, <2>3
<1>3. KeepsAll(kept, refs, bound)
  BY <1>2 DEF KeepsAll
<1> QED BY <1>1, <1>3

LEMMA KeptLeast ==
  ASSUME NEW refs \in Refs, NEW bound \in Bound, NEW K, KeepsAll(K, refs, bound)
  PROVE  Kept(refs, bound) \subseteq K
<1> DEFINE opened == {i \in Image : refs[i] > 0}
           others == {i \in Image \ opened : \E j \in Image : bound[j] = i}
           enough == {S \in SUBSET others : KeepsAll(opened \cup S, refs, bound)}
           T == K \cap others
<1>1. opened \subseteq K
  BY DEF KeepsAll
<1>2. KeepsAll(opened \cup T, refs, bound)
  <2> SUFFICES ASSUME NEW i \in Image, i \in opened \cup T, bound[i] # None
               PROVE  bound[i] \in opened \cup T
    BY DEF KeepsAll
  <2>1. bound[i] \in K /\ bound[i] \in Image
    BY <1>1 DEF KeepsAll, Bound
  <2> QED BY <2>1
<1>3. T \in enough
  BY <1>2
<1>4. Kept(refs, bound) = opened \cup {i \in others : \A S \in enough : i \in S}
  BY DEF Kept
<1> HIDE DEF opened, others, enough
<1> QED BY <1>1, <1>3, <1>4

\* What is kept without having been opened is kept by another.
LEMMA KeptByAnother ==
  ASSUME NEW refs \in Refs, NEW bound \in Bound,
         NEW i \in Kept(refs, bound), ~(refs[i] > 0)
  PROVE  \E j \in Kept(refs, bound) : j # i /\ bound[j] = i
<1> SUFFICES ASSUME \A j \in Kept(refs, bound) : j # i => bound[j] # i PROVE FALSE
  OBVIOUS
<1> DEFINE K == Kept(refs, bound)
<1>1. K \subseteq Image /\ KeepsAll(K, refs, bound)
  BY KeptCloses
<1>2. KeepsAll(K \ {i}, refs, bound)
  <2> HIDE DEF K
  <2> QED BY <1>1 DEF KeepsAll, K
<1>3. K \subseteq K \ {i}
  BY <1>2, KeptLeast
<1> QED BY <1>3

\* What a closed handle no longer keeps was kept.
LEMMA KeptLess ==
  ASSUME NEW refs \in Refs, NEW bound \in Bound, NEW less \in Refs, NEW unbound \in Bound,
         \A i \in Image : less[i] > 0 => refs[i] > 0,
         \A i \in Kept(less, bound) : unbound[i] = bound[i],
         \A i \in Image \ Kept(less, bound) : unbound[i] = None
  PROVE  /\ Kept(less, bound) \subseteq Kept(refs, bound)
         /\ Kept(less, unbound) = Kept(less, bound)
<1>1. KeepsAll(Kept(refs, bound), less, bound)
  BY KeptCloses DEF KeepsAll
<1>2. Kept(less, bound) \subseteq Kept(refs, bound)
  BY <1>1, KeptLeast
<1>3. KeepsAll(Kept(less, bound), less, unbound)
  BY KeptCloses DEF KeepsAll
<1>4. KeepsAll(Kept(less, unbound) \cap Kept(less, bound), less, bound)
  <2> DEFINE K == Kept(less, unbound)
             L == Kept(less, bound)
  <2>1. KeepsAll(K, less, unbound) /\ KeepsAll(L, less, bound)
    BY KeptCloses
  <2>2. \A i \in L : unbound[i] = bound[i]
    OBVIOUS
  <2> HIDE DEF K, L
  <2>3. KeepsAll(K \cap L, less, bound)
    BY <2>1, <2>2 DEF KeepsAll
  <2> QED BY <2>3 DEF K, L
<1>5. Kept(less, unbound) \subseteq Kept(less, bound)
  BY <1>3, KeptLeast
<1>6. Kept(less, bound) \subseteq Kept(less, unbound) \cap Kept(less, bound)
  BY <1>4, KeptLeast
<1> QED BY <1>2, <1>5, <1>6

\* The first that exports what t needs: one of the mapped images, or t itself.
LEMMA Provided ==
  ASSUME NEW l \in Loader, NEW t \in Image, Providers(l, t) # <<>>
  PROVE  /\ Head(Providers(l, t)) \in Mapped(l) \cup {t}
         /\ Defines[Head(Providers(l, t)).file] = Needs[t.file]
<1> DEFINE s == IF t \in Mapped(l) THEN l.scope ELSE Append(l.scope, t)
           S == {i \in Image : Defines[i.file] = Needs[t.file]}
           o == Only(s, S)
<1>1. l.scope \in Seq(Image)
  BY DEF Loader
<1>2. s \in Seq(Image) /\ ToSet(s) = Mapped(l) \cup {t}
  BY <1>1, Appending DEF Mapped
<1>3. o \in Seq(Image) /\ ToSet(o) = ToSet(s) \cap S
  <2> HIDE DEF s, S
  <2> QED BY <1>2, OnlyKeeps
<1>4. o = Providers(l, t)
  BY DEF Providers
<1>5. Head(o) \in ToSet(o)
  <2>1. o # <<>>
    BY <1>4
  <2> HIDE DEF o
  <2>2. Len(o) \in Nat /\ 1 \in 1 .. Len(o) /\ Head(o) = o[1] /\ DOMAIN o = 1 .. Len(o)
    BY <1>3, <2>1, EmptySeq, LenProperties
  <2> QED BY <2>2 DEF ToSet
<1> HIDE DEF s, o
<1> QED BY <1>2, <1>3, <1>4, <1>5

\* A name leads to a file, and what dlopen opens under it is a build of that.
LEMMA TargetIs ==
  ASSUME NEW l, LoaderOK(l), DiskOK, NEW p \in Name, Target(l, p) # None
  PROVE  /\ Target(l, p) \in Image /\ Target(l, p).file = FileOf[p]
         /\ IF \E i \in Mapped(l) : p \in l.names[i]
            THEN Target(l, p) \in Mapped(l) /\ p \in l.names[Target(l, p)]
            ELSE Target(l, p) = disk[FileOf[p]]
<1> DEFINE known == {i \in Mapped(l) : p \in l.names[i]}
<1>1. Mapped(l) \subseteq Image
  BY KeptCloses DEF LoaderOK, Loader
<1>2. CASE known # {}
  <2>1. Target(l, p) \in known
    BY <1>2 DEF Target
  <2> QED BY <1>1, <2>1 DEF LoaderOK
<1>3. CASE known = {}
  <2>1. Target(l, p) = disk[FileOf[p]] /\ FileOf[p] \in File
    BY <1>3, ScopeAssumption DEF Target, Name
  <2> QED BY <1>3, <2>1 DEF DiskOK
<1> QED BY <1>2, <1>3

\* What dlopen does.
LEMMA OpenedIs ==
  ASSUME NEW l, LoaderOK(l), NEW p \in Name, NEW t \in Image, t = Target(l, p),
         Needs[t.file] # None => Providers(l, t) # <<>>
  PROVE  LET o == Opened(l, p) IN
         /\ o \in Loader /\ o.refs = [l.refs EXCEPT ![t] = @ + 1]
         /\ o.names = [l.names EXCEPT ![t] = @ \cup {p}]
         /\ IF t \in Mapped(l) THEN o.scope = l.scope /\ o.bound = l.bound
            ELSE /\ o.scope = Append(l.scope, t)
                 /\ o.bound = [l.bound EXCEPT ![t] = IF Needs[t.file] = None THEN None
                                                     ELSE Head(Providers(l, t))]
<1>1. l \in Loader /\ l.scope \in Seq(Image) /\ Mapped(l) \subseteq Image
  BY KeptCloses DEF LoaderOK, Loader
<1> DEFINE open == [l EXCEPT !.refs[t] = @ + 1, !.names[t] = @ \cup {p}]
           b == IF Needs[t.file] = None THEN None ELSE Head(Providers(l, t))
<1>2. /\ open \in Loader /\ open.scope = l.scope /\ open.bound = l.bound
      /\ open.refs = [l.refs EXCEPT ![t] = @ + 1]
      /\ open.names = [l.names EXCEPT ![t] = @ \cup {p}]
  <2> DEFINE r == [l.refs EXCEPT ![t] = @ + 1]
             n == [l.names EXCEPT ![t] = @ \cup {p}]
  <2>1. r \in Refs /\ n \in [Image -> SUBSET Name]
    BY <1>1 DEF Loader, Refs
  <2>2. open = [l EXCEPT !.refs = r, !.names = n]
    OBVIOUS
  <2> HIDE DEF r, n, open
  <2>3. open \in Loader /\ open.scope = l.scope /\ open.bound = l.bound /\ open.refs = r /\ open.names = n
    BY <1>1, <2>1, <2>2 DEF Loader
  <2> QED BY <2>3 DEF r, n
<1>3. CASE t \in Mapped(l)
  <2>1. Opened(l, p) = open
    BY <1>3 DEF Opened
  <2> QED BY <1>2, <1>3, <2>1
<1>4. CASE t \notin Mapped(l)
  <2>1. Opened(l, p) = [open EXCEPT !.scope = Append(@, t), !.bound[t] = b]
    BY <1>4 DEF Opened
  <2>2. b \in {None} \cup Image
    BY <1>1, Provided
  <2>3. Append(l.scope, t) \in Seq(Image)
    BY <1>1, Appending
  <2> DEFINE o == [open EXCEPT !.scope = Append(@, t), !.bound[t] = b]
  <2> HIDE DEF b, open
  <2>4. /\ o.refs = open.refs /\ o.names = open.names
        /\ o.scope = Append(l.scope, t) /\ o.bound = [l.bound EXCEPT ![t] = b]
    BY <1>2, <2>2, <2>3 DEF Loader, Bound
  <2>5. o \in Loader
    BY <1>2, <2>2, <2>3 DEF Loader, Bound
  <2> HIDE DEF o
  <2> QED BY <1>2, <1>4, <2>1, <2>4, <2>5 DEF b, o
<1> QED BY <1>3, <1>4

\* dlopen keeps the loader sound.
LEMMA OpenedOK ==
  ASSUME NEW l, LoaderOK(l), DiskOK, NEW p \in Name, Opens(l, p)
  PROVE  LET t == Target(l, p)
             o == Opened(l, p) IN
         /\ LoaderOK(o) /\ Mapped(o) = Mapped(l) \cup {t}
         /\ o.refs = [l.refs EXCEPT ![t] = @ + 1]
         /\ o.names = [l.names EXCEPT ![t] = @ \cup {p}]
         /\ \A i \in Mapped(l) : o.bound[i] = l.bound[i]
<1> DEFINE t == Target(l, p)
           o == Opened(l, p)
<1>1. /\ t \in Image /\ t.file = FileOf[p]
      /\ IF \E i \in Mapped(l) : p \in l.names[i]
         THEN t \in Mapped(l) /\ p \in l.names[t]
         ELSE t = disk[FileOf[p]]
  BY TargetIs DEF Opens
<1>2. Needs[t.file] # None => Providers(l, t) # <<>>
  BY DEF Opens
<1>3. /\ o \in Loader /\ o.refs = [l.refs EXCEPT ![t] = @ + 1]
      /\ o.names = [l.names EXCEPT ![t] = @ \cup {p}]
      /\ IF t \in Mapped(l) THEN o.scope = l.scope /\ o.bound = l.bound
         ELSE /\ o.scope = Append(l.scope, t)
              /\ o.bound = [l.bound EXCEPT ![t] = IF Needs[t.file] = None THEN None
                                                  ELSE Head(Providers(l, t))]
  BY <1>1, <1>2, OpenedIs
<1>4. /\ l \in Loader /\ l.scope \in Seq(Image) /\ l.refs \in Refs /\ l.bound \in Bound
      /\ l.names \in [Image -> SUBSET Name]
      /\ o.refs \in Refs /\ o.bound \in Bound /\ Mapped(l) \subseteq Image
      /\ Mapped(l) = Kept(l.refs, l.bound) /\ IsInjective(l.scope)
      /\ KeepsAll(Mapped(l), l.refs, l.bound)
  BY <1>3, KeptCloses DEF LoaderOK, Loader
<1>5. t \notin Mapped(l) /\ Needs[t.file] # None =>
        /\ Head(Providers(l, t)) \in Mapped(l) \cup {t}
        /\ Defines[Head(Providers(l, t)).file] = Needs[t.file]
  BY <1>1, <1>2, <1>4, Provided
<1>6. /\ Mapped(o) = Mapped(l) \cup {t} /\ IsInjective(o.scope)
      /\ \A i \in Mapped(l) : o.bound[i] = l.bound[i]
  <2>1. CASE t \in Mapped(l)
    BY <1>3, <1>4, <2>1 DEF Mapped
  <2>2. CASE t \notin Mapped(l)
    <3>1. o.scope = Append(l.scope, t)
      BY <1>3, <2>2
    <3>2. ToSet(o.scope) = ToSet(l.scope) \cup {t} /\ IsInjective(o.scope)
      BY <1>1, <1>4, <2>2, <3>1, Appending DEF Mapped
    <3> QED BY <1>3, <1>4, <2>2, <3>2 DEF Mapped, Bound
  <2> QED BY <2>1, <2>2
<1> HIDE DEF t, o
<1>7. KeepsAll(Mapped(o), o.refs, o.bound)
  <2> SUFFICES ASSUME NEW i \in Image
               PROVE  /\ o.refs[i] > 0 => i \in Mapped(o)
                      /\ i \in Mapped(o) /\ o.bound[i] # None => o.bound[i] \in Mapped(o)
    BY DEF KeepsAll
  <2>1. CASE i # t
    BY <1>1, <1>3, <1>4, <1>6, <2>1 DEF KeepsAll, Refs
  <2>2. CASE i = t /\ t \in Mapped(l)
    BY <1>1, <1>3, <1>4, <1>6, <2>2 DEF KeepsAll
  <2>3. CASE i = t /\ t \notin Mapped(l)
    <3>1. o.bound[i] \in {None, Head(Providers(l, t))} /\ (Needs[t.file] = None => o.bound[i] = None)
      BY <1>1, <1>3, <1>4, <2>3 DEF Bound
    <3> QED BY <1>5, <1>6, <2>3, <3>1
  <2> QED BY <2>1, <2>2, <2>3
<1>8. Mapped(o) \subseteq Kept(o.refs, o.bound)
  <2> DEFINE K == Kept(o.refs, o.bound)
  <2>1. K \subseteq Image /\ KeepsAll(K, o.refs, o.bound)
    BY <1>4, KeptCloses
  <2> HIDE DEF K
  <2>2. t \in K
    <3>1. o.refs[t] > 0
      BY <1>1, <1>3, <1>4 DEF Refs
    <3> QED BY <1>1, <2>1, <3>1 DEF KeepsAll
  <2>3. KeepsAll(K \cap Mapped(l), l.refs, l.bound)
    <3> SUFFICES ASSUME NEW i \in Image
                 PROVE  /\ l.refs[i] > 0 => i \in K \cap Mapped(l)
                        /\ i \in K \cap Mapped(l) /\ l.bound[i] # None => l.bound[i] \in K \cap Mapped(l)
      BY DEF KeepsAll
    <3>1. l.refs[i] > 0 => o.refs[i] > 0
      BY <1>1, <1>3, <1>4 DEF Refs
    <3> QED BY <1>4, <1>6, <2>1, <3>1 DEF KeepsAll
  <2>4. Mapped(l) \subseteq K
    BY <1>4, <2>3, KeptLeast
  <2> QED BY <1>6, <2>2, <2>4 DEF K
<1>9. Mapped(o) = Kept(o.refs, o.bound)
  BY <1>4, <1>7, <1>8, KeptLeast
<1>10. ASSUME NEW i \in Image \ Mapped(o) PROVE o.names[i] = {} /\ o.bound[i] = None
  <2>1. i # t /\ i \notin Mapped(l)
    BY <1>6, <1>10
  <2>2. o.names[i] = l.names[i] /\ o.bound[i] = l.bound[i]
    BY <1>1, <1>3, <1>4, <2>1 DEF Bound
  <2> QED BY <2>1, <2>2 DEF LoaderOK
<1>11. ASSUME NEW i \in Mapped(o)
       PROVE  o.names[i] # {} /\ \A q \in o.names[i] : FileOf[q] = i.file
  <2>1. o.names[i] = IF i = t THEN l.names[t] \cup {p} ELSE l.names[i]
    BY <1>1, <1>3, <1>4, <1>6, <1>11
  <2>2. l.names[i] = {} \/ i \in Mapped(l)
    BY <1>1, <1>4, <1>6, <1>11 DEF LoaderOK
  <2> QED BY <1>1, <1>6, <1>11, <2>1, <2>2 DEF LoaderOK
<1>12. ASSUME NEW i \in Mapped(o), NEW j \in Mapped(o), NEW q \in o.names[i] \cap o.names[j]
       PROVE  i = j
  <2>1. \A k \in Mapped(o) : o.names[k] = IF k = t THEN l.names[t] \cup {p} ELSE l.names[k]
    BY <1>1, <1>3, <1>4, <1>6
  <2>2. \A k \in Mapped(o) : l.names[k] = {} \/ k \in Mapped(l)
    BY <1>1, <1>4, <1>6 DEF LoaderOK
  <2>3. \A k \in Mapped(o) : p \in l.names[k] => k = t
    <3>1. \A k, m \in Mapped(l) : l.names[k] \cap l.names[m] # {} => k = m
      BY DEF LoaderOK
    <3> QED BY <1>1, <2>2, <3>1
  <2>4. \A k, m \in Mapped(o) : q \in l.names[k] /\ q \in l.names[m] => k = m
    BY <2>2 DEF LoaderOK
  <2> QED BY <1>6, <1>12, <2>1, <2>3, <2>4
<1>13. ASSUME NEW i \in Mapped(o)
       PROVE  IF o.bound[i] = None THEN Needs[i.file] = None
              ELSE Needs[i.file] # None /\ Defines[o.bound[i].file] = Needs[i.file]
  <2>1. CASE i \in Mapped(l)
    BY <1>6, <2>1 DEF LoaderOK
  <2>2. CASE i \notin Mapped(l)
    <3>1. i = t /\ o.bound[t] = IF Needs[t.file] = None THEN None ELSE Head(Providers(l, t))
      BY <1>1, <1>3, <1>4, <1>6, <1>13, <2>2 DEF Bound
    <3>2. Needs[t.file] # None => Head(Providers(l, t)) \in Image
      BY <1>1, <1>4, <1>5, <2>2, <3>1
    <3> QED BY <1>5, <2>2, <3>1, <3>2, ScopeAssumption
  <2> QED BY <2>1, <2>2
<1>14. LoaderOK(o)
  BY <1>3, <1>6, <1>9, <1>10, <1>11, <1>12, <1>13 DEF LoaderOK
<1> QED BY <1>3, <1>6, <1>14 DEF t, o

\* dlclose keeps the loader sound, and what stays mapped as it was.
LEMMA ClosedOK ==
  ASSUME NEW l, LoaderOK(l), NEW t \in Image, l.refs[t] > 0
  PROVE  LET o == Closed(l, t) IN
         /\ LoaderOK(o) /\ Mapped(o) \subseteq Mapped(l)
         /\ Mapped(o) = Kept(o.refs, l.bound)
         /\ o.refs = [l.refs EXCEPT ![t] = @ - 1]
         /\ \A i \in Mapped(o) : o.names[i] = l.names[i] /\ o.bound[i] = l.bound[i]
<1> DEFINE o == Closed(l, t)
           less == [l.refs EXCEPT ![t] = @ - 1]
           kept == Kept(less, l.bound)
<1>1. /\ l \in Loader /\ l.scope \in Seq(Image) /\ l.refs \in Refs /\ l.bound \in Bound
      /\ l.names \in [Image -> SUBSET Name] /\ IsInjective(l.scope)
      /\ Mapped(l) = Kept(l.refs, l.bound)
  BY DEF LoaderOK, Loader
<1>2. less \in Refs /\ \A i \in Image : less[i] > 0 => l.refs[i] > 0
  BY <1>1 DEF Refs
<1>3. /\ o.refs = less /\ o.scope = Only(l.scope, kept)
      /\ o.names = [i \in Image |-> IF i \in kept THEN l.names[i] ELSE {}]
      /\ o.bound = [i \in Image |-> IF i \in kept THEN l.bound[i] ELSE None]
      /\ o = [refs |-> o.refs, scope |-> o.scope, names |-> o.names, bound |-> o.bound]
  BY DEF Closed
<1> HIDE DEF less, o
<1>4. kept \subseteq Image
  BY <1>1, <1>2, KeptCloses
<1> HIDE DEF kept
<1>5. /\ \A i \in Image : i \in kept => o.names[i] = l.names[i] /\ o.bound[i] = l.bound[i]
      /\ \A i \in Image : i \notin kept => o.names[i] = {} /\ o.bound[i] = None
  BY <1>3
<1>6. o.bound \in Bound /\ o.names \in [Image -> SUBSET Name]
  BY <1>1, <1>3 DEF Bound
<1>7. kept \subseteq Mapped(l) /\ Kept(less, o.bound) = kept
  <2>1. \A i \in Kept(less, l.bound) : o.bound[i] = l.bound[i]
    BY <1>4, <1>5 DEF kept
  <2>2. \A i \in Image \ Kept(less, l.bound) : o.bound[i] = None
    BY <1>5 DEF kept
  <2> QED BY <1>1, <1>2, <1>6, <2>1, <2>2, KeptLess DEF kept
<1>8. /\ o.scope \in Seq(Image) /\ Mapped(o) = kept /\ IsInjective(o.scope)
  <2>1. /\ Only(l.scope, kept) \in Seq(Image) /\ ToSet(Only(l.scope, kept)) = ToSet(l.scope) \cap kept
        /\ IsInjective(Only(l.scope, kept))
    BY <1>1, OnlyKeeps
  <2> QED BY <1>3, <1>7, <2>1 DEF Mapped
<1>9. o \in Loader
  BY <1>2, <1>3, <1>6, <1>8 DEF Loader
<1>10. LoaderOK(o)
  <2>1. Mapped(o) = Kept(o.refs, o.bound)
    BY <1>3, <1>7, <1>8
  <2>2. \A i \in Image \ Mapped(o) : o.names[i] = {} /\ o.bound[i] = None
    BY <1>5, <1>8
  <2>3. \A i \in Mapped(o) : i \in Mapped(l) /\ o.names[i] = l.names[i] /\ o.bound[i] = l.bound[i]
    BY <1>4, <1>5, <1>7, <1>8
  <2> QED BY <1>8, <1>9, <2>1, <2>2, <2>3 DEF LoaderOK
<1>11. o.refs = [l.refs EXCEPT ![t] = @ - 1]
  BY <1>3 DEF less
<1>12. Mapped(o) = Kept(o.refs, l.bound)
  BY <1>3, <1>8 DEF kept
<1> QED BY <1>4, <1>5, <1>7, <1>8, <1>10, <1>11, <1>12 DEF o

-----------------------------------------------------------------------------
(* The maps of a.c: the references to an image are the names that lead to it *)

Keys(f, D, i) == {x \in D : f[x] = i}
Handles(f, D) == f \in [D -> {None} \cup Image] /\ IsFiniteSet(D) /\ D \subseteq Name

\* The handles of two maps, and x that are lost: each is a reference, and those
\* of the maps lead to an image known by its name.
Sound(l, D, f, E, g, x) ==
  /\ LoaderOK(l) /\ Handles(f, D) /\ Handles(g, E) /\ x \in [Image -> Nat]
  /\ \A i \in Image : l.refs[i] = Cardinality(Keys(f, D, i)) + Cardinality(Keys(g, E, i)) + x[i]
  /\ \A p \in D : f[p] # None => p \in l.names[f[p]]
  /\ \A p \in E : g[p] # None => p \in l.names[g[p]]

LEMMA KeysCounted ==
  ASSUME NEW D, NEW f, Handles(f, D), NEW i \in Image
  PROVE  /\ IsFiniteSet(Keys(f, D, i)) /\ Cardinality(Keys(f, D, i)) \in Nat
         /\ \A d \in D : f[d] = i => Cardinality(Keys(f, D, i)) > 0
<1>1. IsFiniteSet(Keys(f, D, i))
  BY FS_Subset DEF Keys, Handles
<1>2. Cardinality(Keys(f, D, i)) \in Nat
  BY <1>1, FS_CardinalityType
<1>3. ASSUME NEW d \in D, f[d] = i PROVE Cardinality(Keys(f, D, i)) > 0
  <2>1. d \in Keys(f, D, i)
    BY <1>3 DEF Keys
  <2> QED BY <1>1, <1>2, <2>1, FS_EmptySet
<1> QED BY <1>1, <1>2, <1>3

\* A key that gets a handle counts for its image.
LEMMA KeySet ==
  ASSUME NEW D, NEW f, Handles(f, D), NEW d \in D, f[d] = None, NEW t \in Image,
         NEW i \in Image, NEW g, g = [f EXCEPT ![d] = t]
  PROVE  /\ Handles(g, D)
         /\ Cardinality(Keys(g, D, i)) = Cardinality(Keys(f, D, i)) + (IF i = t THEN 1 ELSE 0)
<1>1. IsFiniteSet(Keys(f, D, i)) /\ Cardinality(Keys(f, D, i)) \in Nat /\ d \notin Keys(f, D, i)
  BY KeysCounted, ScopeAssumption DEF Keys
<1>2. Keys(g, D, i) = IF i = t THEN Keys(f, D, i) \cup {d} ELSE Keys(f, D, i)
  BY ScopeAssumption DEF Keys, Handles
<1>3. Handles(g, D)
  BY DEF Handles
<1>4. Cardinality(Keys(f, D, i) \cup {d}) = Cardinality(Keys(f, D, i)) + 1
  BY <1>1, FS_AddElement
<1>5. CASE i = t
  BY <1>2, <1>3, <1>4, <1>5
<1>6. CASE i # t
  BY <1>1, <1>2, <1>3, <1>6
<1> QED BY <1>5, <1>6

LEMMA KeyCleared ==
  ASSUME NEW D, NEW f, Handles(f, D), NEW d \in D, NEW t \in Image, f[d] = t,
         NEW i \in Image, NEW g, g = [f EXCEPT ![d] = None]
  PROVE  /\ Handles(g, D)
         /\ Cardinality(Keys(f, D, i)) = Cardinality(Keys(g, D, i)) + (IF i = t THEN 1 ELSE 0)
<1>1. Handles(g, D)
  BY DEF Handles
<1>2. IsFiniteSet(Keys(g, D, i)) /\ Cardinality(Keys(g, D, i)) \in Nat /\ d \notin Keys(g, D, i)
  <2>1. IsFiniteSet(Keys(g, D, i)) /\ Cardinality(Keys(g, D, i)) \in Nat
    BY <1>1, KeysCounted
  <2> QED BY <2>1, ScopeAssumption DEF Keys, Handles
<1>3. Keys(f, D, i) = IF i = t THEN Keys(g, D, i) \cup {d} ELSE Keys(g, D, i)
  BY ScopeAssumption DEF Keys, Handles
<1>4. Cardinality(Keys(g, D, i) \cup {d}) = Cardinality(Keys(g, D, i)) + 1
  BY <1>2, FS_AddElement
<1>5. CASE i = t
  BY <1>1, <1>3, <1>4, <1>5
<1>6. CASE i # t
  BY <1>1, <1>2, <1>3, <1>6
<1> QED BY <1>5, <1>6

\* lodlib, and the part of exlib that opens.
LEMMA SoundOpened ==
  ASSUME NEW l, NEW D, NEW f, NEW E, NEW g, NEW x, Sound(l, D, f, E, g, x), DiskOK,
         NEW p \in D, f[p] = None, Opens(l, p)
  PROVE  Target(l, p) \in Image /\ Sound(Opened(l, p), D, [f EXCEPT ![p] = Target(l, p)], E, g, x)
<1> DEFINE t == Target(l, p)
           o == Opened(l, p)
           h == [f EXCEPT ![p] = t]
<1>1. LoaderOK(l) /\ Handles(f, D) /\ Handles(g, E) /\ p \in Name
  BY DEF Sound, Handles
<1>2. t \in Image
  BY <1>1, TargetIs DEF Opens
<1>3. /\ LoaderOK(o) /\ o.refs = [l.refs EXCEPT ![t] = @ + 1]
      /\ o.names = [l.names EXCEPT ![t] = @ \cup {p}]
  BY <1>1, OpenedOK
<1>4. l.refs \in Refs /\ l.names \in [Image -> SUBSET Name]
  BY <1>1 DEF LoaderOK, Loader
<1> HIDE DEF t, o
<1>5. \A i \in Image : o.refs[i] = Cardinality(Keys(h, D, i)) + Cardinality(Keys(g, E, i)) + x[i]
  <2> SUFFICES ASSUME NEW i \in Image
               PROVE  o.refs[i] = Cardinality(Keys(h, D, i)) + Cardinality(Keys(g, E, i)) + x[i]
    OBVIOUS
  <2>1. Cardinality(Keys(h, D, i)) = Cardinality(Keys(f, D, i)) + (IF i = t THEN 1 ELSE 0)
    BY <1>1, <1>2, KeySet
  <2>2. Cardinality(Keys(f, D, i)) \in Nat /\ Cardinality(Keys(g, E, i)) \in Nat /\ x[i] \in Nat
    BY <1>1, KeysCounted DEF Sound
  <2>3. l.refs[i] = Cardinality(Keys(f, D, i)) + Cardinality(Keys(g, E, i)) + x[i]
    BY DEF Sound
  <2>4. o.refs[i] = l.refs[i] + (IF i = t THEN 1 ELSE 0)
    BY <1>3, <1>4 DEF Refs
  <2> QED BY <2>1, <2>2, <2>3, <2>4
<1>6. Handles(h, D)
  BY <1>1, <1>2 DEF Handles
<1>7. \A i \in Image : l.names[i] \subseteq o.names[i] /\ p \in o.names[t]
  BY <1>2, <1>3, <1>4
<1>8. \A q \in D : h[q] # None => q \in o.names[h[q]]
  <2>1. \A q \in D : h[q] = IF q = p THEN t ELSE f[q]
    BY <1>1 DEF Handles
  <2>2. \A q \in D : f[q] # None => f[q] \in Image /\ q \in l.names[f[q]]
    BY DEF Sound, Handles
  <2> HIDE DEF h
  <2> QED BY <1>2, <1>7, <2>1, <2>2
<1>9. \A q \in E : g[q] # None => q \in o.names[g[q]]
  <2>1. \A q \in E : g[q] # None => g[q] \in Image /\ q \in l.names[g[q]]
    BY DEF Sound, Handles
  <2> QED BY <1>7, <2>1
<1>10. Sound(o, D, h, E, g, x)
  BY <1>1, <1>3, <1>5, <1>6, <1>8, <1>9 DEF Sound
<1> QED BY <1>2, <1>10 DEF t, o

\* A handle is a reference, to an image that is mapped under its name.
LEMMA HandleMapped ==
  ASSUME NEW l, NEW D, NEW f, NEW E, NEW g, NEW x, Sound(l, D, f, E, g, x), NEW p \in D, f[p] # None
  PROVE  f[p] \in Image /\ l.refs[f[p]] > 0 /\ f[p] \in Mapped(l) /\ f[p].file = FileOf[p]
<1>1. LoaderOK(l) /\ Handles(f, D) /\ Handles(g, E)
  BY DEF Sound
<1>2. f[p] \in Image
  BY <1>1 DEF Handles
<1>3. l.refs[f[p]] > 0
  <2>1. Cardinality(Keys(f, D, f[p])) \in Nat /\ Cardinality(Keys(f, D, f[p])) > 0
    BY <1>1, <1>2, KeysCounted
  <2>2. Cardinality(Keys(g, E, f[p])) \in Nat /\ x[f[p]] \in Nat
    BY <1>1, <1>2, KeysCounted DEF Sound
  <2>3. l.refs[f[p]] = Cardinality(Keys(f, D, f[p])) + Cardinality(Keys(g, E, f[p])) + x[f[p]]
    BY <1>2 DEF Sound
  <2> QED BY <2>1, <2>2, <2>3
<1>4. f[p] \in Mapped(l)
  BY <1>1, <1>2, <1>3, KeptCloses DEF LoaderOK, Loader, KeepsAll
<1>5. f[p].file = FileOf[p]
  BY <1>1, <1>4 DEF Sound, LoaderOK
<1> QED BY <1>2, <1>3, <1>4, <1>5

LEMMA SoundSwaps ==
  ASSUME NEW l, NEW D, NEW f, NEW E, NEW g, NEW x, Sound(l, D, f, E, g, x)
  PROVE  Sound(l, E, g, D, f, x)
<1>1. ASSUME NEW i \in Image
      PROVE  l.refs[i] = Cardinality(Keys(g, E, i)) + Cardinality(Keys(f, D, i)) + x[i]
  <2>1. Cardinality(Keys(f, D, i)) \in Nat /\ Cardinality(Keys(g, E, i)) \in Nat /\ x[i] \in Nat
    BY KeysCounted DEF Sound
  <2>2. l.refs[i] = Cardinality(Keys(f, D, i)) + Cardinality(Keys(g, E, i)) + x[i]
    BY DEF Sound
  <2> QED BY <2>1, <2>2
<1> QED BY <1>1 DEF Sound

\* dlclose of a handle that leaves its map.
LEMMA SoundClosed ==
  ASSUME NEW l, NEW D, NEW f, NEW E, NEW g, NEW x, Sound(l, D, f, E, g, x), NEW p \in D, f[p] # None
  PROVE  Sound(Closed(l, f[p]), D, [f EXCEPT ![p] = None], E, g, x)
<1> DEFINE t == f[p]
           o == Closed(l, t)
           h == [f EXCEPT ![p] = None]
<1>1. LoaderOK(l) /\ Handles(f, D) /\ Handles(g, E)
  BY DEF Sound
<1>2. t \in Image /\ l.refs[t] > 0
  BY HandleMapped
<1>3. /\ LoaderOK(o) /\ o.refs = [l.refs EXCEPT ![t] = @ - 1]
      /\ \A i \in Mapped(o) : o.names[i] = l.names[i]
  BY <1>1, <1>2, ClosedOK
<1>4. l.refs \in Refs /\ o.refs \in Refs /\ o.bound \in Bound
  BY <1>1, <1>3 DEF LoaderOK, Loader
<1> HIDE DEF t, o
<1>5. \A i \in Image : o.refs[i] = Cardinality(Keys(h, D, i)) + Cardinality(Keys(g, E, i)) + x[i]
  <2> SUFFICES ASSUME NEW i \in Image
               PROVE  o.refs[i] = Cardinality(Keys(h, D, i)) + Cardinality(Keys(g, E, i)) + x[i]
    OBVIOUS
  <2>1. /\ Handles(h, D)
        /\ Cardinality(Keys(f, D, i)) = Cardinality(Keys(h, D, i)) + (IF i = t THEN 1 ELSE 0)
    BY <1>1, <1>2, KeyCleared DEF t
  <2>2. Cardinality(Keys(h, D, i)) \in Nat /\ Cardinality(Keys(g, E, i)) \in Nat /\ x[i] \in Nat
    BY <1>1, <2>1, KeysCounted DEF Sound
  <2>3. l.refs[i] = Cardinality(Keys(f, D, i)) + Cardinality(Keys(g, E, i)) + x[i]
    BY DEF Sound
  <2>4. o.refs[i] = l.refs[i] - (IF i = t THEN 1 ELSE 0)
    BY <1>3, <1>4 DEF Refs
  <2> QED BY <2>1, <2>2, <2>3, <2>4
<1>6. Handles(h, D)
  BY <1>1 DEF Handles
<1>7. \A i \in Image : o.refs[i] > 0 => o.names[i] = l.names[i]
  <2>1. KeepsAll(Mapped(o), o.refs, o.bound)
    BY <1>3, <1>4, KeptCloses DEF LoaderOK
  <2> QED BY <1>3, <2>1 DEF KeepsAll
<1>8. ASSUME NEW q \in D, h[q] # None PROVE q \in o.names[h[q]]
  <2>1. h[q] = f[q] /\ h[q] \in Image /\ q \in l.names[h[q]]
    BY <1>1, <1>6, <1>8 DEF Sound, Handles
  <2> HIDE DEF h
  <2>2. o.refs[h[q]] > 0
    <3>1. Cardinality(Keys(h, D, h[q])) > 0 /\ Cardinality(Keys(h, D, h[q])) \in Nat
      BY <1>6, <2>1, KeysCounted
    <3>2. Cardinality(Keys(g, E, h[q])) \in Nat /\ x[h[q]] \in Nat
      BY <1>1, <2>1, KeysCounted DEF Sound
    <3> QED BY <1>5, <2>1, <3>1, <3>2
  <2> QED BY <1>7, <2>1, <2>2
<1>9. ASSUME NEW q \in E, g[q] # None PROVE q \in o.names[g[q]]
  <2>1. g[q] \in Image /\ q \in l.names[g[q]]
    BY <1>1, <1>9 DEF Sound, Handles
  <2> HIDE DEF h
  <2>2. o.refs[g[q]] > 0
    <3>1. Cardinality(Keys(g, E, g[q])) > 0 /\ Cardinality(Keys(g, E, g[q])) \in Nat
      BY <1>1, <2>1, KeysCounted
    <3>2. Cardinality(Keys(h, D, g[q])) \in Nat /\ x[g[q]] \in Nat
      BY <1>6, <2>1, KeysCounted DEF Sound
    <3> QED BY <1>5, <2>1, <3>1, <3>2
  <2> QED BY <1>7, <2>1, <2>2
<1>10. Sound(o, D, h, E, g, x)
  BY <1>1, <1>3, <1>5, <1>6, <1>8, <1>9 DEF Sound
<1> QED BY <1>10 DEF t, o

\* dlopen, and the handle is lost.
LEMMA SoundLost ==
  ASSUME NEW l, NEW D, NEW f, NEW E, NEW g, NEW x, Sound(l, D, f, E, g, x), DiskOK,
         NEW p \in D, Opens(l, p), NEW y, y = [x EXCEPT ![Target(l, p)] = @ + 1]
  PROVE  Sound(Opened(l, p), D, f, E, g, y)
<1> DEFINE t == Target(l, p)
           o == Opened(l, p)
<1>1. LoaderOK(l) /\ Handles(f, D) /\ Handles(g, E) /\ p \in Name /\ x \in [Image -> Nat]
  BY DEF Sound, Handles
<1>2. t \in Image
  BY <1>1, TargetIs DEF Opens
<1>3. /\ LoaderOK(o) /\ o.refs = [l.refs EXCEPT ![t] = @ + 1]
      /\ o.names = [l.names EXCEPT ![t] = @ \cup {p}]
  BY <1>1, OpenedOK
<1>4. l.refs \in Refs /\ l.names \in [Image -> SUBSET Name]
  BY <1>1 DEF LoaderOK, Loader
<1>5. y = [x EXCEPT ![t] = @ + 1]
  OBVIOUS
<1> HIDE DEF t, o
<1>6. y \in [Image -> Nat] /\ \A i \in Image : y[i] = x[i] + (IF i = t THEN 1 ELSE 0)
  BY <1>1, <1>2, <1>5
<1>7. ASSUME NEW i \in Image
      PROVE  o.refs[i] = Cardinality(Keys(f, D, i)) + Cardinality(Keys(g, E, i)) + y[i]
  <2>1. Cardinality(Keys(f, D, i)) \in Nat /\ Cardinality(Keys(g, E, i)) \in Nat /\ x[i] \in Nat
    BY <1>1, KeysCounted
  <2>2. l.refs[i] = Cardinality(Keys(f, D, i)) + Cardinality(Keys(g, E, i)) + x[i]
    BY DEF Sound
  <2>3. o.refs[i] = l.refs[i] + (IF i = t THEN 1 ELSE 0)
    BY <1>3, <1>4 DEF Refs
  <2> QED BY <1>6, <2>1, <2>2, <2>3
<1>8. \A i \in Image : l.names[i] \subseteq o.names[i]
  BY <1>2, <1>3, <1>4
<1>9. /\ \A q \in D : f[q] # None => f[q] \in Image /\ q \in l.names[f[q]]
      /\ \A q \in E : g[q] # None => g[q] \in Image /\ q \in l.names[g[q]]
  BY DEF Sound, Handles
<1>10. Sound(o, D, f, E, g, y)
  BY <1>1, <1>3, <1>6, <1>7, <1>8, <1>9 DEF Sound
<1> QED BY <1>10 DEF o

-----------------------------------------------------------------------------
(* The loader and the maps of a.c agree *)

Typed == /\ acc \in [Image -> 0 .. calls] /\ c \in [Image -> {"none", "mine", "another"}]
         /\ pc \in {"lodlibs", "poll", "unload"} /\ calls \in 0 .. MaxCalls
         /\ used \subseteq Path
IInv == DiskOK /\ Sound(ld, Path, mloc, LibPath, mglb, lost) /\ Typed

\* What stays mapped is as it was.
Within(l, o) == /\ Mapped(l) \subseteq Mapped(o)
                /\ \A i \in Mapped(l) : l.names[i] = o.names[i] /\ l.bound[i] = o.bound[i]

LEMMA Initially == Init => IInv
<1> SUFFICES ASSUME Init PROVE IInv
  OBVIOUS
<1> DEFINE none == [i \in Image |-> None]
           zero == [i \in Image |-> 0]
<1>1. DiskOK
  BY DEF Init, DiskOK
<1>2. ld = [refs |-> zero, names |-> [i \in Image |-> {}], scope |-> <<>>, bound |-> none]
  BY DEF Init
<1>3. zero \in Refs /\ none \in Bound
  BY DEF Refs, Bound
<1>4. KeepsAll({}, zero, none)
  BY DEF KeepsAll
<1>5. Kept(zero, none) = {}
  <2> HIDE DEF zero, none
  <2> QED BY <1>3, <1>4, KeptLeast
<1>6. Mapped(ld) = {} /\ IsInjective(ld.scope) /\ ld.scope \in Seq(Image)
  BY <1>2 DEF Mapped, ToSet, IsInjective
<1>7. ld \in Loader
  BY <1>2, <1>3, <1>6 DEF Loader
<1>8. LoaderOK(ld)
  <2>1. \A i \in Image : ld.names[i] = {} /\ ld.bound[i] = None
    BY <1>2
  <2> QED BY <1>2, <1>5, <1>6, <1>7, <2>1 DEF LoaderOK
<1>9. Handles(mloc, Path) /\ Handles(mglb, LibPath)
  BY ScopeAssumption DEF Init, Handles, Name
<1>10. /\ \A i \in Image : Keys(mloc, Path, i) = {} /\ Keys(mglb, LibPath, i) = {} /\ ld.refs[i] = 0
       /\ lost \in [Image -> Nat] /\ \A i \in Image : lost[i] = 0
  BY <1>2, ScopeAssumption DEF Init, Keys
<1>11. Cardinality({}) = 0
  BY FS_EmptySet
<1>12. Sound(ld, Path, mloc, LibPath, mglb, lost)
  <2>1. (\A p \in Path : mloc[p] = None) /\ (\A p \in LibPath : mglb[p] = None)
    BY DEF Init
  <2>2. \A i \in Image : ld.refs[i] = Cardinality(Keys(mloc, Path, i)) + Cardinality(Keys(mglb, LibPath, i)) + lost[i]
    BY <1>10, <1>11
  <2> QED BY <1>8, <1>9, <1>10, <2>1, <2>2 DEF Sound
<1>13. Typed
  BY ScopeAssumption DEF Init, Typed
<1> QED BY <1>1, <1>12, <1>13 DEF IInv

\* The request's own handle is closed before the page is looked for.
LEMMA Flushed ==
  ASSUME IInv, NEW p \in Path, NEW flush \in BOOLEAN, flush \/ mloc[p] = None
  PROVE  /\ Sound(Reopened(p, flush), Path, Uncached(p), LibPath, mglb, lost)
         /\ Within(Reopened(p, flush), ld)
<1>1. Sound(ld, Path, mloc, LibPath, mglb, lost) /\ Handles(mloc, Path) /\ LoaderOK(ld)
  BY DEF IInv, Sound
<1>2. CASE mloc[p] = None
  <2>1. Reopened(p, flush) = ld
    BY <1>2 DEF Reopened, AfterFlush
  <2>2. Uncached(p) = mloc
    BY <1>1, <1>2 DEF Uncached, Handles
  <2>3. Within(ld, ld)
    BY DEF Within
  <2> QED BY <1>1, <2>1, <2>2, <2>3
<1>3. CASE mloc[p] # None
  <2>1. Reopened(p, flush) = Closed(ld, mloc[p])
    BY <1>3 DEF Reopened, AfterFlush
  <2>2. mloc[p] \in Image /\ ld.refs[mloc[p]] > 0
    BY <1>1, <1>3, HandleMapped
  <2>3. Sound(Closed(ld, mloc[p]), Path, Uncached(p), LibPath, mglb, lost)
    BY <1>1, <1>3, SoundClosed DEF Uncached
  <2>4. Within(Closed(ld, mloc[p]), ld)
    BY <1>1, <2>2, ClosedOK DEF Within
  <2> QED BY <2>1, <2>3, <2>4
<1> QED BY <1>2, <1>3

\* The three ways a request goes: the error returns are one.
Fails(p, flush) == NoMemory(p) \/ Refuses(p, flush) \/ Loses(p, flush)

LEMMA RequestIs ==
  ASSUME IInv, NEW p \in Path, NEW flush \in BOOLEAN, Request(p, flush)
  PROVE  /\ pc = "poll" /\ disk[FileOf[p]] # None /\ used' = used \cup {p}
         /\ disk' = disk /\ mglb' = mglb /\ pc' = pc
         /\ Answers(p, flush) \/ Loading(p, flush) \/ Fails(p, flush)
BY DEF Request, Fails

LEMMA FailedIs ==
  ASSUME Typed, NEW p \in Path, NEW l, NEW unresolved, Failed(p, l, unresolved)
  PROVE  /\ acc' = acc /\ calls' = calls /\ c' \in [Image -> {"none", "mine", "another"}]
         /\ last'.page = None /\ last'.path = p /\ last'.unresolved = unresolved
BY DEF Failed, Typed

\* Whatever the error, no page is run, and every handle is accounted for; and
\* a symbol is missed only by a dlopen that is missing one.
LEMMA FailsIs ==
  ASSUME IInv, NEW p \in Path, NEW flush \in BOOLEAN, Fails(p, flush)
  PROVE  /\ Sound(ld', Path, mloc', LibPath, mglb, lost')
         /\ acc' = acc /\ calls' = calls /\ c' \in [Image -> {"none", "mine", "another"}]
         /\ last'.page = None /\ last'.path = p
         /\ last'.unresolved => /\ flush \/ mloc[p] = None
                                /\ ~Opens(Reopened(p, flush), p)
<1>1. Typed /\ DiskOK /\ Sound(ld, Path, mloc, LibPath, mglb, lost)
  BY DEF IInv
<1> DEFINE l == Reopened(p, flush)
<1>2. CASE NoMemory(p)
  <2>1. ld' = ld /\ mloc' = mloc /\ lost' = lost /\ Failed(p, ld, FALSE)
    BY <1>2 DEF NoMemory
  <2>2. /\ acc' = acc /\ calls' = calls /\ c' \in [Image -> {"none", "mine", "another"}]
        /\ last'.page = None /\ last'.path = p /\ last'.unresolved = FALSE
    BY <1>1, <2>1, FailedIs
  <2> QED BY <1>1, <2>1, <2>2
<1>3. CASE Refuses(p, flush)
  <2>1. PICK unresolved \in BOOLEAN : /\ unresolved => ~Opens(l, p)
                                      /\ Failed(p, l, unresolved)
    BY <1>3 DEF Refuses
  <2>2. /\ flush \/ mloc[p] = None
        /\ ld' = l /\ mloc' = Uncached(p) /\ lost' = lost
    BY <1>3 DEF Refuses
  <2>3. Sound(l, Path, Uncached(p), LibPath, mglb, lost)
    BY <2>2, Flushed
  <2> HIDE DEF l
  <2>4. /\ acc' = acc /\ calls' = calls /\ c' \in [Image -> {"none", "mine", "another"}]
        /\ last'.page = None /\ last'.path = p /\ last'.unresolved = unresolved
    BY <1>1, <2>1, FailedIs
  <2> QED BY <2>1, <2>2, <2>3, <2>4 DEF l
<1>4. CASE Loses(p, flush)
  <2>1. /\ flush \/ mloc[p] = None
        /\ Opens(l, p) /\ ld' = Opened(l, p) /\ mloc' = Uncached(p)
        /\ lost' = [lost EXCEPT ![Target(l, p)] = @ + 1]
        /\ Failed(p, l, FALSE)
    BY <1>4 DEF Loses
  <2>2. Sound(l, Path, Uncached(p), LibPath, mglb, lost)
    BY <2>1, Flushed
  <2> HIDE DEF l
  <2>3. Sound(Opened(l, p), Path, Uncached(p), LibPath, mglb, lost')
    BY <1>1, <2>1, <2>2, SoundLost
  <2>4. /\ acc' = acc /\ calls' = calls /\ c' \in [Image -> {"none", "mine", "another"}]
        /\ last'.page = None /\ last'.path = p /\ last'.unresolved = FALSE
    BY <1>1, <2>1, FailedIs
  <2> QED BY <2>1, <2>3, <2>4
<1> QED BY <1>2, <1>3, <1>4 DEF Fails

\* What a request does that opens its page.
LEMMA LoadingIs ==
  ASSUME IInv, NEW p \in Path, NEW flush \in BOOLEAN, Loading(p, flush)
  PROVE  LET l == Reopened(p, flush)
             i == Target(l, p)
             o == Opened(l, p)
         IN /\ i \in Image /\ i.file = FileOf[p] /\ i \in Mapped(o)
            /\ Sound(o, Path, [mloc EXCEPT ![p] = i], LibPath, mglb, lost)
            /\ Sound(ld', Path, mloc', LibPath, mglb, lost')
            /\ Within(ld', o)
<1> DEFINE l == Reopened(p, flush)
           i == Target(l, p)
           o == Opened(l, p)
           h == [mloc EXCEPT ![p] = i]
<1>1. Sound(l, Path, Uncached(p), LibPath, mglb, lost)
  BY Flushed DEF Loading
<1>2. Opens(l, p) /\ DiskOK /\ Handles(mloc, Path)
  BY DEF Loading, IInv, Sound
<1>3. Uncached(p)[p] = None /\ [Uncached(p) EXCEPT ![p] = i] = h
  BY <1>2 DEF Uncached, Handles
<1>4. /\ ld' = (IF flush THEN Closed(o, i) ELSE o) /\ lost' = lost
      /\ mloc' = [mloc EXCEPT ![p] = IF flush THEN None ELSE i]
  BY DEF Loading
<1> HIDE DEF l, o, i
<1>5. i \in Image /\ Sound(o, Path, h, LibPath, mglb, lost)
  <2>1. Target(l, p) \in Image /\ Sound(Opened(l, p), Path, [Uncached(p) EXCEPT ![p] = Target(l, p)], LibPath, mglb, lost)
    BY <1>1, <1>2, <1>3, SoundOpened
  <2> QED BY <1>3, <2>1 DEF i, o
<1>6. h[p] = i /\ i # None /\ [h EXCEPT ![p] = None] = Uncached(p)
  BY <1>2, <1>5, ScopeAssumption DEF Handles, Uncached
<1> HIDE DEF h
<1>7. i \in Mapped(o) /\ o.refs[i] > 0 /\ i.file = FileOf[p]
  BY <1>5, <1>6, HandleMapped
<1>8. CASE ~flush
  <2>1. ld' = o /\ mloc' = h
    BY <1>4, <1>8 DEF h
  <2> QED BY <1>4, <1>5, <1>7, <2>1 DEF Within, l, o, i, h
<1>9. CASE flush
  <2>1. ld' = Closed(o, i) /\ mloc' = Uncached(p)
    BY <1>4, <1>9 DEF Uncached
  <2>2. Sound(Closed(o, i), Path, Uncached(p), LibPath, mglb, lost)
    <3>1. Sound(Closed(o, h[p]), Path, [h EXCEPT ![p] = None], LibPath, mglb, lost)
      BY <1>5, <1>6, SoundClosed
    <3> QED BY <1>6, <3>1
  <2>3. Within(Closed(o, i), o)
    BY <1>5, <1>7, ClosedOK DEF Sound, Within
  <2> QED BY <1>4, <1>5, <1>7, <2>1, <2>2, <2>3 DEF l, o, i, h
<1> QED BY <1>8, <1>9

\* What an entry does to the variables of the images.
LEMMA EntryTyped ==
  ASSUME Typed, NEW p, NEW flush, NEW i \in Image, NEW helper,
         Needs[i.file] # None => helper \in Image, Entry(p, flush, i, helper)
  PROVE  /\ acc' \in [Image -> 0 .. calls'] /\ calls' \in 0 .. MaxCalls
         /\ c' \in [Image -> {"none", "mine", "another"}]
<1> DEFINE counts == Needs[i.file] # None /\ Defines[i.file] = None
<1>1. /\ counts => calls < MaxCalls
      /\ calls' = calls + (IF counts THEN 1 ELSE 0)
      /\ acc' = IF counts THEN [acc EXCEPT ![helper] = @ + 1] ELSE acc
  BY DEF Entry
<1>2. c' \in [Image -> {"none", "mine", "another"}]
  BY DEF Entry
<1>3. counts => helper \in Image
  OBVIOUS
<1>4. calls \in 0 .. MaxCalls /\ acc \in [Image -> 0 .. calls] /\ MaxCalls \in Nat
  BY ScopeAssumption DEF Typed
<1> HIDE DEF counts
<1>5. CASE counts
  BY <1>1, <1>2, <1>3, <1>4, <1>5
<1>6. CASE ~counts
  BY <1>1, <1>2, <1>4, <1>6
<1> QED BY <1>5, <1>6

LEMMA RequestTyped ==
  ASSUME IInv, NEW p \in Path, NEW flush \in BOOLEAN, Request(p, flush)
  PROVE  IInv'
<1>1. /\ pc = "poll" /\ used' = used \cup {p} /\ disk' = disk /\ mglb' = mglb /\ pc' = pc
      /\ Answers(p, flush) \/ Loading(p, flush) \/ Fails(p, flush)
  BY RequestIs
<1>2. /\ Typed /\ Sound(ld, Path, mloc, LibPath, mglb, lost) /\ DiskOK' /\ used' \subseteq Path
      /\ pc' \in {"lodlibs", "poll", "unload"}
  BY <1>1 DEF IInv, DiskOK, Typed
<1>3. CASE Answers(p, flush)
  <2> DEFINE i == mloc[p]
  <2>1. i \in Image /\ i \in Mapped(ld) /\ Entry(p, flush, i, ld.bound[i])
    BY <1>2, <1>3, HandleMapped DEF Answers
  <2>2. Needs[i.file] # None => ld.bound[i] \in Image
    BY <1>2, <2>1 DEF Sound, LoaderOK, Loader, Bound
  <2> HIDE DEF i
  <2>3. /\ acc' \in [Image -> 0 .. calls'] /\ calls' \in 0 .. MaxCalls
        /\ c' \in [Image -> {"none", "mine", "another"}]
    BY <1>2, <2>1, <2>2, EntryTyped
  <2>4. Sound(ld', Path, mloc', LibPath, mglb', lost')
    BY <1>1, <1>2, <1>3 DEF Answers
  <2> QED BY <1>2, <2>3, <2>4 DEF IInv, Typed
<1>4. CASE Loading(p, flush)
  <2> DEFINE i == Target(Reopened(p, flush), p)
             o == Opened(Reopened(p, flush), p)
             h == [mloc EXCEPT ![p] = i]
  <2>1. i \in Image /\ i \in Mapped(o) /\ Sound(o, Path, h, LibPath, mglb, lost)
        /\ Sound(ld', Path, mloc', LibPath, mglb, lost')
    BY <1>4, LoadingIs
  <2>2. Entry(p, flush, i, o.bound[i])
    BY <1>4 DEF Loading
  <2> HIDE DEF i, o, h
  <2>3. Needs[i.file] # None => o.bound[i] \in Image
    BY <2>1 DEF Sound, LoaderOK, Loader, Bound
  <2>4. /\ acc' \in [Image -> 0 .. calls'] /\ calls' \in 0 .. MaxCalls
        /\ c' \in [Image -> {"none", "mine", "another"}]
    BY <1>2, <2>1, <2>2, <2>3, EntryTyped
  <2> QED BY <1>1, <1>2, <2>1, <2>4 DEF IInv, Typed
<1>5. CASE Fails(p, flush)
  <2>1. /\ Sound(ld', Path, mloc', LibPath, mglb, lost')
        /\ acc' = acc /\ calls' = calls /\ c' \in [Image -> {"none", "mine", "another"}]
    BY <1>5, FailsIs
  <2> QED BY <1>1, <1>2, <2>1 DEF IInv, Typed
<1> QED BY <1>1, <1>3, <1>4, <1>5

\* A new build leaves the loader alone.
LEMMA DeployTyped ==
  ASSUME IInv, NEW f \in File, Deploy(f)
  PROVE  IInv'
<1>1. PICK v \in 1 .. MaxVersion : disk' = [disk EXCEPT ![f] = [file |-> f, ver |-> v]]
  BY DEF Deploy
<1>2. [file |-> f, ver |-> v] \in Image /\ [file |-> f, ver |-> v].file = f
  BY DEF Image
<1>3. DiskOK'
  BY <1>1, <1>2 DEF IInv, DiskOK
<1>4. UNCHANGED <<ld, mglb, mloc, lost, acc, c, pc, calls, used>>
  BY DEF Deploy
<1>5. Typed' /\ Sound(ld', Path, mloc', LibPath, mglb', lost')
  BY <1>4 DEF IInv, Typed
<1> QED BY <1>3, <1>5 DEF IInv

LEMMA LoadLibTyped ==
  ASSUME IInv, NEW p \in LibPath, LoadLib(p)
  PROVE  IInv'
<1>1. /\ mglb[p] = None /\ Opens(ld, p) /\ ld' = Opened(ld, p)
      /\ mglb' = [mglb EXCEPT ![p] = Target(ld, p)]
      /\ acc' = [i \in Image |-> IF Loads(ld', i) THEN 0 ELSE acc[i]]
      /\ UNCHANGED <<disk, mloc, lost, c, pc, calls, used>>
  BY DEF LoadLib, Joins
<1>2. Sound(ld, LibPath, mglb, Path, mloc, lost) /\ DiskOK
  BY SoundSwaps DEF IInv
<1>3. Sound(ld', LibPath, mglb', Path, mloc, lost)
  BY <1>1, <1>2, SoundOpened
<1>4. Sound(ld', Path, mloc', LibPath, mglb', lost')
  BY <1>1, <1>3, SoundSwaps
<1>5. acc' \in [Image -> 0 .. calls'] /\ Typed
  BY <1>1, ScopeAssumption DEF IInv, Typed
<1>6. Typed'
  BY <1>1, <1>5 DEF Typed
<1> QED BY <1>1, <1>2, <1>4, <1>6 DEF IInv, DiskOK

LEMMA StepTyped == IInv /\ [Next]_vars => IInv'
<1> SUFFICES ASSUME IInv, [Next]_vars PROVE IInv'
  OBVIOUS
<1>1. ASSUME NEW f \in File, Deploy(f) PROVE IInv'
  BY <1>1, DeployTyped
<1>2. ASSUME NEW p \in LibPath, LoadLib(p) PROVE IInv'
  BY <1>2, LoadLibTyped
<1>3. ASSUME NEW p \in LibPath, UnloadLib(p) PROVE IInv'
  <2>1. /\ mglb[p] # None /\ ld' = Closed(ld, mglb[p]) /\ mglb' = [mglb EXCEPT ![p] = None]
        /\ UNCHANGED <<disk, mloc, lost, acc, c, pc, calls, used>>
    BY <1>3 DEF UnloadLib
  <2>2. Sound(ld, LibPath, mglb, Path, mloc, lost)
    BY SoundSwaps DEF IInv
  <2>3. Sound(ld', LibPath, mglb', Path, mloc, lost)
    BY <2>1, <2>2, SoundClosed
  <2>4. Sound(ld', Path, mloc', LibPath, mglb', lost')
    BY <2>1, <2>3, SoundSwaps
  <2> QED BY <2>1, <2>4 DEF IInv, DiskOK, Typed
<1>4. ASSUME NEW p \in Path, UnloadDso(p) PROVE IInv'
  <2>1. /\ mloc[p] # None /\ ld' = Closed(ld, mloc[p]) /\ mloc' = [mloc EXCEPT ![p] = None]
        /\ UNCHANGED <<disk, mglb, lost, acc, c, pc, calls, used>>
    BY <1>4 DEF UnloadDso
  <2>2. Sound(ld', Path, mloc', LibPath, mglb, lost')
    BY <2>1, SoundClosed DEF IInv
  <2> QED BY <2>1, <2>2 DEF IInv, DiskOK, Typed
<1>5. ASSUME NEW p \in Path, NEW flush \in BOOLEAN, Request(p, flush) PROVE IInv'
  BY <1>5, RequestTyped
<1>6. ASSUME Listen \/ Stop PROVE IInv'
  <2>1. UNCHANGED <<disk, ld, mglb, mloc, lost, acc, c, calls, used>> /\ pc' \in {"lodlibs", "poll", "unload"}
    BY <1>6 DEF Listen, Stop
  <2> QED BY <2>1 DEF IInv, DiskOK, Typed
<1>7. ASSUME UNCHANGED vars PROVE IInv'
  BY <1>7 DEF vars, IInv, DiskOK, Typed
<1> QED BY <1>1, <1>2, <1>3, <1>4, <1>5, <1>6, <1>7 DEF Next, Done

LEMMA Invariance == Spec => []IInv
<1> QED BY Initially, StepTyped, PTL DEF Spec

LEMMA InvariantTypes == IInv => TypeOK
<1> SUFFICES ASSUME IInv PROVE TypeOK
  OBVIOUS
<1>1. /\ ld \in Loader /\ LoaderOK(ld) /\ Handles(mloc, Path) /\ Handles(mglb, LibPath)
      /\ Sound(ld, Path, mloc, LibPath, mglb, lost)
  BY DEF IInv, Sound, LoaderOK
<1>2. ASSUME NEW i \in Image
      PROVE  /\ lost[i] \in Nat
             /\ ld.refs[i] = Cardinality({p \in LibPath : mglb[p] = i})
                               + Cardinality({p \in Path : mloc[p] = i}) + lost[i]
             /\ ld.names[i] \subseteq Path \cup LibPath
             /\ ld.bound[i] \in {None} \cup Image
             /\ acc[i] \in 0 .. MaxCalls /\ c[i] \in {"none", "mine", "another"}
  <2>1. /\ lost[i] \in Nat
        /\ ld.refs[i] = Cardinality(Keys(mglb, LibPath, i)) + Cardinality(Keys(mloc, Path, i)) + lost[i]
    BY <1>1, SoundSwaps DEF Sound
  <2>2. ld.names[i] \subseteq Name /\ ld.bound[i] \in {None} \cup Image
    BY <1>1 DEF Loader, Bound
  <2>3. acc[i] \in 0 .. MaxCalls /\ c[i] \in {"none", "mine", "another"}
    BY ScopeAssumption DEF IInv, Typed
  <2> QED BY <2>1, <2>2, <2>3 DEF Keys, Name
<1> QED BY <1>1, <1>2 DEF IInv, DiskOK, Typed, Handles, LoaderOK, TypeOK

\* The loader's tables are those of a loader: an image is mapped once, when a
\* map of a.c holds it, exlib has lost a handle to it, or it is bound to from
\* one that is; and it has as many references as there are such handles.
THEOREM TypeCorrect == Spec => []TypeOK
<1> QED BY Invariance, InvariantTypes, PTL

\* A flush never unmaps what another image is bound to, and neither does the
\* shutdown, which closes the libraries before the pages.
THEOREM NothingUnmappedInUse == Spec => []BoundMapped
<1>1. IInv => BoundMapped
  <2> SUFFICES ASSUME IInv PROVE BoundMapped
    OBVIOUS
  <2>1. /\ ld.refs \in Refs /\ ld.bound \in Bound /\ Mapped(ld) = Kept(ld.refs, ld.bound)
    BY DEF IInv, Sound, LoaderOK, Loader
  <2>2. Mapped(ld) \subseteq Image /\ KeepsAll(Mapped(ld), ld.refs, ld.bound)
    BY <2>1, KeptCloses
  <2> QED BY <2>2 DEF KeepsAll, BoundMapped
<1> QED BY <1>1, Invariance, PTL

-----------------------------------------------------------------------------
(* Pages under one name, and the counter of ex0 *)

\* p is the only name of its page that has been requested.
Alone(p, S) == \A q \in S : FileOf[q] = FileOf[p] => q = p
\* An image is known by names of ./lib, or that have been requested.
Known(l, S) == \A i \in Image : l.names[i] \subseteq S \cup LibPath
\* A page with one name has its own helpers.
OwnHelper(l, S) ==
  \A p \in Path, i \in Mapped(l) :
    p \in l.names[i] /\ Defines[i.file] # None /\ Alone(p, S) => l.bound[i] = i
Early == pc = "lodlibs" => used = {} /\ calls = 0 /\ last = None
Counter(i) == Needs[i.file] = None /\ Defines[i.file] # None
Counted == \A i \in Mapped(ld) : Counter(i) => acc[i] = calls

LEMMA PagesApart == /\ \A p \in Path, q \in LibPath : FileOf[p] # FileOf[q] /\ p # q
                    /\ \A p \in Path : FileOf[p] \in File
BY PageAssumption, ScopeAssumption

LEMMA MappedIs ==
  ASSUME NEW l, LoaderOK(l), NEW i \in Mapped(l)
  PROVE  i \in Image /\ i.file \in File /\ \E p \in Name : p \in l.names[i] /\ FileOf[p] = i.file
<1>1. i \in Image
  BY KeptCloses DEF LoaderOK, Loader
<1>2. l.names[i] \subseteq Name
  BY <1>1 DEF LoaderOK, Loader
<1> QED BY <1>1, <1>2 DEF LoaderOK, Image

\* The names of a page's image, when p is the only one: just p.
LEMMA NamedOnly ==
  ASSUME NEW l, LoaderOK(l), NEW S, Known(l, S), NEW p \in Path, Alone(p, S),
         NEW i \in Mapped(l), i.file = FileOf[p]
  PROVE  p \in l.names[i]
<1>1. PICK q \in Name : q \in l.names[i] /\ FileOf[q] = i.file
  BY MappedIs
<1>2. i \in Image
  BY MappedIs
<1>3. q \in S
  BY <1>1, <1>2, PagesApart DEF Known
<1> QED BY <1>1, <1>3 DEF Alone

\* A page that dlopen maps under its only name is bound to itself.
LEMMA OwnHelperOpened ==
  ASSUME NEW l, LoaderOK(l), DiskOK, NEW S, Known(l, S), OwnHelper(l, S),
         NEW p \in Path, p \in S, Opens(l, p)
  PROVE  OwnHelper(Opened(l, p), S)
<1> DEFINE t == Target(l, p)
           o == Opened(l, p)
<1>1. /\ t \in Image /\ t.file = FileOf[p] /\ p \in Name
      /\ IF \E i \in Mapped(l) : p \in l.names[i]
         THEN t \in Mapped(l) /\ p \in l.names[t]
         ELSE t = disk[FileOf[p]]
  BY TargetIs DEF Opens, Name
<1>2. /\ LoaderOK(o) /\ Mapped(o) = Mapped(l) \cup {t}
      /\ o.names = [l.names EXCEPT ![t] = @ \cup {p}]
      /\ \A i \in Mapped(l) : o.bound[i] = l.bound[i]
  BY <1>1, OpenedOK
<1>3. /\ t \notin Mapped(l) =>
           o.bound = [l.bound EXCEPT ![t] = IF Needs[t.file] = None THEN None
                                            ELSE Head(Providers(l, t))]
      /\ t \notin Mapped(l) /\ Needs[t.file] # None =>
           /\ Head(Providers(l, t)) \in Mapped(l) \cup {t}
           /\ Defines[Head(Providers(l, t)).file] = Needs[t.file]
  <2>1. Needs[t.file] # None => Providers(l, t) # <<>>
    BY DEF Opens
  <2>2. l \in Loader
    BY DEF LoaderOK
  <2>3. /\ o \in Loader /\ o.refs = [l.refs EXCEPT ![t] = @ + 1]
        /\ o.names = [l.names EXCEPT ![t] = @ \cup {p}]
        /\ IF t \in Mapped(l) THEN o.scope = l.scope /\ o.bound = l.bound
           ELSE /\ o.scope = Append(l.scope, t)
                /\ o.bound = [l.bound EXCEPT ![t] = IF Needs[t.file] = None THEN None
                                                    ELSE Head(Providers(l, t))]
    BY <1>1, <2>1, OpenedIs
  <2>4. Needs[t.file] # None => /\ Head(Providers(l, t)) \in Mapped(l) \cup {t}
                               /\ Defines[Head(Providers(l, t)).file] = Needs[t.file]
    <3> HIDE DEF t
    <3> QED BY <1>1, <2>1, <2>2, Provided
  <2> QED BY <2>3, <2>4
<1>4. l.names \in [Image -> SUBSET Name] /\ l.bound \in Bound
  BY DEF LoaderOK, Loader
<1> SUFFICES ASSUME NEW q \in Path, NEW i \in Mapped(o),
                    q \in o.names[i], Defines[i.file] # None, Alone(q, S)
             PROVE  o.bound[i] = i
  BY DEF OwnHelper
<1> HIDE DEF t, o
<1>5. i \in Image /\ i.file = FileOf[q] /\ o.names[i] = IF i = t THEN l.names[t] \cup {p} ELSE l.names[i]
  BY <1>1, <1>2, <1>4, MappedIs DEF LoaderOK
<1>6. CASE i \in Mapped(l)
  <2>1. q \in l.names[i]
    BY <1>5, <1>6, NamedOnly
  <2> QED BY <1>2, <1>6, <2>1 DEF OwnHelper
<1>7. CASE i \notin Mapped(l)
  <2>1. i = t /\ FileOf[p] = FileOf[q]
    BY <1>1, <1>2, <1>5, <1>7
  <2>2. p = q
    BY <2>1 DEF Alone
  <2>3. Needs[t.file] = Defines[t.file] /\ Needs[t.file] # None
    BY <1>1, <2>1, PageAssumption
  <2> DEFINE h == Head(Providers(l, t))
  <2>4. h \in Mapped(l) \cup {t} /\ Defines[h.file] = Defines[t.file] /\ o.bound[t] = h
    BY <1>1, <1>3, <1>4, <1>7, <2>1, <2>3 DEF Bound
  <2> HIDE DEF h
  <2>5. h \notin Mapped(l)
    <3> SUFFICES ASSUME h \in Mapped(l) PROVE FALSE
      OBVIOUS
    <3>1. h.file \in File
      BY MappedIs
    <3>2. h.file = FileOf[p]
      BY <1>1, <2>1, <2>3, <2>4, <3>1, PageAssumption
    <3>3. p \in l.names[h]
      BY <2>2, <3>2, NamedOnly
    <3> QED BY <1>1, <1>7, <2>1, <3>3
  <2> QED BY <2>1, <2>4, <2>5
<1> QED BY <1>6, <1>7

\* A library has none of the names of a page.
LEMMA OwnHelperLib ==
  ASSUME NEW l, LoaderOK(l), DiskOK, NEW S, OwnHelper(l, S),
         NEW p \in LibPath, Opens(l, p)
  PROVE  OwnHelper(Opened(l, p), S)
<1> DEFINE t == Target(l, p)
           o == Opened(l, p)
<1>1. t \in Image /\ t.file = FileOf[p] /\ p \in Name
  BY TargetIs DEF Opens, Name
<1>2. /\ LoaderOK(o) /\ Mapped(o) = Mapped(l) \cup {t}
      /\ o.names = [l.names EXCEPT ![t] = @ \cup {p}]
      /\ \A i \in Mapped(l) : o.bound[i] = l.bound[i]
  BY <1>1, OpenedOK
<1>3. l.names \in [Image -> SUBSET Name]
  BY DEF LoaderOK, Loader
<1> SUFFICES ASSUME NEW q \in Path, NEW i \in Mapped(o),
                    q \in o.names[i], Defines[i.file] # None, Alone(q, S)
             PROVE  o.bound[i] = i
  BY DEF OwnHelper
<1> HIDE DEF t, o
<1>4. i \in Image /\ i.file = FileOf[q]
  BY <1>2, MappedIs DEF LoaderOK
<1>5. i # t
  BY <1>1, <1>4, PagesApart
<1>6. i \in Mapped(l) /\ q \in l.names[i]
  BY <1>2, <1>3, <1>4, <1>5
<1> QED BY <1>2, <1>6 DEF OwnHelper

\* What is unmapped, and what is requested besides, takes nothing from a page.
LEMMA OwnHelperWithin ==
  ASSUME NEW l, NEW o, Within(l, o), NEW S, NEW R, S \subseteq R, OwnHelper(o, S)
  PROVE  OwnHelper(l, R)
BY DEF Within, OwnHelper, Alone

LEMMA KnownWithin ==
  ASSUME NEW l, NEW o, LoaderOK(l), Within(l, o), NEW S, NEW R, S \subseteq R, Known(o, S),
         Mapped(o) \subseteq Image
  PROVE  Known(l, R)
<1>1. \A i \in Image : i \in Mapped(l) \/ l.names[i] = {}
  BY DEF LoaderOK
<1> QED BY <1>1 DEF Within, Known

LEMMA KnownOpened ==
  ASSUME NEW l, LoaderOK(l), DiskOK, NEW S, Known(l, S),
         NEW p \in Name, p \in S \cup LibPath, Opens(l, p)
  PROVE  Known(Opened(l, p), S)
<1>1. Opened(l, p).names = [l.names EXCEPT ![Target(l, p)] = @ \cup {p}]
  BY OpenedOK
<1>2. l.names \in [Image -> SUBSET Name]
  BY DEF LoaderOK, Loader
<1> QED BY <1>1, <1>2 DEF Known

-----------------------------------------------------------------------------
(* The counter *)

LEMMA LibraryOf ==
  ASSUME NEW l, LoaderOK(l), NEW i \in Mapped(l), \A p \in Path : FileOf[p] # i.file
  PROVE  \E q \in LibPath : q \in l.names[i] /\ FileOf[q] = i.file
BY MappedIs DEF Name

LEMMA OneLibrary ==
  ASSUME NEW l, LoaderOK(l), NEW i \in Mapped(l), NEW j \in Mapped(l),
         \A p \in Path : FileOf[p] # i.file /\ FileOf[p] # j.file,
         Defines[i.file] # None, Defines[j.file] # None
  PROVE  i = j
<1>1. PICK q \in LibPath : q \in l.names[i] /\ FileOf[q] = i.file
  BY LibraryOf
<1>2. PICK r \in LibPath : r \in l.names[j] /\ FileOf[r] = j.file
  BY LibraryOf
<1>3. q = r
  BY <1>1, <1>2, LibraryAssumption
<1> QED BY <1>1, <1>2, <1>3 DEF LoaderOK

\* The acc that an ex0 is bound to is the only one mapped.
LEMMA CountsIn ==
  ASSUME NEW l, LoaderOK(l), NEW i \in Mapped(l), Needs[i.file] # None, Defines[i.file] = None
  PROVE  l.bound[i] \in Mapped(l) /\ \A j \in Mapped(l) : Counter(j) => j = l.bound[i]
<1> DEFINE h == l.bound[i]
<1>1. i \in Image /\ i.file \in File
  BY MappedIs
<1>2. h \in Mapped(l) /\ Defines[h.file] = Needs[i.file]
  BY <1>1, KeptCloses DEF LoaderOK, Loader, KeepsAll
<1> HIDE DEF h
<1>3. \A p \in Path : FileOf[p] # h.file
  BY <1>1, <1>2, PageAssumption
<1>4. ASSUME NEW j \in Mapped(l), Counter(j) PROVE j = h
  <2>1. \A p \in Path : FileOf[p] # j.file
    BY <1>4, PageAssumption DEF Counter
  <2>2. \A p \in Path : FileOf[p] # h.file /\ FileOf[p] # j.file
    BY <1>3, <2>1
  <2>3. Defines[h.file] # None /\ Defines[j.file] # None
    BY <1>2, <1>4 DEF Counter
  <2> QED BY <1>2, <2>2, <2>3, OneLibrary
<1> QED BY <1>2, <1>4 DEF h

LEMMA EntryCounts ==
  ASSUME Typed, NEW l, LoaderOK(l), NEW p, NEW flush, NEW i \in Mapped(l),
         Entry(p, flush, i, l.bound[i]),
         \A j \in Mapped(l) : Counter(j) => acc[j] = calls
  PROVE  \A j \in Mapped(l) : Counter(j) => acc'[j] = calls'
<1> DEFINE counts == Needs[i.file] # None /\ Defines[i.file] = None
           h == l.bound[i]
<1>1. /\ calls' = calls + (IF counts THEN 1 ELSE 0)
      /\ acc' = IF counts THEN [acc EXCEPT ![h] = @ + 1] ELSE acc
  BY DEF Entry
<1>2. counts => h \in Mapped(l) /\ \A j \in Mapped(l) : Counter(j) => j = h
  BY CountsIn
<1>3. Mapped(l) \subseteq Image /\ calls \in Nat /\ acc \in [Image -> 0 .. calls]
  BY MappedIs, ScopeAssumption DEF Typed
<1> HIDE DEF counts, h
<1>4. CASE counts
  BY <1>1, <1>2, <1>3, <1>4
<1>5. CASE ~counts
  BY <1>1, <1>3, <1>5
<1> QED BY <1>4, <1>5

\* A page that cannot be opened is there, and needs what nothing mapped has.
LEMMA NotProvided ==
  ASSUME NEW l, LoaderOK(l), DiskOK, NEW p \in Path, disk[FileOf[p]] # None, ~Opens(l, p)
  PROVE  \A i \in Mapped(l) : Defines[i.file] # Needs[FileOf[p]]
<1> DEFINE t == Target(l, p)
           known == {i \in Mapped(l) : p \in l.names[i]}
<1>1. l \in Loader /\ l.scope \in Seq(Image) /\ Mapped(l) \subseteq Image
  BY MappedIs DEF LoaderOK, Loader
<1>2. t # None
  <2>1. CASE known = {}
    BY <2>1 DEF Target
  <2>2. CASE known # {}
    <3>1. t \in known
      BY <2>2 DEF Target
    <3> QED BY <1>1, <3>1, ScopeAssumption
  <2> QED BY <2>1, <2>2
<1>3. t \in Image /\ t.file = FileOf[p]
  BY <1>2, TargetIs DEF Name
<1>4. Providers(l, t) = <<>>
  BY <1>2 DEF Opens
<1> HIDE DEF t
<1> DEFINE s == IF t \in Mapped(l) THEN l.scope ELSE Append(l.scope, t)
           S == {i \in Image : Defines[i.file] = Needs[t.file]}
<1>5. Only(s, S) = <<>>
  BY <1>4 DEF Providers
<1>6. s \in Seq(Image) /\ Mapped(l) \subseteq ToSet(s)
  BY <1>1, <1>3, Appending DEF Mapped
<1>7. ToSet(Only(s, S)) = ToSet(s) \cap S
  <2> HIDE DEF s, S
  <2> QED BY <1>6, OnlyKeeps
<1>8. ToSet(s) \cap S = {}
  <2>1. ToSet(<<>>) = {}
    BY DEF ToSet
  <2> QED BY <1>5, <1>7, <2>1
<1> HIDE DEF s
<1> QED BY <1>1, <1>3, <1>6, <1>8

-----------------------------------------------------------------------------
(* What a request is served by *)

RInv == Early /\ Known(ld, used) /\ OwnHelper(ld, used) /\ Counted

LEMMA RInitially == Init => RInv
<1> SUFFICES ASSUME Init PROVE RInv
  OBVIOUS
<1>1. Mapped(ld) = {} /\ \A i \in Image : ld.names[i] = {}
  <2>1. ld.scope = <<>> /\ \A i \in Image : ld.names[i] = {}
    BY DEF Init
  <2> QED BY <2>1 DEF Mapped, ToSet
<1> QED BY <1>1 DEF Init, RInv, Early, Known, OwnHelper, Counted

\* The images that a request meets after the flush, and with its page.
LEMMA LoadingKeeps ==
  ASSUME IInv, RInv, NEW p \in Path, NEW flush \in BOOLEAN, flush \/ mloc[p] = None,
         Opens(Reopened(p, flush), p), NEW S, S = used \cup {p}
  PROVE  LET l == Reopened(p, flush)
             o == Opened(l, p)
         IN /\ Known(l, S) /\ Known(o, S) /\ OwnHelper(o, S)
            /\ \A j \in Mapped(o) : Counter(j) => acc[j] = calls
<1> DEFINE l == Reopened(p, flush)
           o == Opened(l, p)
           t == Target(l, p)
<1>1. LoaderOK(l) /\ Within(l, ld) /\ Opens(l, p) /\ DiskOK
  BY Flushed DEF Sound, IInv
<1>2. Mapped(ld) \subseteq Image
  BY MappedIs DEF IInv, Sound
<1> HIDE DEF l
<1>3. Known(l, S) /\ OwnHelper(l, S)
  BY <1>1, <1>2, KnownWithin, OwnHelperWithin DEF RInv
<1>4. Known(o, S)
  BY <1>1, <1>3, KnownOpened DEF Name
<1>5. OwnHelper(o, S)
  BY <1>1, <1>3, OwnHelperOpened
<1>6. Mapped(o) = Mapped(l) \cup {t} /\ t.file = FileOf[p]
  <2>1. Mapped(o) = Mapped(l) \cup {t}
    BY <1>1, OpenedOK DEF Name
  <2> QED BY <1>1, <2>1, TargetIs DEF Name, Opens
<1>7. ~Counter(t)
  <2> HIDE DEF t
  <2> QED BY <1>6, PageAssumption DEF Counter
<1>8. \A j \in Mapped(o) : Counter(j) => acc[j] = calls
  BY <1>1, <1>6, <1>7 DEF RInv, Counted, Within
<1> QED BY <1>3, <1>4, <1>5, <1>8 DEF l

LEMMA RequestKeeps ==
  ASSUME IInv, RInv, NEW p \in Path, NEW flush \in BOOLEAN, Request(p, flush)
  PROVE  RInv'
<1>1. /\ pc' = "poll" /\ used' = used \cup {p}
      /\ Answers(p, flush) \/ Loading(p, flush) \/ Fails(p, flush)
  BY RequestIs
<1>2. LoaderOK(ld) /\ Typed /\ Mapped(ld) \subseteq Image
  BY MappedIs DEF IInv, Sound
<1>3. Early'
  BY <1>1 DEF Early
<1>4. CASE Answers(p, flush)
  <2> DEFINE i == mloc[p]
  <2>1. i \in Mapped(ld) /\ Entry(p, flush, i, ld.bound[i]) /\ ld' = ld
    BY <1>4, HandleMapped DEF Answers, IInv
  <2>2. Within(ld', ld) /\ LoaderOK(ld')
    BY <1>2, <2>1 DEF Within
  <2>3. Known(ld', used') /\ OwnHelper(ld', used')
    BY <1>1, <1>2, <2>2, KnownWithin, OwnHelperWithin DEF RInv
  <2> HIDE DEF i
  <2>4. \A j \in Mapped(ld) : Counter(j) => acc'[j] = calls'
    BY <1>2, <2>1, EntryCounts DEF RInv, Counted
  <2> QED BY <1>3, <2>1, <2>3, <2>4 DEF RInv, Counted, Counter
<1>5. CASE Loading(p, flush)
  <2> DEFINE l == Reopened(p, flush)
             i == Target(l, p)
             o == Opened(l, p)
  <2>1. /\ i \in Mapped(o) /\ LoaderOK(o) /\ LoaderOK(ld') /\ Within(ld', o)
        /\ Entry(p, flush, i, o.bound[i])
    <3>1. Entry(p, flush, i, o.bound[i])
      BY <1>5 DEF Loading
    <3>2. /\ i \in Mapped(o) /\ Within(ld', o)
          /\ Sound(o, Path, [mloc EXCEPT ![p] = i], LibPath, mglb, lost)
          /\ Sound(ld', Path, mloc', LibPath, mglb, lost')
      BY <1>5, LoadingIs
    <3> HIDE DEF l, i, o
    <3>3. LoaderOK(o) /\ LoaderOK(ld')
      BY ONLY <3>2 DEF Sound
    <3> QED BY <3>1, <3>2, <3>3
  <2>2. /\ Known(o, used') /\ OwnHelper(o, used')
        /\ \A j \in Mapped(o) : Counter(j) => acc[j] = calls
    BY <1>1, <1>5, LoadingKeeps DEF Loading
  <2> HIDE DEF l, i, o
  <2>3. Mapped(o) \subseteq Image
    BY <2>1, MappedIs
  <2>4. Known(ld', used') /\ OwnHelper(ld', used')
    BY <2>1, <2>2, <2>3, KnownWithin, OwnHelperWithin
  <2>5. \A j \in Mapped(o) : Counter(j) => acc'[j] = calls'
    BY <1>2, <2>1, <2>2, EntryCounts
  <2> QED BY <1>3, <2>1, <2>4, <2>5 DEF RInv, Counted, Counter, Within
<1>6. CASE Fails(p, flush)
  <2>1. acc' = acc /\ calls' = calls /\ LoaderOK(ld')
    BY <1>6, FailsIs DEF Sound
  <2>2. CASE ld' = ld \/ (ld' = Reopened(p, flush) /\ (flush \/ mloc[p] = None))
    <3>1. Within(ld', ld)
      BY <2>2, Flushed DEF Within
    <3>2. Known(ld', used') /\ OwnHelper(ld', used')
      BY <1>1, <1>2, <2>1, <3>1, KnownWithin, OwnHelperWithin DEF RInv
    <3> QED BY <1>3, <2>1, <3>1, <3>2 DEF RInv, Counted, Counter, Within
  <2>3. CASE /\ flush \/ mloc[p] = None
             /\ Opens(Reopened(p, flush), p)
             /\ ld' = Opened(Reopened(p, flush), p)
    <3> DEFINE o == Opened(Reopened(p, flush), p)
    <3>1. /\ Known(o, used') /\ OwnHelper(o, used')
          /\ \A j \in Mapped(o) : Counter(j) => acc[j] = calls
      BY <1>1, <2>3, LoadingKeeps
    <3>2. ld' = o
      BY <2>3
    <3> HIDE DEF o
    <3> QED BY <1>3, <2>1, <3>1, <3>2 DEF RInv, Counted, Counter
  <2> QED BY <1>6, <2>2, <2>3 DEF Fails, NoMemory, Refuses, Loses
<1> QED BY <1>1, <1>4, <1>5, <1>6

LEMMA ClosingKeeps ==
  ASSUME IInv, RInv, NEW i \in Image, ld.refs[i] > 0, ld' = Closed(ld, i),
         pc' = "unload", UNCHANGED <<acc, calls, used>>
  PROVE  RInv'
<1>1. LoaderOK(ld) /\ Mapped(ld) \subseteq Image
  BY MappedIs DEF IInv, Sound
<1>2. LoaderOK(ld') /\ Within(ld', ld)
  <2> DEFINE o == Closed(ld, i)
  <2>1. /\ LoaderOK(o) /\ Mapped(o) \subseteq Mapped(ld)
        /\ \A j \in Mapped(o) : o.names[j] = ld.names[j] /\ o.bound[j] = ld.bound[j]
    BY <1>1, ClosedOK
  <2> HIDE DEF o
  <2>2. LoaderOK(o) /\ Within(o, ld)
    BY <2>1 DEF Within
  <2> QED BY <2>2 DEF o
<1>3. Known(ld', used') /\ OwnHelper(ld', used')
  BY <1>1, <1>2, KnownWithin, OwnHelperWithin DEF RInv
<1> QED BY <1>2, <1>3 DEF RInv, Early, Counted, Counter, Within

LEMMA LoadLibKeeps ==
  ASSUME IInv, RInv, NEW p \in LibPath, LoadLib(p)
  PROVE  RInv'
<1>1. /\ pc = "lodlibs" /\ Opens(ld, p) /\ ld' = Opened(ld, p)
      /\ acc' = [i \in Image |-> IF Loads(ld', i) THEN 0 ELSE acc[i]]
      /\ UNCHANGED <<pc, calls, used, last>>
  BY DEF LoadLib, Joins
<1>2. LoaderOK(ld) /\ DiskOK /\ p \in Name
  BY DEF IInv, Sound, Name
<1>3. Known(ld', used') /\ OwnHelper(ld', used')
  BY <1>1, <1>2, KnownOpened, OwnHelperLib DEF RInv
<1>4. LoaderOK(ld')
  BY <1>1, <1>2, OpenedOK
<1>5. \A i \in Mapped(ld') : i \in Image
  BY <1>4, MappedIs
<1>6. Counted'
  BY <1>1, <1>5 DEF RInv, Early, Counted, Counter, Loads
<1> QED BY <1>1, <1>3, <1>6 DEF RInv, Early

LEMMA StepKeeps == IInv /\ RInv /\ [Next]_vars => RInv'
<1> SUFFICES ASSUME IInv, RInv, [Next]_vars PROVE RInv'
  OBVIOUS
<1>1. ASSUME NEW p \in LibPath, LoadLib(p) PROVE RInv'
  BY <1>1, LoadLibKeeps
<1>2. ASSUME NEW p \in LibPath, UnloadLib(p) PROVE RInv'
  <2>1. mglb[p] \in Image /\ ld.refs[mglb[p]] > 0
    BY <1>2, SoundSwaps, HandleMapped DEF IInv, UnloadLib
  <2> QED BY <1>2, <2>1, ClosingKeeps DEF UnloadLib
<1>3. ASSUME NEW p \in Path, UnloadDso(p) PROVE RInv'
  <2>1. mloc[p] \in Image /\ ld.refs[mloc[p]] > 0
    BY <1>3, HandleMapped DEF IInv, UnloadDso
  <2> QED BY <1>3, <2>1, ClosingKeeps DEF UnloadDso
<1>4. ASSUME NEW p \in Path, NEW flush \in BOOLEAN, Request(p, flush) PROVE RInv'
  BY <1>4, RequestKeeps
<1>5. ASSUME NEW f \in File, Deploy(f) PROVE RInv'
  BY <1>5 DEF Deploy, RInv, Early, Counted
<1>6. ASSUME Listen \/ Stop PROVE RInv'
  BY <1>6 DEF Listen, Stop, RInv, Early, Counted
<1>7. ASSUME UNCHANGED vars PROVE RInv'
  BY <1>7 DEF vars, RInv, Early, Counted
<1> QED BY <1>1, <1>2, <1>3, <1>4, <1>5, <1>6, <1>7 DEF Next, Done

LEMMA RInvariance == Spec => [](IInv /\ RInv)
<1> QED BY Initially, RInitially, StepTyped, StepKeeps, PTL DEF Spec

\* The second part of CounterKept: no library has the symbol that was missed.
Refused == pc = "poll" /\ last # None /\ last.unresolved =>
             \A p \in LibPath : mglb[p] # None =>
               Defines[mglb[p].file] # Needs[FileOf[last.path]]

\* What `last` tells of a request that was answered.
Told(p, flush, i, helper) ==
  /\ last'.path = p /\ last'.flush = flush /\ last'.page = i /\ last'.helper = helper
  /\ last'.disk = disk[FileOf[p]] /\ last'.unresolved = FALSE
  /\ i \in Image /\ helper = i => helper # None /\ last'.writes = "mine"

LEMMA EntryLast ==
  ASSUME NEW p, NEW flush, NEW i, NEW helper, Entry(p, flush, i, helper)
  PROVE  Told(p, flush, i, helper)
BY ScopeAssumption DEF Entry, Told

LEMMA RequestRefused ==
  ASSUME IInv, NEW p \in Path, NEW flush \in BOOLEAN, Request(p, flush)
  PROVE  Refused'
<1>1. /\ disk[FileOf[p]] # None /\ mglb' = mglb
      /\ Answers(p, flush) \/ Loading(p, flush) \/ Fails(p, flush)
  BY RequestIs
<1>2. CASE Answers(p, flush)
  <2>1. Entry(p, flush, mloc[p], ld.bound[mloc[p]])
    BY <1>2 DEF Answers
  <2>2. last'.unresolved = FALSE
    BY ONLY <2>1, EntryLast DEF Told
  <2> QED BY <2>2 DEF Refused
<1>3. CASE Loading(p, flush)
  <2> DEFINE i == Target(Reopened(p, flush), p)
             b == Opened(Reopened(p, flush), p).bound[i]
  <2>1. Entry(p, flush, i, b)
    BY <1>3 DEF Loading
  <2> HIDE DEF i, b
  <2>2. last'.unresolved = FALSE
    BY ONLY <2>1, EntryLast DEF Told
  <2> QED BY <2>2 DEF Refused
<1>4. CASE Fails(p, flush)
  <2> SUFFICES ASSUME last'.unresolved
               PROVE  \A q \in LibPath : mglb[q] # None => Defines[mglb[q].file] # Needs[FileOf[p]]
    BY <1>1, <1>4, FailsIs DEF Refused
  <2> DEFINE l == Reopened(p, flush)
  <2>1. (flush \/ mloc[p] = None) /\ ~Opens(l, p)
    BY <1>4, FailsIs
  <2>2. Sound(l, Path, Uncached(p), LibPath, mglb, lost)
    BY <2>1, Flushed
  <2> HIDE DEF l
  <2>3. \A i \in Mapped(l) : Defines[i.file] # Needs[FileOf[p]]
    BY <1>1, <2>1, <2>2, NotProvided DEF IInv, Sound
  <2>4. \A q \in LibPath : mglb[q] # None => mglb[q] \in Mapped(l)
    BY <2>2, SoundSwaps, HandleMapped
  <2> QED BY <2>3, <2>4
<1> QED BY <1>1, <1>2, <1>3, <1>4

LEMMA StepRefused == IInv /\ RInv /\ Refused /\ [Next]_vars => Refused'
<1> SUFFICES ASSUME IInv, RInv, Refused, [Next]_vars PROVE Refused'
  OBVIOUS
<1>1. ASSUME NEW p \in Path, NEW flush \in BOOLEAN, Request(p, flush) PROVE Refused'
  BY <1>1, RequestRefused
<1>2. ASSUME NEW p \in LibPath, LoadLib(p) \/ UnloadLib(p) PROVE Refused'
  BY <1>2 DEF LoadLib, UnloadLib, Refused
<1>3. ASSUME NEW p \in Path, UnloadDso(p) PROVE Refused'
  BY <1>3 DEF UnloadDso, Refused
<1>4. ASSUME NEW f \in File, Deploy(f) PROVE Refused'
  BY <1>4 DEF Deploy, Refused
<1>5. ASSUME Listen \/ Stop PROVE Refused'
  BY <1>5 DEF Listen, Stop, RInv, Early, Refused
<1>6. ASSUME UNCHANGED vars PROVE Refused'
  BY <1>6 DEF vars, Refused
<1> QED BY <1>1, <1>2, <1>3, <1>4, <1>5, <1>6 DEF Next, Done

\* However often ex0 is flushed, and ex0 and data1 rebuilt, its requests are
\* counted in the one acc that is mapped; and no symbol is missed that a library
\* loaded at the start has.
THEOREM CounterIsKept == Spec => []CounterKept
<1>1. Init => Refused
  BY DEF Init, Refused
<1>2. RInv /\ Refused => CounterKept
  BY DEF RInv, Counted, Counter, Refused, CounterKept
<1> QED BY <1>1, <1>2, StepRefused, RInvariance, PTL DEF Spec

-----------------------------------------------------------------------------
(* One name *)

LEMMA OneOf ==
  ASSUME NEW S, S \subseteq Path, NEW p \in S,
         Cardinality({q \in S : FileOf[q] = FileOf[p]}) = 1
  PROVE  Alone(p, S)
<1> DEFINE T == {q \in S : FileOf[q] = FileOf[p]}
<1>1. T \subseteq Path /\ Cardinality(T) = 1 /\ p \in T
  OBVIOUS
<1>2. IsFiniteSet(T)
  BY <1>1, FS_Subset, ScopeAssumption
<1>3. \E x : T = {x}
  <2> HIDE DEF T
  <2> QED BY <1>1, <1>2, FS_Singleton
<1> QED BY <1>1, <1>3 DEF Alone

\* An image that nothing holds but libraries, other pages and lost handles is
\* mapped by the lost ones.
LEMMA HeldByName ==
  ASSUME NEW l, NEW h, Sound(l, Path, h, LibPath, mglb, lost), NEW S, Known(l, S),
         NEW p \in Path, Alone(p, S), h[p] = None
  PROVE  \A i \in Mapped(l) : p \in l.names[i] => lost[i] > 0
<1> SUFFICES ASSUME NEW i \in Mapped(l), p \in l.names[i], ~(lost[i] > 0) PROVE FALSE
  OBVIOUS
<1>1. /\ LoaderOK(l) /\ l.refs \in Refs /\ l.bound \in Bound /\ i \in Kept(l.refs, l.bound)
      /\ Mapped(l) = Kept(l.refs, l.bound)
  BY DEF Sound, LoaderOK, Loader
<1>2. i \in Image /\ i.file = FileOf[p] /\ i.file \in File
  BY <1>1, MappedIs DEF LoaderOK
<1>3. Keys(h, Path, i) = {}
  <2> SUFFICES ASSUME NEW q \in Path, h[q] = i PROVE FALSE
    BY DEF Keys
  <2>1. q \in l.names[i] /\ FileOf[q] = i.file
    BY <1>1, <1>2, ScopeAssumption DEF Sound, LoaderOK
  <2>2. q \in S
    BY <1>2, <2>1, PagesApart DEF Known
  <2> QED BY <1>2, <2>1, <2>2, ScopeAssumption DEF Alone
<1>4. Keys(mglb, LibPath, i) = {}
  <2> SUFFICES ASSUME NEW q \in LibPath, mglb[q] = i PROVE FALSE
    BY DEF Keys
  <2>1. FileOf[q] = i.file
    BY <1>1, <1>2, ScopeAssumption DEF Sound, LoaderOK
  <2> QED BY <1>2, <2>1, PagesApart
<1>5. ~(l.refs[i] > 0)
  <2>1. l.refs[i] = Cardinality({}) + Cardinality({}) + lost[i] /\ lost[i] \in Nat
    BY <1>2, <1>3, <1>4 DEF Sound
  <2>2. Cardinality({}) = 0
    BY FS_EmptySet
  <2> QED BY <2>1, <2>2
<1>6. PICK j \in Kept(l.refs, l.bound) : j # i /\ l.bound[j] = i
  BY <1>1, <1>5, KeptByAnother
<1>7. j \in Mapped(l) /\ j \in Image /\ j.file \in File
  BY <1>1, <1>6, MappedIs
<1>8. Needs[j.file] # None /\ Defines[i.file] = Needs[j.file]
  BY <1>1, <1>2, <1>6, <1>7, ScopeAssumption DEF LoaderOK
<1>9. j.file = FileOf[p]
  BY <1>2, <1>7, <1>8, PageAssumption
<1>10. p \in l.names[j]
  BY <1>1, <1>7, <1>9, NamedOnly
<1> QED BY <1>1, <1>6, <1>7, <1>10 DEF LoaderOK

LEMMA RequestRuns ==
  ASSUME IInv, RInv, NEW p \in Path, NEW flush \in BOOLEAN, Request(p, flush)
  PROVE  OneNameIsEnough'
<1>1. /\ used' = used \cup {p}
      /\ Answers(p, flush) \/ Loading(p, flush) \/ Fails(p, flush)
  BY RequestIs
<1>2. /\ LoaderOK(ld) /\ Sound(ld, Path, mloc, LibPath, mglb, lost) /\ used' \subseteq Path /\ p \in used'
      /\ DiskOK
  BY <1>1 DEF IInv, Sound, Typed
<1>3. CASE Answers(p, flush)
  <2> DEFINE i == mloc[p]
  <2>1. i \in Image /\ i \in Mapped(ld) /\ Entry(p, flush, i, ld.bound[i]) /\ ~flush /\ p \in ld.names[i]
    BY <1>2, <1>3, HandleMapped DEF Answers, Sound
  <2> HIDE DEF i
  <2>2. /\ last'.path = p /\ last'.flush = flush /\ last'.page = i /\ last'.helper = ld.bound[i]
        /\ ld.bound[i] = i => last'.writes = "mine"
    <3>1. Told(p, flush, i, ld.bound[i])
      BY ONLY <2>1, EntryLast
    <3> QED BY ONLY <2>1, <3>1 DEF Told
  <2>3. ASSUME Defines[i.file] # None, Alone(p, used') PROVE ld.bound[i] = i
    <3>1. Alone(p, used)
      BY <1>1, <2>3 DEF Alone
    <3> QED BY <2>1, <2>3, <3>1 DEF RInv, OwnHelper
  <2>4. Cardinality({q \in used' : FileOf[q] = FileOf[p]}) = 1 => Alone(p, used')
    BY <1>2, OneOf
  <2> QED BY <2>1, <2>2, <2>3, <2>4 DEF OneNameIsEnough
<1>4. CASE Loading(p, flush)
  <2> DEFINE l == Reopened(p, flush)
             i == Target(l, p)
             o == Opened(l, p)
             h == [mloc EXCEPT ![p] = i]
  <2>1. /\ i \in Image /\ i \in Mapped(o) /\ Sound(o, Path, h, LibPath, mglb, lost)
        /\ Entry(p, flush, i, o.bound[i]) /\ Opens(l, p)
        /\ Known(l, used') /\ OwnHelper(o, used') /\ lost' = lost
    BY <1>1, <1>4, LoadingIs, LoadingKeeps DEF Loading
  <2>2. Sound(l, Path, Uncached(p), LibPath, mglb, lost) /\ Uncached(p)[p] = None
    <3>1. mloc \in [Path -> {None} \cup Image]
      BY <1>2 DEF Sound, Handles
    <3>2. Uncached(p)[p] = None
      BY ONLY <3>1, p \in Path DEF Uncached
    <3>3. flush \/ mloc[p] = None
      BY <1>4 DEF Loading
    <3>4. Sound(l, Path, Uncached(p), LibPath, mglb, lost)
      BY <3>3, Flushed
    <3> QED BY <3>2, <3>4
  <2>3. p \in o.names[i]
    <3>1. h[p] = i /\ i # None
      BY <1>2, <2>1, ScopeAssumption DEF Sound, Handles
    <3>2. \A q \in Path : h[q] # None => q \in o.names[h[q]]
      <4> HIDE DEF h, o, i
      <4> QED BY ONLY <2>1 DEF Sound
    <3> HIDE DEF h, o, i
    <3> QED BY ONLY <3>1, <3>2, p \in Path
  <2>4. LoaderOK(l) /\ p \in Name /\ i = Target(l, p)
    BY <2>2 DEF Sound, Name
  <2> HIDE DEF i, o, l, h
  <2>5. /\ last'.path = p /\ last'.flush = flush /\ last'.page = i /\ last'.helper = o.bound[i]
        /\ o.bound[i] = i => last'.writes = "mine"
        /\ last'.disk = disk[FileOf[p]]
    <3>1. Told(p, flush, i, o.bound[i])
      BY ONLY <2>1, EntryLast
    <3> QED BY ONLY <2>1, <3>1 DEF Told
  <2>6. ASSUME Defines[i.file] # None, Alone(p, used') PROVE o.bound[i] = i
    BY <2>1, <2>3, <2>6 DEF OwnHelper
  <2>7. ASSUME Alone(p, used') PROVE i = disk[FileOf[p]] \/ lost[i] > 0
    <3>1. \A j \in Mapped(l) : p \in l.names[j] => lost[j] > 0
      BY <2>1, <2>2, <2>7, HeldByName
    <3> QED BY <1>2, <2>1, <2>4, <3>1, TargetIs DEF Opens
  <2>8. Cardinality({q \in used' : FileOf[q] = FileOf[p]}) = 1 => Alone(p, used')
    BY <1>2, OneOf
  <2> QED BY <2>1, <2>5, <2>6, <2>7, <2>8 DEF OneNameIsEnough
<1>5. CASE Fails(p, flush)
  BY <1>5, FailsIs DEF OneNameIsEnough
<1> QED BY <1>1, <1>3, <1>4, <1>5

\* A page that has been requested under one name only runs its own helpers, on
\* the connection of the request, and after a flush it is the build on disk,
\* unless exlib has lost a handle to the one it is.
THEOREM OneNameSuffices == Spec => []OneNameIsEnough
<1>1. Init => OneNameIsEnough
  BY DEF Init, OneNameIsEnough
<1>2. IInv /\ RInv /\ OneNameIsEnough /\ [Next]_vars => OneNameIsEnough'
  <2> SUFFICES ASSUME IInv, RInv, OneNameIsEnough, [Next]_vars PROVE OneNameIsEnough'
    OBVIOUS
  <2>1. ASSUME NEW p \in Path, NEW flush \in BOOLEAN, Request(p, flush) PROVE OneNameIsEnough'
    BY <2>1, RequestRuns
  <2>2. ASSUME UNCHANGED <<used, last, lost>> PROVE OneNameIsEnough'
    BY <2>2 DEF OneNameIsEnough
  <2> QED BY <2>1, <2>2
          DEF Next, Done, vars, Deploy, LoadLib, UnloadLib, UnloadDso, Listen, Stop
<1> QED BY <1>1, <1>2, RInvariance, PTL DEF Spec

-----------------------------------------------------------------------------
(* Several names *)

\* Closing what was just opened, and had been mapped, leaves all as it was.
LEMMA OpenedAndClosed ==
  ASSUME NEW l, LoaderOK(l), DiskOK, NEW p \in Name, NEW i \in Mapped(l), i = Target(l, p),
         Opens(l, p)
  PROVE  LET o == Closed(Opened(l, p), i)
         IN Mapped(o) = Mapped(l) /\ \A j \in Mapped(l) : o.bound[j] = l.bound[j]
<1> DEFINE open == Opened(l, p)
           o == Closed(open, i)
<1>1. i \in Image /\ l.refs \in Refs /\ Mapped(l) = Kept(l.refs, l.bound)
  BY MappedIs DEF LoaderOK, Loader
<1>2. Needs[i.file] # None => Providers(l, i) # <<>>
  BY DEF Opens
<1>3. /\ open \in Loader /\ open.refs = [l.refs EXCEPT ![i] = @ + 1]
      /\ open.names = [l.names EXCEPT ![i] = @ \cup {p}]
      /\ IF i \in Mapped(l) THEN open.scope = l.scope /\ open.bound = l.bound
         ELSE /\ open.scope = Append(l.scope, i)
              /\ open.bound = [l.bound EXCEPT ![i] = IF Needs[i.file] = None THEN None
                                                     ELSE Head(Providers(l, i))]
  BY <1>1, <1>2, OpenedIs
<1>4. LoaderOK(open)
  BY OpenedOK
<1> HIDE DEF open, o
<1>5. open.refs[i] > 0
  BY <1>1, <1>3 DEF Refs
<1>6. /\ Mapped(o) = Kept(o.refs, open.bound)
      /\ o.refs = [open.refs EXCEPT ![i] = @ - 1]
      /\ \A j \in Mapped(o) : o.bound[j] = open.bound[j]
  BY <1>1, <1>4, <1>5, ClosedOK DEF o
<1>7. o.refs = l.refs
  BY <1>1, <1>3, <1>6 DEF Refs
<1> QED BY <1>1, <1>3, <1>6, <1>7 DEF o, open

LEMMA RequestHeld ==
  ASSUME IInv, RInv, NEW p \in Path, NEW flush \in BOOLEAN, Request(p, flush)
  PROVE  OldOnlyIfHeld'
<1>1. Answers(p, flush) \/ Loading(p, flush) \/ Fails(p, flush)
  BY RequestIs
<1>2. CASE Answers(p, flush)
  <2>1. ~flush /\ Entry(p, flush, mloc[p], ld.bound[mloc[p]])
    BY <1>2 DEF Answers
  <2>2. last'.flush = flush
    <3>1. Told(p, flush, mloc[p], ld.bound[mloc[p]])
      BY ONLY <2>1, EntryLast
    <3> QED BY ONLY <3>1 DEF Told
  <2> QED BY <2>1, <2>2 DEF OldOnlyIfHeld
<1>3. CASE Fails(p, flush)
  BY <1>3, FailsIs DEF OldOnlyIfHeld
<1>4. CASE Loading(p, flush)
  <2> DEFINE l == Reopened(p, flush)
             i == Target(l, p)
             o == Opened(l, p)
  <2>1. i \in Image /\ Entry(p, flush, i, o.bound[i]) /\ Opens(l, p)
    BY <1>4, LoadingIs DEF Loading
  <2>2. Sound(l, Path, Uncached(p), LibPath, mglb, lost) /\ DiskOK
    BY <1>4, Flushed DEF Loading, IInv
  <2>3. last'.path = p /\ last'.flush = flush /\ last'.page = i /\ last'.disk = disk[FileOf[p]]
    <3> HIDE DEF i, o, l
    <3>1. Told(p, flush, i, o.bound[i])
      BY ONLY <2>1, EntryLast
    <3> QED BY ONLY <3>1 DEF Told
  <2> SUFFICES ASSUME flush, i # disk[FileOf[p]]
               PROVE  \/ \E q \in Path \ {p} : mloc'[q] = i
                      \/ \E j \in Mapped(ld') \ {i} : ld'.bound[j] = i
                      \/ lost'[i] > 0
    BY <2>3 DEF OldOnlyIfHeld
  <2>4. ld' = Closed(o, i) /\ mloc' = Uncached(p) /\ lost' = lost
    BY <1>4 DEF Loading, Uncached
  <2>5. LoaderOK(l) /\ p \in Name /\ Handles(mloc, Path) /\ i = Target(l, p) /\ o = Opened(l, p)
    BY <2>2 DEF IInv, Sound, Name
  <2> HIDE DEF i, o, l
  <2>6. i \in Mapped(l) /\ i.file = FileOf[p]
    BY <2>1, <2>2, <2>5, TargetIs DEF Opens
  <2>7. CASE l.refs[i] > 0
    <3>1. Keys(mglb, LibPath, i) = {}
      <4> SUFFICES ASSUME NEW q \in LibPath, mglb[q] = i PROVE FALSE
        BY DEF Keys
      <4>1. FileOf[q] = i.file
        BY <2>1, <2>2, <2>5, <2>6, ScopeAssumption DEF Sound, LoaderOK
      <4> QED BY <2>6, <4>1, PagesApart
    <3>2. /\ l.refs[i] = Cardinality(Keys(Uncached(p), Path, i)) + Cardinality({}) + lost[i]
          /\ lost[i] \in Nat
      BY <2>1, <2>2, <3>1 DEF Sound
    <3>3. Cardinality({}) = 0
      BY FS_EmptySet
    <3> SUFFICES ASSUME ~(lost[i] > 0) PROVE \E q \in Path \ {p} : mloc'[q] = i
      BY <2>4
    <3>4. Keys(Uncached(p), Path, i) # {}
      BY <2>7, <3>2, <3>3
    <3>5. PICK q \in Path : Uncached(p)[q] = i
      BY <3>4 DEF Keys
    <3>6. q # p
      BY <2>1, <2>5, <3>5, ScopeAssumption DEF Uncached, Handles
    <3> QED BY <2>4, <3>5, <3>6
  <2>8. CASE ~(l.refs[i] > 0)
    <3>1. l.refs \in Refs /\ l.bound \in Bound /\ Mapped(l) = Kept(l.refs, l.bound)
      BY <2>5 DEF LoaderOK, Loader
    <3>2. PICK j \in Mapped(l) : j # i /\ l.bound[j] = i
      BY <2>6, <2>8, <3>1, KeptByAnother
    <3>3. Mapped(ld') = Mapped(l) /\ \A k \in Mapped(l) : ld'.bound[k] = l.bound[k]
      BY <2>1, <2>2, <2>4, <2>5, <2>6, OpenedAndClosed
    <3> QED BY <3>2, <3>3
  <2> QED BY <2>7, <2>8
<1> QED BY <1>1, <1>2, <1>3, <1>4

\* With several names, a flush runs an old build only if the cache holds it by
\* another name, another mapped image uses it, or exlib has lost a handle to it.
THEOREM OldIsHeld == Spec => []OldOnlyIfHeld
<1>1. Init => OldOnlyIfHeld
  BY DEF Init, OldOnlyIfHeld
<1>2. IInv /\ RInv /\ OldOnlyIfHeld /\ [Next]_vars => OldOnlyIfHeld'
  <2> SUFFICES ASSUME IInv, RInv, OldOnlyIfHeld, [Next]_vars PROVE OldOnlyIfHeld'
    OBVIOUS
  <2>1. ASSUME NEW p \in Path, NEW flush \in BOOLEAN, Request(p, flush) PROVE OldOnlyIfHeld'
    BY <2>1, RequestHeld
  <2>2. ASSUME NEW p \in LibPath, LoadLib(p) \/ UnloadLib(p) PROVE OldOnlyIfHeld'
    BY <2>2 DEF LoadLib, UnloadLib, OldOnlyIfHeld
  <2>3. ASSUME NEW p \in Path, UnloadDso(p) PROVE OldOnlyIfHeld'
    BY <2>3 DEF UnloadDso, OldOnlyIfHeld
  <2>4. ASSUME NEW f \in File, Deploy(f) PROVE OldOnlyIfHeld'
    BY <2>4 DEF Deploy, OldOnlyIfHeld
  <2>5. ASSUME Listen \/ Stop PROVE OldOnlyIfHeld'
    BY <2>5 DEF Listen, Stop, RInv, Early, OldOnlyIfHeld
  <2>6. ASSUME UNCHANGED vars PROVE OldOnlyIfHeld'
    BY <2>6 DEF vars, OldOnlyIfHeld
  <2> QED BY <2>1, <2>2, <2>3, <2>4, <2>5, <2>6 DEF Next, Done
<1> QED BY <1>1, <1>2, RInvariance, PTL DEF Spec
=============================================================================
