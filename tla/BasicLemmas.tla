---------------------------- MODULE BasicLemmas ----------------------------
(***************************************************************************)
(* What the proofs of several modules need: induction over numbers and     *)
(* sequences, remainders (for a table that is probed in a ring), and       *)
(* subsequences.  (The library's induction theorems are about a predicate, *)
(* which the provers cannot instantiate; these are about a set: one of     *)
(* numbers has a least element, and one that is closed under successor     *)
(* holds them all.)                                                        *)
(***************************************************************************)
EXTENDS Integers, Subsequence, WellFoundedInduction, SequenceTheorems, TLAPS

LEMMA Least ==
  ASSUME NEW T \in SUBSET Nat, T # {}
  PROVE  \E m \in T : \A k \in T : m <= k
<1> DEFINE R == {ss \in Nat \X Nat : ss[1] < ss[2]}
<1>1. IsWellFoundedOn(R, Nat)
  BY NatLessThanWellFounded DEF OpToRel
<1>2. PICK m \in T : \A k \in T : ~(<<k, m>> \in R)
  BY <1>1, WFMin
<1>3. \A k \in T : <<k, m>> \in R <=> k < m
  OBVIOUS
<1>4. \A k \in T : ~(k < m)
  BY <1>2, <1>3
<1> HIDE DEF R
<1>5. \A k \in T : k \in Nat /\ m \in Nat
  OBVIOUS
<1>6. \A k \in T : m <= k
  BY <1>4, <1>5
<1> QED BY <1>6

LEMMA Induction ==
  ASSUME NEW T \in SUBSET Nat, 0 \in T, \A n \in T : n + 1 \in T
  PROVE  T = Nat
<1> SUFFICES ASSUME T # Nat PROVE FALSE
  OBVIOUS
<1>1. PICK m \in Nat \ T : \A k \in Nat \ T : m <= k
  BY Least
<1>2. m # 0 /\ m - 1 \in Nat /\ m - 1 \in T
  BY <1>1
<1> QED BY <1>1, <1>2

-----------------------------------------------------------------------------
(* Remainders *)

\* A multiple of c that is the difference of two remainders is zero.
LEMMA Below ==
  ASSUME NEW c \in Nat \ {0}, NEW q \in Int, NEW r \in 0 .. c - 1, NEW s \in 0 .. c - 1,
         c * q = r - s
  PROVE  r = s
<1>1. CASE q >= 1
  <2>1. c * q >= c
    BY <1>1
  <2> QED BY <2>1
<1>2. CASE q <= -1
  <2>1. c * q <= -c
    BY <1>2
  <2> QED BY <2>1
<1>3. CASE q = 0
  BY <1>3
<1> QED BY <1>1, <1>2, <1>3

\* What % and \div mean.
LEMMA Quotient == \A a \in Int, c \in Nat \ {0} : a = c * (a \div c) + (a % c)
OBVIOUS

LEMMA Division ==
  ASSUME NEW a \in Int, NEW c \in Nat \ {0}
  PROVE  a % c \in 0 .. c - 1 /\ \E q \in Int : a - c * q = a % c
<1>1. a % c \in 0 .. c - 1 /\ a \div c \in Int
  OBVIOUS
<1>2. \A x, y, z \in Int : x = y + z => x - y = z
  OBVIOUS
<1>3. c * (a \div c) \in Int /\ a % c \in Int
  BY <1>1
<1>4. a = c * (a \div c) + (a % c)
  BY Quotient, Zenon
<1>5. a - c * (a \div c) = a % c
  BY <1>2, <1>3, <1>4, Zenon
<1> QED BY <1>1, <1>5, Zenon

\* Products distribute over differences and stay integers.
LEMMA Times == \A c, p, q \in Int : c * (p - q) = c * p - c * q /\ c * p \in Int
OBVIOUS

\* The remainder is the only number in the range that differs from a by a
\* multiple of c.
LEMMA Remainder ==
  ASSUME NEW a \in Int, NEW c \in Nat \ {0}, NEW q \in Int, NEW r \in 0 .. c - 1,
         a - c * q = r
  PROVE  a % c = r
<1> DEFINE t == a % c
<1>1. PICK p \in Int : a - c * p = t
  BY Division, Zenon
<1>2. t \in 0 .. c - 1
  BY Division, Zenon
<1> HIDE DEF t
<1>3. c * (p - q) = c * p - c * q /\ c * p \in Int /\ c * q \in Int /\ p - q \in Int
  BY Times
<1>4. c * (p - q) = r - t
  BY <1>1, <1>2, <1>3
<1>5. r = t
  BY <1>2, <1>3, <1>4, Below, Zenon
<1> QED BY <1>5 DEF t

\* Walking once around a ring of c places, from h on, meets every place ...
LEMMA Around ==
  ASSUME NEW h \in Nat, NEW c \in Nat \ {0}, NEW i \in 0 .. c - 1
  PROVE  \E d \in 0 .. c - 1 : (h + d) % c = i
<1> DEFINE d == (i - h) % c
<1>1. i - h \in Int
  OBVIOUS
<1>2. d \in 0 .. c - 1
  BY <1>1, Division, Zenon
<1>3. PICK q \in Int : (i - h) - c * q = d
  BY <1>1, Division, Zenon
<1> HIDE DEF d
<1>4. c * (0 - q) = c * 0 - c * q /\ c * q \in Int /\ 0 - q \in Int /\ c * 0 = 0
  BY Times
<1>5. (h + d) - c * (0 - q) = i
  BY <1>2, <1>3, <1>4
<1>6. h + d \in Int
  BY <1>2
<1>7. (h + d) % c = i
  BY <1>4, <1>5, <1>6, Remainder, Zenon
<1> QED BY <1>2, <1>7

\* ... and none of them twice.
LEMMA OnlyOnce ==
  ASSUME NEW h \in Nat, NEW c \in Nat \ {0}, NEW d \in 0 .. c - 1, NEW e \in 0 .. c - 1,
         (h + d) % c = (h + e) % c
  PROVE  d = e
<1> DEFINE r == (h + d) % c
<1>1. h + d \in Int /\ h + e \in Int
  OBVIOUS
<1>2. r \in 0 .. c - 1
  BY <1>1, Division, Zenon
<1>3. PICK p \in Int : (h + d) - c * p = r
  BY <1>1, Division, Zenon
<1>4. PICK q \in Int : (h + e) - c * q = r
  <2>1. \E q \in Int : (h + e) - c * q = (h + e) % c
    BY <1>1, Division, Zenon
  <2> QED BY <2>1, Zenon
<1> HIDE DEF r
<1>5. c * (p - q) = c * p - c * q /\ c * p \in Int /\ c * q \in Int /\ p - q \in Int
  BY Times
<1>6. c * (p - q) = d - e
  BY <1>2, <1>3, <1>4, <1>5
<1> QED BY <1>5, <1>6, Below, Zenon

-----------------------------

LEMMA AppendConcat ==
  ASSUME NEW T, NEW s \in Seq(T), NEW t \in Seq(T), NEW x \in T
  PROVE  s \o Append(t, x) = Append(s \o t, x)
<1>1. <<x>> \in Seq(T) /\ s \o t \in Seq(T)
  BY ConcatProperties
<1>2. Append(t, x) = t \o <<x>> /\ Append(s \o t, x) = (s \o t) \o <<x>>
  BY <1>1, AppendIsConcat
<1> QED BY <1>1, <1>2, ConcatAssociative

------------------------------------------------
(* Sequences *)

\* A set of sequences that is closed under Append holds them all.
LEMMA SeqInduction ==
  ASSUME NEW T, NEW G \in SUBSET Seq(T), <<>> \in G,
         \A s \in G, x \in T : Append(s, x) \in G
  PROVE  G = Seq(T)
<1> DEFINE N == {n \in Nat : \A s \in Seq(T) : Len(s) = n => s \in G}
<1>1. 0 \in N
  BY EmptySeq
<1>2. ASSUME NEW n \in N PROVE n + 1 \in N
  <2> SUFFICES ASSUME NEW s \in Seq(T), Len(s) = n + 1 PROVE s \in G
    BY <1>2
  <2>1. s # <<>> /\ n \in Nat
    BY <1>2, EmptySeq
  <2>2. PICK t \in Seq(T), x \in T : s = Append(t, x)
    BY <2>1, SequenceEmptyOrAppend
  <2>3. Len(t) = n
    <3>1. Len(s) = Len(t) + 1 /\ Len(t) \in Nat
      BY <2>2, AppendProperties, LenProperties
    <3> QED BY <2>1, <3>1
  <2> QED BY <2>2, <2>3
<1>3. N = Nat
  <2> HIDE DEF N
  <2>1. N \in SUBSET Nat
    BY DEF N
  <2> QED BY <1>1, <1>2, <2>1, Induction
<1> QED BY <1>3, LenProperties

-----------------------------------------------------------------------------
(* Only: its recursive function, and what it computes *)

Chain(f, s, S, n) ==
  f = [i \in 0 .. n |-> IF i = 0 THEN <<>>
                        ELSE IF s[i] \in S THEN Append(f[i - 1], s[i]) ELSE f[i - 1]]

LEMMA ChainAt ==
  ASSUME NEW f, NEW s, NEW S, NEW n \in Nat, Chain(f, s, S, n), NEW i \in 1 .. n
  PROVE  f[i] = IF s[i] \in S THEN Append(f[i - 1], s[i]) ELSE f[i - 1]
<1>1. i \in 0 .. n /\ i # 0
  OBVIOUS
<1> QED BY <1>1, Zenon DEF Chain

LEMMA ChainExists == \A s, S, n : n \in Nat => \E f : Chain(f, s, S, n)
<1> SUFFICES ASSUME NEW s, NEW S PROVE \A n \in Nat : \E f : Chain(f, s, S, n)
  OBVIOUS
<1> DEFINE T == {n \in Nat : \E f : Chain(f, s, S, n)}
<1>1. 0 \in T
  <2>1. Chain([i \in 0 .. 0 |-> <<>>], s, S, 0)
    BY DEF Chain
  <2> QED BY <2>1
<1>2. ASSUME NEW n \in T PROVE n + 1 \in T
  <2>1. n \in Nat /\ n + 1 \in Nat
    BY <1>2
  <2>2. PICK f : Chain(f, s, S, n)
    BY <1>2
  <2> DEFINE m == n + 1
             x == IF s[m] \in S THEN Append(f[n], s[m]) ELSE f[n]
             g == [i \in 0 .. m |-> IF i = m THEN x ELSE f[i]]
             Rule(h, i) == IF i = 0 THEN <<>>
                           ELSE IF s[i] \in S THEN Append(h[i - 1], s[i]) ELSE h[i - 1]
  <2>3. ASSUME NEW i \in 0 .. m PROVE g[i] = Rule(g, i)
    <3>1. CASE i = m
      <4>1. g[i] = x /\ g[i - 1] = f[n] /\ i # 0
        BY <2>1, <3>1
      <4> QED BY <3>1, <4>1
    <3>2. CASE i # m
      <4>1. i \in 0 .. n /\ (i # 0 => i - 1 \in 0 .. n /\ i - 1 # m /\ i - 1 \in 0 .. m)
        BY <2>1, <3>2
      <4>2. f[i] = Rule(f, i)
        BY <2>2, <4>1 DEF Chain
      <4>3. g[i] = f[i] /\ (i # 0 => g[i - 1] = f[i - 1])
        BY <2>1, <3>2, <4>1
      <4> QED BY <4>2, <4>3
    <3> QED BY <3>1, <3>2
  <2>4. Chain(g, s, S, m)
    <3>1. g = [i \in 0 .. m |-> g[i]]
      OBVIOUS
    <3> HIDE DEF g
    <3> QED BY <2>3, <3>1 DEF Chain
  <2> QED BY <2>1, <2>4
<1>3. T = Nat
  BY <1>1, <1>2, Induction
<1> QED BY <1>3

LEMMA OnlyChain ==
  ASSUME NEW T, NEW s \in Seq(T), NEW S
  PROVE  \E f : Chain(f, s, S, Len(s)) /\ Only(s, S) = f[Len(s)]
<1>1. Len(s) \in Nat
  BY LenProperties
<1>2. \E f : Chain(f, s, S, Len(s))
  BY <1>1, ChainExists
<1> QED BY <1>2 DEF Chain, Only

LEMMA OnlyEmpty == \A S : Only(<<>>, S) = <<>>
<1> SUFFICES ASSUME NEW S PROVE Only(<<>>, S) = <<>>
  OBVIOUS
<1>1. PICK f : Chain(f, <<>>, S, Len(<<>>)) /\ Only(<<>>, S) = f[Len(<<>>)]
  BY EmptySeq, OnlyChain
<1> QED BY <1>1, EmptySeq DEF Chain

LEMMA OnlyAppend ==
  ASSUME NEW T, NEW s \in Seq(T), NEW x \in T, NEW S
  PROVE  Only(Append(s, x), S) = IF x \in S THEN Append(Only(s, S), x) ELSE Only(s, S)
<1> DEFINE u == Append(s, x)
           n == Len(s)
<1>1. /\ n \in Nat /\ n + 1 \in Nat /\ u \in Seq(T) /\ Len(u) = n + 1
      /\ \A i \in 1 .. n : u[i] = s[i]
      /\ u[n + 1] = x
  BY LenProperties, AppendProperties
<1> HIDE DEF u, n
<1>2. PICK f : Chain(f, s, S, n) /\ Only(s, S) = f[n]
  BY OnlyChain DEF n
<1>3. PICK g : Chain(g, u, S, n + 1) /\ Only(u, S) = g[n + 1]
  BY <1>1, OnlyChain
<1> DEFINE G == {i \in Nat : i <= n => f[i] = g[i]}
<1>4. 0 \in G
  BY <1>1, <1>2, <1>3 DEF Chain
<1>5. ASSUME NEW i \in G PROVE i + 1 \in G
  <2> DEFINE m == i + 1
  <2> SUFFICES ASSUME m <= n PROVE f[m] = g[m]
    OBVIOUS
  <2>1. i \in Nat /\ m \in 1 .. n /\ m \in 1 .. n + 1 /\ m - 1 = i /\ f[i] = g[i]
    BY <1>1
  <2> HIDE DEF m
  <2>2. f[m] = IF s[m] \in S THEN Append(f[m - 1], s[m]) ELSE f[m - 1]
    BY <1>1, <1>2, <2>1, ChainAt
  <2>3. g[m] = IF u[m] \in S THEN Append(g[m - 1], u[m]) ELSE g[m - 1]
    BY <1>1, <1>3, <2>1, ChainAt
  <2> QED BY <1>1, <2>1, <2>2, <2>3
<1>6. G = Nat
  <2> HIDE DEF G
  <2>1. G \in SUBSET Nat
    BY DEF G
  <2> QED BY <1>4, <1>5, <2>1, Induction
<1>7. f[n] = g[n]
  BY <1>1, <1>6
<1>8. g[n + 1] = IF u[n + 1] \in S THEN Append(g[(n + 1) - 1], u[n + 1]) ELSE g[(n + 1) - 1]
  <2>1. n + 1 \in 1 .. n + 1
    BY <1>1
  <2> QED BY <1>1, <1>3, <2>1, ChainAt
<1>9. (n + 1) - 1 = n
  BY <1>1
<1> QED BY <1>1, <1>2, <1>3, <1>7, <1>8, <1>9 DEF u

\* Its elements are elements of s.
LEMMA OnlyType ==
  ASSUME NEW T, NEW s \in Seq(T), NEW S
  PROVE  Only(s, S) \in Seq({s[n] : n \in DOMAIN s} \cap S)
<1> DEFINE R(t) == {t[n] : n \in DOMAIN t} \cap S
           G == {t \in Seq(T) : Only(t, S) \in Seq(R(t))}
<1>1. <<>> \in G
  BY OnlyEmpty, EmptySeq
<1>2. ASSUME NEW t \in G, NEW x \in T PROVE Append(t, x) \in G
  <2> DEFINE u == Append(t, x)
             o == Only(t, S)
  <2>1. /\ t \in Seq(T) /\ o \in Seq(R(t)) /\ u \in Seq(T) /\ Len(t) \in Nat
        /\ DOMAIN t = 1 .. Len(t) /\ DOMAIN u = 1 .. Len(t) + 1
        /\ u[Len(t) + 1] = x /\ \A i \in 1 .. Len(t) : u[i] = t[i]
    BY <1>2, LenProperties, AppendProperties
  <2>2. R(t) \subseteq R(u) /\ (x \in S => x \in R(u))
    BY <2>1
  <2>3. Only(u, S) = IF x \in S THEN Append(o, x) ELSE o
    BY <2>1, OnlyAppend
  <2> HIDE DEF o, u, R
  <2>4. o \in Seq(R(u))
    BY <2>1, <2>2, SeqMonotonic
  <2>5. Only(u, S) \in Seq(R(u))
    BY <2>2, <2>3, <2>4, AppendProperties
  <2> QED BY <2>1, <2>5 DEF u
<1>3. G = Seq(T)
  <2> HIDE DEF G
  <2>1. G \in SUBSET Seq(T)
    BY DEF G
  <2> QED BY <1>1, <1>2, <2>1, SeqInduction
<1> QED BY <1>3

LEMMA OnlyConcat ==
  ASSUME NEW T, NEW s \in Seq(T), NEW t \in Seq(T), NEW S
  PROVE  Only(s \o t, S) = Only(s, S) \o Only(t, S)
<1> DEFINE o == Only(s, S)
           G == {r \in Seq(T) : Only(s \o r, S) = o \o Only(r, S)}
           U == T \cup S
<1>1. \A r \in Seq(T) : Only(r, S) \in Seq(U)
  <2> SUFFICES ASSUME NEW r \in Seq(T) PROVE Only(r, S) \in Seq(U)
    OBVIOUS
  <2> DEFINE R == {r[n] : n \in DOMAIN r} \cap S
  <2>1. R \subseteq U
    OBVIOUS
  <2>2. Only(r, S) \in Seq(R)
    BY OnlyType
  <2> HIDE DEF U, R
  <2> QED BY <2>1, <2>2, SeqMonotonic
<1>2. <<>> \in G
  <2>1. s \o <<>> = s /\ o \o <<>> = o /\ Only(<<>>, S) = <<>>
    BY <1>1, ConcatEmptySeq, OnlyEmpty
  <2> QED BY <2>1, EmptySeq
<1>3. ASSUME NEW r \in G, NEW x \in T PROVE Append(r, x) \in G
  <2> DEFINE p == Only(r, S)
  <2>1. /\ r \in Seq(T) /\ Append(r, x) \in Seq(T) /\ s \o r \in Seq(T)
        /\ Only(s \o r, S) = o \o p
    BY <1>3, AppendProperties, ConcatProperties
  <2>2. s \o Append(r, x) = Append(s \o r, x)
    BY <2>1, AppendConcat
  <2>3. Only(s \o Append(r, x), S) = IF x \in S THEN Append(o \o p, x) ELSE o \o p
    <3> DEFINE w == s \o r
    <3>1. w \in Seq(T) /\ Only(w, S) = o \o p /\ s \o Append(r, x) = Append(w, x)
      BY <2>1, <2>2
    <3> HIDE DEF w
    <3>2. w \in Seq(T) /\ x \in T
      BY <1>3, <3>1
    <3>3. Only(Append(w, x), S) = IF x \in S THEN Append(Only(w, S), x) ELSE Only(w, S)
      BY ONLY <3>2, OnlyAppend
    <3> HIDE DEF o, p
    <3> QED BY ONLY <3>1, <3>3
  <2>4. Only(Append(r, x), S) = IF x \in S THEN Append(p, x) ELSE p
    BY <2>1, OnlyAppend
  <2>5. o \in Seq(U) /\ p \in Seq(U) /\ x \in U
    BY <1>1, <2>1
  <2> HIDE DEF o, p, U
  <2>6. o \o Append(p, x) = Append(o \o p, x)
    BY <2>5, AppendConcat
  <2>7. Only(s \o Append(r, x), S) = o \o Only(Append(r, x), S)
    BY <2>3, <2>4, <2>6
  <2> QED BY <2>1, <2>7 DEF o
<1>4. G = Seq(T)
  <2> HIDE DEF G
  <2>1. G \in SUBSET Seq(T)
    BY DEF G
  <2> QED BY <1>2, <1>3, <2>1, SeqInduction
<1> QED BY <1>4
=============================================================================
