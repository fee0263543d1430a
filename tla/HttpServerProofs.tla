-------------------------- MODULE HttpServerProofs --------------------------
(***************************************************************************)
(* Proofs about HttpServer: its types and safety properties, and that it   *)
(* implements Exchange, for any number of clients, requests and pieces.    *)
(*                                                                         *)
(* There are two inductive invariants.  IInv says of every client what the *)
(* list, the flags and the requests look like; it suffices for how         *)
(* requests are handled.  RInv rests on it and says which pieces of which  *)
(* replies a client that waits has received, or has in its send buffer, or *)
(* in the file that is being sent.                                         *)
(***************************************************************************)
EXTENDS HttpServer, SequenceTheorems, BasicLemmas

Visiting == {"visit", "http_cb", "write", "close"}
Node == Client \cup {Listener}

\* The list, and the walk along it: what the walk has still to do is on the
\* list, and the connections on the list are the open ones.
ListOK ==
  /\ argc \in {1, 2} /\ libdir \in BOOLEAN /\ running \in BOOLEAN /\ freeing \in BOOLEAN
  /\ pc \in {"start", "poll", "end", "crashed"} \cup Visiting
  /\ conns \in Seq(Node) /\ IsInjective(conns)
  /\ todo \in Seq(Node) /\ IsInjective(todo)
  /\ ToSet(todo) \subseteq ToSet(conns)
  /\ todo = <<>> <=> pc \notin Visiting
  /\ pc = "start" => conns = <<>>
  /\ Listener \in ToSet(conns) \/ freeing \/ pc \in {"start", "end", "crashed"}
  /\ peer \in [Client -> {"away", "backlog", "open", "closed"}]
  /\ \A c \in Client : peer[c] = "open" <=> c \in ToSet(conns)

\* The flags: apart from the end, only the connection that is being visited is
\* closing.
FlagsOK ==
  /\ readable \subseteq Node /\ writable \subseteq Node
  /\ closing \subseteq Node /\ draining \subseteq Client
  /\ freeing => ~running
  /\ pc \in {"start", "poll"} => ~freeing
  /\ pc = "close" => cur \in closing
  /\ pc = "http_cb" => cur \notin closing
  /\ pc \in {"http_cb", "write"} => cur # Listener
  /\ Listener \in closing => freeing
  /\ \A c \in closing : freeing \/ (pc \in {"write", "close"} /\ c = cur)

File == [req : Nat, left : 0 .. FileLen]
Handled == [req : Nat, body : {"whole", "cut", "swollen", "overlong", "endless"},
            how : {"read", "behind", "close"}]
Record == [recv : Seq(Fragment), send : Seq(Piece), size : Nat, file : {NoFile} \cup File]
Buffer(k) == k \in Record /\ Len(k.send) <= k.size
Connection(c) ==
  /\ Buffer(conn[c])
  /\ conn[c].file # NoFile => conn[c].file.req \in 1 .. Len(sent[c]) /\ conn[c].send # <<>>
  /\ peer[c] # "open" => conn[c] = Fresh /\ c \notin draining

Typed ==
  /\ conn \in [Client -> Record]
  /\ sent \in [Client -> Seq(Kind)] /\ inbox \in [Client -> Seq(Fragment)]
  /\ hup \in [Client -> BOOLEAN] /\ got \in [Client -> Seq(Piece)]
  /\ handled \in [Client -> Seq(Handled)]
  /\ lost \subseteq Client \X Nat

\* A stream of fragments in which the requests done + 1 .. n follow one
\* another, the last of them perhaps unfinished.
Starts(f) == f.part \in {"whole", "head", "loop", "front"}
Finishes(f) == f.part \in {"whole", "rest", "loop", "front"}
Orderly(s, done, n) ==
  /\ IF s = <<>> THEN done = n
     ELSE s[1].req = done + 1 /\ Starts(s[1]) /\ s[Len(s)].req = n
  /\ \A i \in 1 .. Len(s) : s[i].req \in 1 .. n
  /\ \A i \in 2 .. Len(s) : IF Starts(s[i]) THEN Finishes(s[i - 1]) /\ s[i].req = s[i - 1].req + 1
                            ELSE ~Finishes(s[i - 1]) /\ s[i].req = s[i - 1].req
Stream(c) == conn[c].recv \o inbox[c]

\* What was handled is 1, 2, ... and what is on its way comes next.
InOrder(c) ==
  /\ \A i \in 1 .. Len(handled[c]) : handled[c][i].req = i
  /\ Len(handled[c]) <= Len(sent[c])
  /\ peer[c] # "closed" => Orderly(Stream(c), Len(handled[c]), Len(sent[c]))

\* Why a connection is closed or drained, and what its last message looks like.
Justified(c) ==
  /\ c \in draining => \E j \in 1 .. Len(handled[c]) : KindOf(c, j) = "head"
  /\ c \in closing => \/ hup[c] \/ freeing \/ c \in draining
                      \/ Full(conn[c].recv) \/ Malformed(c, conn[c].recv)
  /\ \A i \in 1 .. Len(handled[c]) :
       handled[c][i].body \in {"cut", "swollen"} =>
         hup[c] \/ ~running \/ \E j \in 1 .. i - 1 : KindOf(c, j) = "head"

\* A file was opened by the last request, or by an earlier one behind which
\* the last was handled; and only then a request lies in the buffer.
AfterFile(c) == /\ handled[c] # <<>>
                /\ \/ KindOf(c, Len(handled[c])) = "file"
                   \/ Last(handled[c]).how = "behind"
Waiting(c) ==
  /\ conn[c].file # NoFile => AfterFile(c)
  /\ Complete(conn[c].recv) \/ Malformed(c, conn[c].recv) =>
       AfterFile(c) \/ c \in closing \/ (pc = "http_cb" /\ c = cur)

ClientOK(c) == Connection(c) /\ InOrder(c) /\ Justified(c) /\ Waiting(c)
IInv == ListOK /\ FlagsOK /\ Typed /\ \A c \in Client : ClientOK(c)

\* What a client is owed for the first requests it sent, and what of it is in
\* the send buffer or in the file that is being sent.  The two make up all that
\* is owed for what was handled, unless a request was handled behind a file.
First(ks, h) == Replies(SubSeq(ks, 1, h))
Coming(k) == k.send \o (IF k.file = NoFile THEN <<>> ELSE Body(k.file.req, k.file.left))
Behind(c) == \E i \in 1 .. Len(handled[c]) : handled[c][i].how = "behind"
Replied(c) == Behind(c) \/ IF peer[c] = "closed" THEN IsPrefix(got[c], Replies(sent[c]))
                           ELSE got[c] \o Coming(conn[c]) = First(sent[c], Len(handled[c]))

\* The files that are open were asked for; those nobody closes.
Opened(c) == conn[c].file # NoFile => conn[c].file.req <= Len(handled[c])
LostFor(l) == \E i \in 1 .. Len(handled[l[1]]) :
  \/ handled[l[1]][i].how = "behind" /\ handled[l[1]][i].req > l[2]
  \/ handled[l[1]][i].how = "close" /\ handled[l[1]][i].req = l[2]
  \/ handled[l[1]][i].body = "endless" /\ handled[l[1]][i].req = l[2]

\* A client that waits has at most one request on its way, and then nothing
\* is on its way back; its connection is drained after a HEAD, and closed when
\* that reply is out, when it hung up or at the end.
Quiet(c) ==
  /\ \A i \in 1 .. Len(sent[c]) : sent[c][i] # "bad"
  /\ \A i \in 1 .. Len(handled[c]) : handled[c][i].how = "read" /\ handled[c][i].body # "endless"
  /\ peer[c] # "closed" /\ Stream(c) # <<>> =>
       Len(Stream(c)) = 1 /\ Stream(c)[1].part = "whole" /\ conn[c].send = <<>>
  /\ conn[c].recv # <<>> => pc = "http_cb" /\ cur = c
  /\ c \in draining => /\ handled[c] # <<>> /\ KindOf(c, Len(handled[c])) = "head"
                       /\ c \in closing \/ conn[c].send # <<>>
  /\ c \in closing => hup[c] \/ freeing \/ (c \in draining /\ conn[c].send = <<>>)

ReplyOK(c) == Replied(c) /\ Opened(c) /\ (c \in Patient => Quiet(c))
RInv == (\A c \in Client : ReplyOK(c)) /\ (\A l \in lost : LostFor(l))

-----------------------------------------------------------------------------
(* Sequences: the list of connections and the walk *)

\* The first n elements of a sequence, and the others.
LEMMA Taken ==
  ASSUME NEW S, NEW s \in Seq(S), NEW n \in 0 .. Len(s)
  PROVE  /\ SubSeq(s, 1, n) \in Seq(S) /\ Len(SubSeq(s, 1, n)) = n
         /\ \A j \in 1 .. n : SubSeq(s, 1, n)[j] = s[j]
<1>1. Len(s) \in Nat /\ \A j \in 1 .. n : s[j] \in S
  BY LenProperties, ElementOfSeq
<1> QED BY <1>1, SubSeqProperties

LEMMA Dropped ==
  ASSUME NEW S, NEW s \in Seq(S), NEW n \in 0 .. Len(s)
  PROVE  /\ SubSeq(s, n + 1, Len(s)) \in Seq(S) /\ Len(SubSeq(s, n + 1, Len(s))) = Len(s) - n
         /\ \A j \in 1 .. Len(s) - n : SubSeq(s, n + 1, Len(s))[j] = s[j + n]
<1> DEFINE m == n + 1
<1>1. Len(s) \in Nat /\ m \in Int /\ n \in Nat /\ \A j \in m .. Len(s) : s[j] \in S
  BY LenProperties, ElementOfSeq
<1>2. /\ SubSeq(s, m, Len(s)) \in Seq(S)
      /\ Len(SubSeq(s, m, Len(s))) = IF m <= Len(s) THEN Len(s) - m + 1 ELSE 0
      /\ \A j \in 1 .. Len(s) - m + 1 : SubSeq(s, m, Len(s))[j] = s[m + j - 1]
  <2> HIDE DEF m
  <2> QED BY <1>1, SubSeqProperties
<1> DEFINE r == SubSeq(s, m, Len(s))
<1>3. r \in Seq(S) /\ Len(r) = Len(s) - n /\ \A j \in 1 .. Len(s) - n : r[j] = s[j + n]
  <2> HIDE DEF r
  <2>1. Len(r) = IF m <= Len(s) THEN Len(s) - m + 1 ELSE 0
    BY <1>2 DEF r
  <2>2. \A j \in 1 .. Len(s) - m + 1 : r[j] = s[m + j - 1]
    BY <1>2 DEF r
  <2>3. Len(s) - m + 1 = Len(s) - n /\ \A j \in 1 .. Len(s) - n : m + j - 1 = j + n
    BY <1>1
  <2>4. r \in Seq(S)
    BY <1>2 DEF r
  <2>5. Len(r) = Len(s) - n
    BY <1>1, <2>1
  <2> QED BY <2>2, <2>3, <2>4, <2>5
<1> QED BY <1>3

LEMMA Removed ==
  ASSUME NEW S, NEW s \in Seq(S), IsInjective(s), NEW x \in ToSet(s)
  PROVE  /\ RemoveFirst(s, x) \in Seq(S) /\ IsInjective(RemoveFirst(s, x))
         /\ ToSet(RemoveFirst(s, x)) = ToSet(s) \ {x}
<1> DEFINE r == RemoveFirst(s, x)
<1>1. /\ Len(s) \in Nat /\ DOMAIN s = 1 .. Len(s)
      /\ \A j \in 1 .. Len(s) : s[j] \in S
  BY LenProperties, ElementOfSeq
<1>2. PICK i \in 1 .. Len(s) : s[i] = x
  BY <1>1 DEF ToSet
<1>3. \A j \in 1 .. Len(s) : s[j] = x <=> j = i
  BY <1>1, <1>2 DEF IsInjective
<1>4. {j \in 1 .. Len(s) : s[j] = x} = {i}
  BY <1>3
<1>5. SelectInSeq(s, LAMBDA v : v = x) = i
  BY <1>4 DEF SelectInSeq, Min
<1>6. r = SubSeq(s, 1, i - 1) \o SubSeq(s, i + 1, Len(s))
  BY <1>2, <1>5 DEF RemoveFirst, RemoveAt
<1> DEFINE a == SubSeq(s, 1, i - 1)
           b == SubSeq(s, i + 1, Len(s))
<1>7. i - 1 \in 0 .. Len(s) /\ i \in 0 .. Len(s)
  BY <1>1
<1>8. /\ a \in Seq(S) /\ Len(a) = i - 1 /\ \A j \in 1 .. i - 1 : a[j] = s[j]
      /\ b \in Seq(S) /\ Len(b) = Len(s) - i /\ \A j \in 1 .. Len(s) - i : b[j] = s[j + i]
  BY <1>7, Taken, Dropped
<1>9. /\ r \in Seq(S) /\ Len(r) = Len(s) - 1
      /\ \A j \in 1 .. Len(s) - 1 : r[j] = IF j <= i - 1 THEN a[j] ELSE b[j - (i - 1)]
  <2> HIDE DEF a, b
  <2>1. r = a \o b
    BY <1>6 DEF a, b
  <2>2. Len(a) + Len(b) = Len(s) - 1
    BY <1>1, <1>8
  <2>3. /\ a \o b \in Seq(S) /\ Len(a \o b) = Len(a) + Len(b)
        /\ \A j \in 1 .. Len(a) + Len(b) :
             (a \o b)[j] = IF j <= Len(a) THEN a[j] ELSE b[j - Len(a)]
    BY <1>8, ConcatProperties
  <2> HIDE DEF r
  <2> QED BY <1>8, <2>1, <2>2, <2>3
<1>10. \A j \in 1 .. Len(s) - 1 : r[j] = IF j < i THEN s[j] ELSE s[j + 1]
  <2> SUFFICES ASSUME NEW j \in 1 .. Len(s) - 1 PROVE r[j] = IF j < i THEN s[j] ELSE s[j + 1]
    OBVIOUS
  <2> HIDE DEF a, b, r
  <2>1. CASE j < i
    <3>1. j <= i - 1 /\ j \in 1 .. i - 1
      BY <2>1, <1>1
    <3> QED BY <2>1, <3>1, <1>8, <1>9
  <2>2. CASE ~(j < i)
    <3> DEFINE d == j - (i - 1)
    <3>1. ~(j <= i - 1) /\ d \in 1 .. Len(s) - i /\ d + i = j + 1
      BY <2>2, <1>1
    <3>2. r[j] = b[d]
      BY <3>1, <1>9
    <3> HIDE DEF d
    <3>3. b[d] = s[d + i]
      BY <3>1, <1>8
    <3> QED BY <2>2, <3>1, <3>2, <3>3
  <2> QED BY <2>1, <2>2
<1>11. DOMAIN r = 1 .. Len(s) - 1
  BY <1>9, LenProperties
<1>12. IsInjective(r)
  <2>1. \A j, m \in 1 .. Len(s) : s[j] = s[m] => j = m
    BY <1>1 DEF IsInjective
  <2> HIDE DEF r
  <2> SUFFICES ASSUME NEW j \in 1 .. Len(s) - 1, NEW m \in 1 .. Len(s) - 1, r[j] = r[m]
               PROVE  j = m
    BY <1>11 DEF IsInjective
  <2> DEFINE h == IF j < i THEN j ELSE j + 1
             k == IF m < i THEN m ELSE m + 1
  <2>2. r[j] = s[h] /\ r[m] = s[k]
    BY <1>10
  <2>3. h \in 1 .. Len(s) /\ k \in 1 .. Len(s)
    BY <1>1
  <2>4. h = k => j = m
    BY <1>1
  <2> HIDE DEF h, k
  <2> QED BY <2>1, <2>2, <2>3, <2>4
<1>13. ToSet(r) = ToSet(s) \ {x}
  <2>1. ASSUME NEW j \in 1 .. Len(s) - 1 PROVE r[j] \in ToSet(s) \ {x}
    BY <2>1, <1>1, <1>3, <1>10 DEF ToSet
  <2>2. ASSUME NEW j \in 1 .. Len(s), j # i PROVE s[j] \in ToSet(r)
    <3>1. CASE j < i
      BY <2>2, <3>1, <1>1, <1>10, <1>11 DEF ToSet
    <3>2. CASE j > i
      <4>1. j - 1 \in 1 .. Len(s) - 1 /\ r[j - 1] = s[j]
        BY <2>2, <3>2, <1>1, <1>10
      <4> QED BY <4>1, <1>11 DEF ToSet
    <3> QED BY <2>2, <3>1, <3>2
  <2> QED BY <1>1, <1>2, <1>11, <2>1, <2>2 DEF ToSet
<1> QED BY <1>9, <1>12, <1>13

LEMMA Walked ==
  ASSUME NEW S, NEW s \in Seq(S), s # <<>>, IsInjective(s)
  PROVE  /\ Head(s) \in S /\ Head(s) \in ToSet(s)
         /\ Tail(s) \in Seq(S) /\ IsInjective(Tail(s))
         /\ ToSet(Tail(s)) = ToSet(s) \ {Head(s)}
<1>1. /\ Len(s) \in Nat \ {0} /\ DOMAIN s = 1 .. Len(s)
  BY EmptySeq, LenProperties
<1>2. /\ Head(s) \in S /\ Tail(s) \in Seq(S) /\ Len(Tail(s)) = Len(s) - 1
      /\ \A i \in 1 .. Len(Tail(s)) : Tail(s)[i] = s[i + 1]
      /\ Head(s) = s[1]
  BY HeadTailProperties
<1>3. DOMAIN Tail(s) = 1 .. Len(s) - 1
  BY <1>2, LenProperties
<1>4. IsInjective(Tail(s))
  BY <1>1, <1>2, <1>3 DEF IsInjective
<1>5. ASSUME NEW i \in 1 .. Len(s) - 1 PROVE Tail(s)[i] \in ToSet(s) \ {Head(s)}
  BY <1>1, <1>2 DEF ToSet, IsInjective
<1>6. ASSUME NEW i \in 1 .. Len(s), i # 1 PROVE s[i] \in ToSet(Tail(s))
  <2>1. i - 1 \in 1 .. Len(s) - 1 /\ Tail(s)[i - 1] = s[i]
    BY <1>1, <1>2, <1>6
  <2> QED BY <2>1, <1>3 DEF ToSet
<1> QED BY <1>1, <1>2, <1>3, <1>4, <1>5, <1>6 DEF ToSet

LEMMA Prepended ==
  ASSUME NEW S, NEW s \in Seq(S), IsInjective(s), NEW x \in S, x \notin ToSet(s)
  PROVE  /\ <<x>> \o s \in Seq(S) /\ IsInjective(<<x>> \o s)
         /\ ToSet(<<x>> \o s) = ToSet(s) \cup {x}
<1> DEFINE r == <<x>> \o s
<1>1. Len(s) \in Nat /\ DOMAIN s = 1 .. Len(s)
  BY LenProperties
<1>2. /\ r \in Seq(S) /\ Len(r) = Len(s) + 1
      /\ \A i \in 1 .. Len(s) + 1 : r[i] = IF i = 1 THEN x ELSE s[i - 1]
  BY <1>1, ConcatProperties
<1>3. DOMAIN r = 1 .. Len(s) + 1
  BY <1>2, LenProperties
<1>4. IsInjective(r)
  <2>1. \A i \in 1 .. Len(s) : s[i] # x
    BY <1>1 DEF ToSet
  <2>2. \A i, j \in 1 .. Len(s) : s[i] = s[j] => i = j
    BY <1>1 DEF IsInjective
  <2> SUFFICES ASSUME NEW i \in 1 .. Len(s) + 1, NEW j \in 1 .. Len(s) + 1, r[i] = r[j]
               PROVE  i = j
    BY <1>3 DEF IsInjective
  <2> DEFINE h == i - 1
             k == j - 1
  <2>3. (i = 1 \/ h \in 1 .. Len(s)) /\ (j = 1 \/ k \in 1 .. Len(s))
    BY <1>1
  <2>4. r[i] = (IF i = 1 THEN x ELSE s[h]) /\ r[j] = (IF j = 1 THEN x ELSE s[k])
    BY <1>2
  <2>5. i = j <=> h = k
    OBVIOUS
  <2> HIDE DEF r, h, k
  <2> QED BY <2>1, <2>2, <2>3, <2>4, <2>5
<1>5. ASSUME NEW i \in 1 .. Len(s) PROVE s[i] \in ToSet(r)
  <2>1. i + 1 \in 1 .. Len(s) + 1 /\ r[i + 1] = s[i]
    BY <1>1, <1>2
  <2> QED BY <2>1, <1>3 DEF ToSet
<1>6. x \in ToSet(r)
  <2>1. 1 \in 1 .. Len(s) + 1 /\ r[1] = x
    BY <1>1, <1>2
  <2> QED BY <2>1, <1>3 DEF ToSet
<1>7. ASSUME NEW i \in 1 .. Len(s) + 1 PROVE r[i] \in ToSet(s) \cup {x}
  <2>1. i = 1 \/ i - 1 \in 1 .. Len(s)
    BY <1>1
  <2> QED BY <1>1, <1>2, <2>1 DEF ToSet
<1> HIDE DEF r
<1>8. ToSet(r) = ToSet(s) \cup {x}
  BY <1>1, <1>3, <1>5, <1>6, <1>7 DEF ToSet
<1> QED BY <1>2, <1>4, <1>8 DEF r

LEMMA Alone == \A x : IsInjective(<<x>>) /\ ToSet(<<x>>) = {x}
BY DEF IsInjective, ToSet

LEMMA Nobody == IsInjective(<<>>) /\ ToSet(<<>>) = {}
BY DEF IsInjective, ToSet

LEMMA Empties ==
  ASSUME NEW S, NEW s \in Seq(S)
  PROVE  Len(s) \in Nat /\ (s = <<>> <=> Len(s) = 0)
BY EmptySeq, LenProperties

LEMMA EmptyIsSuffix == ASSUME NEW S, NEW s \in Seq(S) PROVE IsSuffix(<<>>, s)
<1>1. Reverse(s) \in [1 .. Len(s) -> S] /\ Len(s) \in Nat /\ Reverse(<<>>) = <<>>
  BY LenProperties, ElementOfSeq DEF Reverse
<1>2. Reverse(s) \in Seq(S)
  BY <1>1
<1>3. Len(<<>>) = 0 /\ Len(Reverse(s)) \in Nat
  BY <1>2, LenProperties
<1> QED BY <1>1, <1>2, <1>3, SubSeqEmpty DEF IsSuffix, IsPrefix

-----------------------------------------------------------------------------
(* Streams of fragments *)

\* A new request comes after a finished one.
LEMMA OrderlyNew ==
  ASSUME NEW s \in Seq(Fragment), NEW d \in Nat, NEW n \in Nat, Orderly(s, d, n),
         s # <<>> => Finishes(Last(s)), NEW p \in Part \ {"rest", "more"}
  PROVE  Orderly(Append(s, [req |-> n + 1, part |-> p]), d, n + 1)
<1> DEFINE f == [req |-> n + 1, part |-> p]
           r == Append(s, f)
<1>1. f \in Fragment /\ f.req = n + 1 /\ Starts(f)
  BY DEF Fragment, Part, Starts
<1> HIDE DEF f
<1>2. /\ Len(s) \in Nat /\ Len(r) = Len(s) + 1 /\ r # <<>> /\ r[Len(s) + 1] = f
      /\ \A i \in 1 .. Len(s) : r[i] = s[i]
      /\ s # <<>> => Len(s) >= 1
      /\ s = <<>> => Len(s) = 0
  BY <1>1, AppendProperties, LenProperties, EmptySeq
<1> HIDE DEF r
<1>3. r[1].req = d + 1 /\ Starts(r[1]) /\ r[Len(r)].req = n + 1
  BY <1>1, <1>2 DEF Orderly
<1>4. \A i \in 1 .. Len(r) : r[i].req \in 1 .. n + 1
  BY <1>1, <1>2 DEF Orderly
<1>5. ASSUME NEW i \in 2 .. Len(r)
      PROVE  IF Starts(r[i]) THEN Finishes(r[i - 1]) /\ r[i].req = r[i - 1].req + 1
             ELSE ~Finishes(r[i - 1]) /\ r[i].req = r[i - 1].req
  <2>1. CASE i \in 2 .. Len(s)
    <3>1. r[i] = s[i] /\ r[i - 1] = s[i - 1]
      BY <2>1, <1>2
    <3> QED BY <2>1, <3>1 DEF Orderly
  <2>2. CASE i = Len(s) + 1
    <3>1. r[i] = f /\ r[i - 1] = s[Len(s)] /\ s # <<>>
      BY <2>2, <1>2
    <3> QED BY <3>1, <1>1 DEF Orderly, Last
  <2> QED BY <1>2, <2>1, <2>2
<1>6. Orderly(r, d, n + 1)
  BY <1>2, <1>3, <1>4, <1>5 DEF Orderly
<1> QED BY <1>6 DEF r, f

\* A body comes after its header.
LEMMA OrderlyMore ==
  ASSUME NEW s \in Seq(Fragment), NEW d \in Nat, NEW n \in Nat, Orderly(s, d, n),
         s # <<>>, ~Finishes(Last(s)), NEW p \in {"rest", "more"}
  PROVE  Orderly(Append(s, [req |-> n, part |-> p]), d, n)
<1> DEFINE f == [req |-> n, part |-> p]
           r == Append(s, f)
<1>1. f \in Fragment /\ f.req = n /\ ~Starts(f)
  BY DEF Fragment, Part, Starts
<1> HIDE DEF f
<1>2. /\ Len(s) \in Nat /\ Len(r) = Len(s) + 1 /\ r # <<>> /\ r[Len(s) + 1] = f
      /\ \A i \in 1 .. Len(s) : r[i] = s[i]
      /\ Len(s) >= 1
  BY <1>1, AppendProperties, LenProperties, EmptySeq
<1> HIDE DEF r
<1>3. /\ r[1].req = d + 1 /\ Starts(r[1]) /\ r[Len(r)].req = n
      /\ n >= 1
  BY <1>1, <1>2 DEF Orderly
<1>4. \A i \in 1 .. Len(r) : r[i].req \in 1 .. n
  BY <1>1, <1>2, <1>3 DEF Orderly
<1>5. ASSUME NEW i \in 2 .. Len(r)
      PROVE  IF Starts(r[i]) THEN Finishes(r[i - 1]) /\ r[i].req = r[i - 1].req + 1
             ELSE ~Finishes(r[i - 1]) /\ r[i].req = r[i - 1].req
  <2>1. CASE i \in 2 .. Len(s)
    <3>1. r[i] = s[i] /\ r[i - 1] = s[i - 1]
      BY <2>1, <1>2
    <3> QED BY <2>1, <3>1 DEF Orderly
  <2>2. CASE i = Len(s) + 1
    <3>1. r[i] = f /\ r[i - 1] = s[Len(s)]
      BY <2>2, <1>2
    <3> QED BY <3>1, <1>1 DEF Orderly, Last
  <2> QED BY <1>2, <2>1, <2>2
<1>6. Orderly(r, d, n)
  BY <1>2, <1>3, <1>4, <1>5 DEF Orderly
<1> QED BY <1>6 DEF r, f

\* The first message is taken away.
LEMMA OrderlyRest ==
  ASSUME NEW s \in Seq(Fragment), NEW d \in Nat, NEW n \in Nat, Orderly(s, d, n),
         NEW k \in 1 .. Len(s), s[k].req = d + 1,
         k < Len(s) => Starts(s[k + 1])
  PROVE  Orderly(SubSeq(s, k + 1, Len(s)), d + 1, n) /\ d + 1 <= n
<1> DEFINE r == SubSeq(s, k + 1, Len(s))
<1>1. Len(s) \in Nat /\ s # <<>> /\ k \in 0 .. Len(s) /\ k \in Nat
  BY LenProperties, EmptySeq
<1>2. /\ r \in Seq(Fragment) /\ Len(r) = Len(s) - k
      /\ \A j \in 1 .. Len(s) - k : r[j] = s[j + k]
  BY <1>1, Dropped
<1>3. Len(r) \in Nat /\ (r = <<>> <=> Len(r) = 0)
  BY <1>2, Empties
<1> HIDE DEF r
<1>4. \A i \in 1 .. Len(r) : r[i].req \in 1 .. n
  BY <1>1, <1>2 DEF Orderly
<1>5. s[Len(s)].req = n /\ d + 1 \in 1 .. n
  BY <1>1 DEF Orderly
<1>6. CASE r = <<>>
  <2>1. k = Len(s) /\ d + 1 = n
    BY <1>1, <1>2, <1>3, <1>5, <1>6
  <2>2. Orderly(r, d + 1, n)
    BY <2>1, <1>3, <1>6, <1>4 DEF Orderly
  <2> QED BY <2>2, <1>5 DEF r
<1>7. CASE r # <<>>
  <2> DEFINE e == Len(r)
  <2>0. e \in Nat /\ e >= 1 /\ e = Len(s) - k /\ e + k = Len(s)
    BY <1>1, <1>2, <1>3, <1>7
  <2>1. k < Len(s) /\ r[1] = s[k + 1] /\ r[e] = s[Len(s)] /\ k + 1 \in 2 .. Len(s)
    <3> HIDE DEF e
    <3>1. 1 \in 1 .. Len(s) - k /\ e \in 1 .. Len(s) - k /\ 1 + k = k + 1 /\ k + 1 \in 2 .. Len(s)
      BY <1>1, <2>0
    <3>2. r[1] = s[1 + k] /\ r[e] = s[e + k]
      BY <3>1, <1>2
    <3> QED BY <1>1, <2>0, <3>1, <3>2
  <2>2. Starts(r[1]) /\ r[1].req = d + 2 /\ r[Len(r)].req = n
    <3>1. s[k + 1].req = s[(k + 1) - 1].req + 1
      BY <2>1 DEF Orderly
    <3>2. (k + 1) - 1 = k /\ d + 1 + 1 = d + 2
      BY <1>1
    <3> QED BY <2>1, <3>1, <3>2, <1>5
  <2>3. ASSUME NEW i \in 2 .. Len(r)
        PROVE  IF Starts(r[i]) THEN Finishes(r[i - 1]) /\ r[i].req = r[i - 1].req + 1
               ELSE ~Finishes(r[i - 1]) /\ r[i].req = r[i - 1].req
    <3>1. /\ i \in 1 .. Len(s) - k /\ i - 1 \in 1 .. Len(s) - k
          /\ (i - 1) + k = (i + k) - 1 /\ i + k \in 2 .. Len(s)
      BY <1>1, <1>2
    <3>2. r[i] = s[i + k] /\ r[i - 1] = s[(i + k) - 1]
      BY <3>1, <1>2
    <3> QED BY <3>1, <3>2 DEF Orderly
  <2>4. (d + 1) + 1 = d + 2
    OBVIOUS
  <2>5. Orderly(r, d + 1, n)
    BY <1>4, <1>7, <2>2, <2>3, <2>4 DEF Orderly
  <2> QED BY <2>5, <1>5 DEF r
<1> QED BY <1>6, <1>7

LEMMA Divided ==
  ASSUME NEW S, NEW b \in Seq(S), NEW n \in 1 .. Len(b)
  PROVE  SubSeq(b, 1, n) \o SubSeq(b, n + 1, Len(b)) = b
<1>1. Len(b) \in Nat
  BY LenProperties
<1>2. SubSeq(b, 1, n) \o SubSeq(b, n + 1, Len(b)) = SubSeq(b, 1, Len(b))
  <2>1. 1 \in 1 .. Len(b) + 1 /\ n \in 1 - 1 .. Len(b) /\ Len(b) \in n .. Len(b)
    BY <1>1
  <2> QED BY <2>1, ConcatAdjacentSubSeq
<1>3. SubSeq(b, 1, Len(b)) = b
  BY SubSeqFull
<1> QED BY <1>2, <1>3

\* Fragments move from the network into the receive buffer.
Transfer(a, b, n, S) ==
  /\ a \o SubSeq(b, 1, n) \in Seq(S) /\ SubSeq(b, n + 1, Len(b)) \in Seq(S)
  /\ (a \o SubSeq(b, 1, n)) \o SubSeq(b, n + 1, Len(b)) = a \o b

LEMMA Moved ==
  ASSUME NEW S, NEW a \in Seq(S), NEW b \in Seq(S), NEW n \in 1 .. Len(b)
  PROVE  Transfer(a, b, n, S)
<1>1. Len(b) \in Nat /\ n \in 0 .. Len(b)
  BY LenProperties
<1>2. SubSeq(b, 1, n) \in Seq(S) /\ SubSeq(b, n + 1, Len(b)) \in Seq(S)
  BY <1>1, Taken, Dropped
<1>3. SubSeq(b, 1, n) \o SubSeq(b, n + 1, Len(b)) = b
  BY Divided
<1> DEFINE t == SubSeq(b, 1, n)
           u == SubSeq(b, n + 1, Len(b))
<1>5. t \in Seq(S) /\ u \in Seq(S) /\ t \o u = b
  BY <1>2, <1>3
<1>6. a \o t \in Seq(S) /\ u \in Seq(S) /\ (a \o t) \o u = a \o b
  <2> HIDE DEF t, u
  <2>1. a \o t \in Seq(S)
    BY <1>5, ConcatProperties
  <2>2. (a \o t) \o u = a \o (t \o u)
    <3>1. t \in Seq(S) /\ u \in Seq(S)
      BY <1>5
    <3> QED BY <3>1
  <2> QED BY <1>5, <2>1, <2>2
<1> QED BY <1>6 DEF Transfer, t, u

LEMMA Arrived ==
  ASSUME NEW S, NEW a \in Seq(S), NEW b \in Seq(S), NEW x \in S
  PROVE  a \o Append(b, x) = Append(a \o b, x)
<1>1. Append(b, x) = b \o <<x>> /\ <<x>> \in Seq(S) /\ a \o b \in Seq(S)
  BY AppendIsConcat, ConcatProperties
<1> QED BY <1>1, AppendIsConcat, ConcatAssociative

LEMMA Consumed ==
  ASSUME NEW S, NEW a \in Seq(S), NEW b \in Seq(S), NEW k \in 0 .. Len(a)
  PROVE  SubSeq(a, k + 1, Len(a)) \o b = SubSeq(a \o b, k + 1, Len(a \o b))
<1> DEFINE t == SubSeq(a, k + 1, Len(a))
           u == a \o b
           r == SubSeq(u, k + 1, Len(u))
<1>1. Len(a) \in Nat /\ Len(b) \in Nat
  BY LenProperties
<1>2. t \in Seq(S) /\ Len(t) = Len(a) - k /\ \A j \in 1 .. Len(a) - k : t[j] = a[j + k]
  BY Dropped
<1>3. /\ u \in Seq(S) /\ Len(u) = Len(a) + Len(b)
      /\ \A j \in 1 .. Len(a) + Len(b) : u[j] = IF j <= Len(a) THEN a[j] ELSE b[j - Len(a)]
  BY ConcatProperties
<1>4. r \in Seq(S) /\ Len(r) = Len(u) - k /\ \A j \in 1 .. Len(u) - k : r[j] = u[j + k]
  <2> HIDE DEF u
  <2>1. k \in 0 .. Len(u)
    BY <1>1, <1>3
  <2> QED BY <1>3, <2>1, Dropped
<1> HIDE DEF t, u, r
<1>5. /\ t \o b \in Seq(S) /\ Len(t \o b) = Len(t) + Len(b)
      /\ \A j \in 1 .. Len(t) + Len(b) : (t \o b)[j] = IF j <= Len(t) THEN t[j] ELSE b[j - Len(t)]
  BY <1>2, ConcatProperties
<1>6. ASSUME NEW j \in 1 .. Len(t) + Len(b) PROVE (t \o b)[j] = r[j]
  <2>1. CASE j <= Len(t)
    <3>1. j + k \in 1 .. Len(a) + Len(b) /\ j + k <= Len(a) /\ j \in 1 .. Len(u) - k /\ j \in 1 .. Len(a) - k
      BY <2>1, <1>1, <1>2, <1>3
    <3> QED BY <2>1, <3>1, <1>2, <1>3, <1>4, <1>5
  <2>2. CASE ~(j <= Len(t))
    <3>1. /\ j + k \in 1 .. Len(a) + Len(b) /\ ~(j + k <= Len(a)) /\ j \in 1 .. Len(u) - k
          /\ j + k - Len(a) = j - Len(t)
      BY <2>2, <1>1, <1>2, <1>3
    <3>2. r[j] = u[j + k] /\ u[j + k] = b[j + k - Len(a)]
      BY <3>1, <1>3, <1>4
    <3>3. (t \o b)[j] = b[j - Len(t)]
      BY <2>2, <1>5
    <3> QED BY <3>1, <3>2, <3>3
  <2> QED BY <2>1, <2>2
<1>7. Len(t) + Len(b) = Len(u) - k
  BY <1>1, <1>2, <1>3
<1>8. t \o b = r
  <2> DEFINE v == t \o b
  <2>1. v \in Seq(S) /\ r \in Seq(S) /\ Len(v) = Len(r) /\ \A j \in 1 .. Len(v) : v[j] = r[j]
    BY <1>4, <1>5, <1>6, <1>7
  <2> HIDE DEF v
  <2>2. v = r
    BY <2>1, SeqEqual
  <2> QED BY <2>2 DEF v
<1> QED BY <1>8 DEF t, u, r

-----------------------------------------------------------------------------
(* Buffers: what static_cb and mg_send leave on a connection *)

LEMMA BodyPieces ==
  ASSUME NEW n \in Nat, NEW a \in Nat, NEW b \in Nat
  PROVE  /\ Body(n, a) \in Seq(Piece) /\ Len(Body(n, a)) = a
         /\ Body(n, a) \o Body(n, b) = Body(n, a + b)
         /\ Body(n, 0) = <<>>
<1> DEFINE f == [req |-> n, part |-> "body"]
<1>1. f \in Piece
  BY DEF Piece
<1> HIDE DEF f
<1>2. \A m \in Nat : /\ Body(n, m) \in Seq(Piece) /\ Len(Body(n, m)) = m
                     /\ \A i \in 1 .. m : Body(n, m)[i] = f
  <2> TAKE m \in Nat
  <2>1. Body(n, m) = [i \in 1 .. m |-> f]
    BY DEF Body, f
  <2> QED BY <1>1, <2>1
<1>3. Body(n, 0) = <<>>
  BY <1>2, Empties
<1>4. a + b \in Nat
  OBVIOUS
<1> DEFINE x == Body(n, a)
           y == Body(n, b)
           z == Body(n, a + b)
<1>5. /\ x \in Seq(Piece) /\ Len(x) = a /\ \A i \in 1 .. a : x[i] = f
      /\ y \in Seq(Piece) /\ Len(y) = b /\ \A i \in 1 .. b : y[i] = f
      /\ z \in Seq(Piece) /\ Len(z) = a + b /\ \A i \in 1 .. a + b : z[i] = f
  BY <1>2, <1>4
<1> DEFINE c == x \o y
<1>6. c = z
  <2> HIDE DEF x, y, z
  <2>1. /\ c \in Seq(Piece) /\ Len(c) = a + b
        /\ \A i \in 1 .. a + b : c[i] = IF i <= a THEN x[i] ELSE y[i - a]
    BY <1>5, ConcatProperties
  <2>2. \A i \in 1 .. a + b : c[i] = z[i]
    BY <1>5, <2>1
  <2> HIDE DEF c
  <2> QED BY <1>5, <2>1, <2>2, SeqEqual
<1> QED BY <1>3, <1>5, <1>6

\* Between two reads of the file, its body is partly in the buffer and partly
\* still to be read; nothing is skipped, and the file is not left as long as a
\* piece is missing.
LEMMA Topped ==
  ASSUME NEW k, Buffer(k)
  PROVE  /\ Buffer(StaticCb(k)) /\ StaticCb(k).recv = k.recv
         /\ k.file = NoFile => StaticCb(k) = k
         /\ StaticCb(k).file # NoFile => /\ k.file # NoFile
                                         /\ StaticCb(k).file.req = k.file.req
                                         /\ StaticCb(k).send # <<>>
         /\ k.send # <<>> => StaticCb(k).send # <<>>
         /\ Coming(k) \in Seq(Piece) /\ Coming(StaticCb(k)) = Coming(k)
<1>1. /\ k \in Record /\ Len(k.send) <= k.size /\ k.send \in Seq(Piece) /\ k.size \in Nat
      /\ Len(k.send) \in Nat /\ MG_IO_SIZE \in Nat \ {0} /\ (k.send = <<>> <=> Len(k.send) = 0)
  BY SizeAssumption, Empties DEF Buffer, Record
<1>2. CASE k.file = NoFile
  <2>1. StaticCb(k) = k
    BY <1>2 DEF StaticCb
  <2>2. Coming(k) = k.send
    BY <1>1, <1>2, ConcatEmptySeq DEF Coming
  <2> QED BY <1>1, <1>2, <2>1, <2>2
<1>3. CASE k.file # NoFile
  <2> DEFINE size == IF k.size < 2 * MG_IO_SIZE THEN 2 * MG_IO_SIZE ELSE k.size
             room == size - Len(k.send)
             n == IF k.file.left < room THEN k.file.left ELSE room
             body == Body(k.file.req, n)
  <2>1. /\ k.file \in File /\ k.file.req \in Nat /\ k.file.left \in Nat
        /\ k.file.left \in 0 .. FileLen /\ FileLen \in Nat
    BY <1>1, <1>3, SizeAssumption DEF Record, File
  <2>2. size \in Nat /\ size >= 2 /\ size >= k.size
    BY <1>1
  <2>3. room \in Nat
    BY <1>1, <2>2
  <2>4. n \in 0 .. k.file.left /\ n <= room /\ (n < room => n = k.file.left)
    BY <2>1, <2>3
  <2>5. /\ Coming(k) = k.send \o Body(k.file.req, k.file.left) /\ Coming(k) \in Seq(Piece)
        /\ Body(k.file.req, k.file.left) \in Seq(Piece)
    <3> DEFINE all == Body(k.file.req, k.file.left)
    <3>1. all \in Seq(Piece)
      BY <2>1, BodyPieces
    <3>2. k.send \o all \in Seq(Piece)
      <4> HIDE DEF all
      <4> QED BY <1>1, <3>1, ConcatProperties
    <3> QED BY <1>3, <3>1, <3>2 DEF Coming
  <2>6. CASE Len(k.send) >= size
    <3>1. StaticCb(k) = [k EXCEPT !.size = size]
      BY <1>3, <2>6 DEF StaticCb
    <3> HIDE DEF size
    <3>2. [k EXCEPT !.size = size] \in Record
      BY <1>1, <2>2 DEF Record
    <3> QED BY <1>1, <1>3, <2>2, <2>5, <2>6, <3>1, <3>2 DEF Buffer, Coming, Record
  <2>7. CASE ~(Len(k.send) >= size)
    <3> DEFINE read == FileRead(k, size)
               file == [k.file EXCEPT !.left = @ - n]
               send == k.send \o body
    <3>1. read = [k EXCEPT !.size = size, !.send = send, !.file.left = @ - n]
      BY DEF FileRead
    <3>2. file \in File /\ file.req = k.file.req /\ file.left = k.file.left - n /\ file # NoFile
      BY <2>1, <2>4, FileAssumption DEF File
    <3>3. /\ body \in Seq(Piece) /\ Len(body) = n /\ send \in Seq(Piece)
          /\ Len(send) = Len(k.send) + n
      <4>1. n \in Nat
        BY <2>1, <2>4
      <4>2. body \in Seq(Piece) /\ Len(body) = n
        <5> HIDE DEF n
        <5> QED BY <2>1, <4>1, BodyPieces
      <4> DEFINE p == k.send
      <4>3. p \in Seq(Piece)
        BY <1>1
      <4> HIDE DEF body, n, p
      <4>4. p \o body \in Seq(Piece) /\ Len(p \o body) = Len(p) + Len(body)
        BY <4>2, <4>3, ConcatProperties
      <4> QED BY <4>2, <4>4 DEF p
    <3>4. Len(send) <= size /\ (Len(send) < size => n = k.file.left)
      <4>1. room = size - Len(k.send) /\ size \in Nat /\ room \in Nat /\ n \in Nat
        BY <2>1, <2>2, <2>3, <2>4
      <4> HIDE DEF n, room, size, send
      <4> QED BY <1>1, <2>4, <3>3, <4>1
    <3>5. send \o Body(k.file.req, k.file.left - n) = Coming(k)
      <4> DEFINE more == Body(k.file.req, k.file.left - n)
      <4>1. /\ n \in Nat /\ k.file.left - n \in Nat /\ n + (k.file.left - n) = k.file.left
        BY <2>1, <2>4
      <4>2. more \in Seq(Piece) /\ body \o more = Body(k.file.req, k.file.left)
        <5> DEFINE m == k.file.left - n
        <5>1. n \in Nat /\ m \in Nat /\ n + m = k.file.left /\ k.file.req \in Nat
          BY <2>1, <4>1
        <5> HIDE DEF n, m
        <5>2. Body(k.file.req, m) \in Seq(Piece)
          BY <5>1, BodyPieces
        <5>3. Body(k.file.req, n) \o Body(k.file.req, m) = Body(k.file.req, n + m)
          BY <5>1, BodyPieces
        <5> QED BY <5>1, <5>2, <5>3 DEF m
      <4>3. (k.send \o body) \o more = k.send \o (body \o more)
        <5> DEFINE sent0 == k.send
        <5>1. sent0 \in Seq(Piece) /\ body \in Seq(Piece) /\ more \in Seq(Piece)
          BY <1>1, <3>3, <4>2
        <5> HIDE DEF body, more, sent0
        <5>2. (sent0 \o body) \o more = sent0 \o (body \o more)
          BY <5>1
        <5> QED BY <5>2 DEF sent0
      <4> QED BY <2>5, <4>2, <4>3
    <3> HIDE DEF size, n, body, send, file
    <3>6. /\ read = [k EXCEPT !.size = size, !.send = send, !.file = file]
          /\ read \in Record
      BY <1>1, <2>2, <3>1, <3>2, <3>3 DEF Record, file, File
    <3>7. /\ read.recv = k.recv /\ read.send = send /\ read.size = size /\ read.file = file
      BY <1>1, <3>6 DEF Record
    <3>8. CASE Len(send) < size
      <4>1. StaticCb(k) = [read EXCEPT !.file = NoFile]
        BY <1>3, <2>7, <3>7, <3>8 DEF StaticCb, RestoreHttpCb, size
      <4>2. /\ StaticCb(k) \in Record /\ StaticCb(k).recv = k.recv /\ StaticCb(k).send = send
            /\ StaticCb(k).size = size /\ StaticCb(k).file = NoFile
        BY <4>1, <3>6, <3>7 DEF Record
      <4>3. Coming(StaticCb(k)) = send
        BY <4>2, <3>3, ConcatEmptySeq DEF Coming
      <4>4. send = Coming(k)
        <5>1. k.file.left - n = 0
          BY <2>1, <3>4, <3>8
        <5>2. Body(k.file.req, 0) = <<>>
          BY <2>1, BodyPieces
        <5> QED BY <3>3, <3>5, <5>1, <5>2, ConcatEmptySeq
      <4>5. k.send # <<>> => send # <<>>
        BY <1>1, <2>4, <3>3, Empties
      <4> QED BY <1>3, <2>5, <3>4, <4>2, <4>3, <4>4, <4>5 DEF Buffer
    <3>9. CASE ~(Len(send) < size)
      <4>1. StaticCb(k) = read
        BY <1>3, <2>7, <3>7, <3>9 DEF StaticCb, size
      <4>2. send # <<>>
        BY <2>2, <3>3, <3>9, Empties
      <4>3. Coming(read) = Coming(k)
        BY <3>2, <3>5, <3>7 DEF Coming
      <4> QED BY <1>3, <2>5, <3>2, <3>4, <3>6, <3>7, <4>1, <4>2, <4>3 DEF Buffer
    <3> QED BY <3>8, <3>9
  <2> QED BY <2>6, <2>7
<1> QED BY <1>2, <1>3

\* mg_iobuf_append makes room.
LEMMA Appended ==
  ASSUME NEW k, Buffer(k), NEW x \in Piece
  PROVE  /\ Buffer(MgSend(k, x)) /\ MgSend(k, x).send = Append(k.send, x)
         /\ MgSend(k, x).file = k.file /\ MgSend(k, x).recv = k.recv
         /\ Append(k.send, x) \in Seq(Piece) /\ Append(k.send, x) # <<>>
<1> DEFINE len == Len(k.send) + 1
           size == IF len > k.size THEN Grown(len) ELSE k.size
<1>1. k \in Record /\ k.send \in Seq(Piece) /\ Len(k.send) \in Nat /\ k.size \in Nat
  BY LenProperties DEF Buffer, Record
<1>2. /\ Append(k.send, x) \in Seq(Piece) /\ Append(k.send, x) # <<>>
      /\ Len(Append(k.send, x)) = len
  BY <1>1, AppendProperties
<1>3. Grown(len) \in Nat /\ Grown(len) >= len
  <2>1. len + MG_IO_SIZE \in Nat /\ MG_IO_SIZE \in Nat \ {0} /\ len \in Nat
    BY <1>1, SizeAssumption
  <2>2. \A a \in Nat, c \in Nat \ {0} : a % c \in 0 .. c - 1
    OBVIOUS
  <2>3. (len + MG_IO_SIZE) % MG_IO_SIZE \in 0 .. MG_IO_SIZE - 1
    BY <2>1, <2>2
  <2> HIDE DEF len
  <2> QED BY <2>1, <2>3 DEF Grown
<1>4. size \in Nat /\ len <= size
  BY <1>1, <1>3
<1>5. MgSend(k, x) = [k EXCEPT !.send = Append(k.send, x), !.size = size]
  BY DEF MgSend
<1> HIDE DEF size, len
<1> QED BY <1>1, <1>2, <1>4, <1>5 DEF Buffer, Record

-----------------------------------------------------------------------------
(* What a step leaves alone *)

LEMMA SetOf == ASSUME NEW S, NEW s \in Seq(S) PROVE ToSet(s) \subseteq S
BY LenProperties, ElementOfSeq DEF ToSet

\* The connection that is being visited is on the list, and open.
LEMMA Visited ==
  ASSUME ListOK, pc \in Visiting
  PROVE  /\ todo # <<>> /\ cur \in Node /\ cur \in ToSet(conns)
         /\ cur # Listener => cur \in Client /\ peer[cur] = "open"
         /\ Tail(todo) \in Seq(Node) /\ IsInjective(Tail(todo))
         /\ ToSet(Tail(todo)) \subseteq ToSet(todo) \ {cur}
<1>1. todo # <<>> /\ todo \in Seq(Node) /\ IsInjective(todo) /\ ToSet(todo) \subseteq ToSet(conns)
  BY DEF ListOK
<1>2. /\ cur \in Node /\ cur \in ToSet(todo)
      /\ Tail(todo) \in Seq(Node) /\ IsInjective(Tail(todo))
      /\ ToSet(Tail(todo)) = ToSet(todo) \ {cur}
  BY <1>1, Walked DEF cur
<1> QED BY <1>1, <1>2 DEF ListOK, Node

\* A step of a visit, or the end of one, keeps the list.
LEMMA ListKept ==
  ASSUME ListOK, pc \in Visiting, UNCHANGED <<argc, libdir, freeing, conns, peer>>,
         running' \in BOOLEAN, (pc' \in Visiting /\ todo' = todo) \/ Advance
  PROVE  ListOK'
<1>1. CASE pc' \in Visiting /\ todo' = todo
  BY <1>1 DEF ListOK, Visiting
<1>2. CASE Advance
  <2>1. /\ todo' \in Seq(Node) /\ IsInjective(todo') /\ ToSet(todo') \subseteq ToSet(conns)
    BY <1>2, Visited DEF Advance, ListOK
  <2>2. /\ pc' \in {"visit", "poll", "end"}
        /\ todo' = <<>> <=> pc' \notin Visiting
        /\ pc' = "end" \/ pc' \in Visiting \/ ~freeing
    BY <1>2 DEF Advance, Visiting
  <2> QED BY <2>1, <2>2 DEF ListOK, Visiting
<1> QED BY <1>1, <1>2

\* The step takes nothing from the stream of connection c, and closes it only
\* for a reason.
Same(c) ==
  /\ conn'[c].recv = conn[c].recv /\ (conn'[c].file # NoFile => conn[c].file # NoFile)
  /\ sent'[c] = sent[c] /\ inbox'[c] = inbox[c] /\ hup'[c] = hup[c]
  /\ handled'[c] = handled[c]
  /\ c \in draining' <=> c \in draining
  /\ c \in closing => c \in closing'
  /\ c \in closing' => c \in closing \/ freeing' \/ hup[c] \/ c \in draining \/ Full(conn[c].recv)
  /\ peer'[c] # "closed" => peer[c] # "closed"
Onwards == (running' => running) /\ (freeing => freeing')

LEMMA ClientKept ==
  ASSUME NEW c \in Client, ClientOK(c), Same(c), Onwards, Connection(c)',
         pc # "http_cb" \/ c # cur \/ (pc' = "http_cb" /\ cur' = cur) \/ c \in closing'
  PROVE  ClientOK(c)'
<1>1. InOrder(c)'
  BY DEF ClientOK, InOrder, Same, Stream
<1>2. Justified(c)'
  <2>1. Malformed(c, conn[c].recv) <=> Malformed(c, conn[c].recv)'
    BY DEF Same, Malformed, KindOf
  <2> QED BY <2>1 DEF ClientOK, Justified, Same, Onwards, KindOf
<1>3. Waiting(c)'
  BY DEF ClientOK, Waiting, Same, AfterFile, KindOf, Malformed
<1> QED BY <1>1, <1>2, <1>3 DEF ClientOK

\* The step does nothing to connection c but to accept it or to refuse it.
Untouched(c) == /\ Same(c) /\ conn'[c] = conn[c] /\ got'[c] = got[c]
                /\ peer'[c] # "open" => peer[c] # "open"

LEMMA OthersKept ==
  ASSUME NEW c \in Client, ClientOK(c), Untouched(c), Onwards,
         pc # "http_cb" \/ c # cur \/ (pc' = "http_cb" /\ cur' = cur) \/ c \in closing'
  PROVE  ClientOK(c)'
<1>1. Connection(c)'
  BY DEF ClientOK, Connection, Same, Untouched
<1> QED BY <1>1, ClientKept DEF Untouched

LEMMA InitInv == Init => IInv
<1> SUFFICES ASSUME Init PROVE IInv
  OBVIOUS
<1>1. ListOK
  BY Nobody, EmptySeq DEF Init, ListOK, Visiting, Node
<1>2. FlagsOK
  BY DEF Init, FlagsOK
<1>3. /\ Buffer(Fresh) /\ Fresh.file = NoFile /\ Fresh.recv = <<>>
  BY EmptySeq DEF Fresh, Buffer, Record
<1>4. Typed
  BY <1>3, EmptySeq DEF Init, Typed, Buffer
<1>5. ASSUME NEW c \in Client PROVE Connection(c) /\ InOrder(c) /\ Justified(c) /\ Waiting(c)
  <2>1. /\ Stream(c) = <<>> /\ conn[c] = Fresh /\ handled[c] = <<>> /\ sent[c] = <<>>
        /\ Len(<<>>) = 0 /\ closing = {} /\ draining = {}
    BY <1>3, EmptySeq, ConcatEmptySeq DEF Init, Stream, Fresh
  <2>2. Orderly(<<>>, 0, 0)
    BY EmptySeq DEF Orderly
  <2> QED BY <1>3, <2>1, <2>2
          DEF Init, Connection, InOrder, Justified, Waiting, Complete, Malformed
<1> QED BY <1>1, <1>2, <1>4, <1>5 DEF IInv, ClientOK

-----------------------------------------------------------------------------
(* The clients *)

LEMMA ConnectStep == ASSUME IInv, NEW c \in Client, Connect(c) PROVE IInv'
<1>1. ListOK /\ FlagsOK /\ Typed /\ (\A d \in Client : ClientOK(d)) /\ peer[c] = "away"
  BY DEF IInv, Connect
<1>2. ListOK'
  BY <1>1 DEF ListOK, Connect
<1>3. FlagsOK' /\ Typed'
  BY <1>1 DEF FlagsOK, Typed, Connect, flags, client, cur
<1>4. ASSUME NEW d \in Client PROVE ClientOK(d)'
  <2>1. Untouched(d) /\ Onwards
    BY <1>1 DEF Untouched, Same, Onwards, Connect, flags, client, ListOK
  <2>2. pc' = pc /\ cur' = cur
    BY DEF Connect, cur
  <2> QED BY <1>1, <2>1, <2>2, OthersKept
<1> QED BY <1>2, <1>3, <1>4 DEF IInv

LEMMA HangUpStep == ASSUME IInv, NEW c \in Client, HangUp(c) PROVE IInv'
<1>1. ListOK /\ FlagsOK /\ Typed /\ (\A d \in Client : ClientOK(d))
  BY DEF IInv
<1>2. ListOK'
  BY <1>1 DEF ListOK, HangUp, flags
<1>3. FlagsOK' /\ Typed'
  BY <1>1 DEF FlagsOK, Typed, HangUp, flags, cur
<1>4. ASSUME NEW d \in Client PROVE ClientOK(d)'
  <2>1. hup[d] => hup'[d]
    BY <1>1 DEF HangUp, Typed
  <2> USE DEF HangUp, flags
  <2>2. Connection(d)'
    BY <1>1 DEF ClientOK, Connection
  <2>3. InOrder(d)'
    BY <1>1 DEF ClientOK, InOrder, Stream
  <2>4. Justified(d)'
    BY <1>1, <2>1 DEF ClientOK, Justified, KindOf, Malformed
  <2>5. Waiting(d)'
    BY <1>1 DEF ClientOK, Waiting, AfterFile, KindOf, Malformed, cur
  <2> QED BY <2>2, <2>3, <2>4, <2>5 DEF ClientOK
<1> QED BY <1>2, <1>3, <1>4 DEF IInv

\* Of a connection that is not closed, the requests that are in the buffer or
\* were handled are among those that were sent.
LEMMA Known ==
  ASSUME NEW c \in Client, Typed, ClientOK(c)
  PROVE  /\ \A i \in 1 .. Len(conn[c].recv) : conn[c].recv[i].req \in 1 .. Len(sent[c])
         /\ \A i \in 1 .. Len(handled[c]) : i \in 1 .. Len(sent[c])
         /\ conn[c].recv \in Seq(Fragment) /\ inbox[c] \in Seq(Fragment) /\ Stream(c) \in Seq(Fragment)
         /\ \A i \in 1 .. Len(conn[c].recv) : Stream(c)[i] = conn[c].recv[i]
         /\ Len(Stream(c)) = Len(conn[c].recv) + Len(inbox[c])
<1> DEFINE r == conn[c].recv
           b == inbox[c]
<1>1. r \in Seq(Fragment) /\ b \in Seq(Fragment)
  BY DEF Typed, ClientOK, Connection, Buffer, Record
<1>2. Len(r) \in Nat /\ Len(b) \in Nat /\ Len(handled[c]) \in Nat /\ Len(sent[c]) \in Nat
  BY <1>1, LenProperties DEF Typed
<1>3. /\ r \o b \in Seq(Fragment) /\ Len(r \o b) = Len(r) + Len(b)
      /\ \A i \in 1 .. Len(r) : (r \o b)[i] = r[i]
  <2> HIDE DEF r, b
  <2> QED BY <1>1, <1>2, ConcatProperties
<1>4. ASSUME NEW i \in 1 .. Len(r) PROVE r[i].req \in 1 .. Len(sent[c])
  <2>1. r # <<>>
    BY <1>1, <1>2, Empties
  <2>2. peer[c] # "closed"
    BY <2>1 DEF ClientOK, Connection, Fresh
  <2>3. i \in 1 .. Len(r \o b) /\ (r \o b)[i] = r[i]
    <3> HIDE DEF r, b
    <3> QED BY <1>2, <1>3
  <2> QED BY <2>2, <2>3 DEF ClientOK, InOrder, Orderly, Stream
<1>5. \A i \in 1 .. Len(handled[c]) : i \in 1 .. Len(sent[c])
  BY <1>2 DEF ClientOK, InOrder
<1> QED BY <1>1, <1>3, <1>4, <1>5 DEF Stream

\* A client sends something: a request is added to those that were sent, or not.
LEMMA Sending ==
  ASSUME IInv, NEW c \in Client, NEW f \in Fragment,
         UNCHANGED <<argc, libdir, pc, running, freeing, conns, todo, flags, conn,
                     peer, hup, got, handled, lost>>,
         inbox' = [inbox EXCEPT ![c] = Append(@, f)],
         NEW s \in Seq(Kind), sent' = [sent EXCEPT ![c] = s],
         Len(s) >= Len(sent[c]), \A i \in 1 .. Len(sent[c]) : s[i] = sent[c][i],
         peer[c] # "closed" =>
           Orderly(Append(Stream(c), f), Len(handled[c]), Len(s))
  PROVE  IInv'
<1>1. ListOK /\ FlagsOK /\ Typed /\ (\A d \in Client : ClientOK(d))
  BY DEF IInv
<1>2. ListOK' /\ FlagsOK'
  BY <1>1 DEF ListOK, FlagsOK, flags, cur
<1>3. inbox[c] \in Seq(Fragment) /\ Append(inbox[c], f) \in Seq(Fragment)
  BY <1>1, AppendProperties DEF Typed
<1>4. Typed'
  BY <1>1, <1>3 DEF Typed
<1>5. ASSUME NEW d \in Client, d # c PROVE ClientOK(d)'
  <2>1. Untouched(d) /\ Onwards
    BY <1>1, <1>5 DEF Untouched, Same, Onwards, flags, Typed
  <2>2. pc' = pc /\ cur' = cur
    BY DEF cur
  <2> QED BY <1>1, <2>1, <2>2, OthersKept
<1>6. ClientOK(c)'
  <2> USE DEF flags
  <2>1. ClientOK(c) /\ sent'[c] = s /\ inbox'[c] = Append(inbox[c], f)
    BY <1>1 DEF Typed
  <2>2. Len(sent[c]) \in Nat /\ Len(s) \in Nat /\ Len(handled[c]) \in Nat
    BY <1>1, LenProperties DEF Typed
  <2>3. Connection(c)'
    BY <2>1, <2>2 DEF ClientOK, Connection
  <2>4. InOrder(c)'
    <3>1. Stream(c)' = Append(Stream(c), f)
      <4> DEFINE r == conn[c].recv
      <4>1. r \in Seq(Fragment)
        BY <1>1, <2>1, Known
      <4>2. r \o Append(inbox[c], f) = Append(r \o inbox[c], f)
        <5> HIDE DEF r
        <5> QED BY <1>3, <4>1, Arrived
      <4> QED BY <2>1, <4>2 DEF Stream
    <3>2. peer[c] # "closed" => Orderly(Stream(c), Len(handled[c]), Len(sent[c]))'
      <4>1. peer[c] # "closed" => Orderly(Append(Stream(c), f), Len(handled[c]), Len(s))
        OBVIOUS
      <4> QED BY <2>1, <3>1, <4>1 DEF Orderly
    <3>3. /\ \A i \in 1 .. Len(handled[c]) : handled'[c][i].req = i
          /\ Len(handled'[c]) <= Len(sent'[c]) /\ peer'[c] = peer[c] /\ handled' = handled
      BY <2>1, <2>2 DEF ClientOK, InOrder
    <3> QED BY <3>2, <3>3 DEF InOrder
  <2>5. \A i \in 1 .. Len(handled[c]) : KindOf(c, i)' = KindOf(c, i)
    BY <1>1, <2>1, Known DEF KindOf
  <2>6. Malformed(c, conn[c].recv)' <=> Malformed(c, conn[c].recv)
    <3> DEFINE r == conn[c].recv
    <3>1. ASSUME r # <<>> PROVE Head(r) = r[1] /\ 1 \in 1 .. Len(r)
      <4>1. r \in Seq(Fragment)
        BY <1>1, <2>1, Known
      <4> HIDE DEF r
      <4> QED BY <3>1, <4>1, HeadTailProperties, Empties
    <3>2. ASSUME r # <<>> PROVE sent'[c][Head(r).req] = sent[c][Head(r).req]
      BY <1>1, <2>1, <3>1, <3>2, Known
    <3> QED BY <3>2 DEF Malformed, KindOf
  <2>7. Justified(c)'
    <3>1. \A i \in 1 .. Len(handled[c]) : i - 1 <= Len(handled[c])
      BY <2>2
    <3>2. \A i \in 1 .. Len(handled[c]) : \A j \in 1 .. i - 1 : KindOf(c, j)' = KindOf(c, j)
      BY <2>2, <2>5
    <3> QED BY <2>1, <2>5, <2>6, <3>2 DEF ClientOK, Justified
  <2>8. Waiting(c)'
    <3>1. handled[c] # <<>> => Len(handled[c]) \in 1 .. Len(handled[c])
      BY <1>1, <2>2, Empties DEF Typed
    <3>2. AfterFile(c)' <=> AfterFile(c)
      BY <2>1, <2>5, <3>1 DEF AfterFile
    <3> QED BY <2>1, <2>6, <3>2 DEF ClientOK, Waiting, cur
  <2> QED BY <2>3, <2>4, <2>7, <2>8 DEF ClientOK
<1> QED BY <1>2, <1>4, <1>5, <1>6 DEF IInv

LEMMA SendStep ==
  ASSUME IInv, NEW c \in Client, NEW kind \in Kind, NEW part \in Part \ {"rest", "more"},
         Send(c, kind, part)
  PROVE  IInv'
<1> DEFINE n == Len(sent[c])
           f == [req |-> n + 1, part |-> part]
           s == Append(sent[c], kind)
<1>1. Typed /\ ClientOK(c) /\ sent[c] \in Seq(Kind)
  BY DEF IInv, Typed
<1>2. /\ s \in Seq(Kind) /\ Len(s) = n + 1 /\ n \in Nat
      /\ \A i \in 1 .. n : s[i] = sent[c][i]
  BY <1>1, AppendProperties, LenProperties
<1>3. f \in Fragment
  BY <1>2 DEF Fragment, Part
<1>4. Stream(c) # <<>> => Finishes(Last(Stream(c)))
  <2>1. ASSUME Stream(c) # <<>> PROVE Last(Stream(c)) \in Fragment
    <3> DEFINE t == Stream(c)
    <3>1. t \in Seq(Fragment)
      BY <1>1, Known
    <3>2. t # <<>>
      BY <2>1
    <3> HIDE DEF t
    <3>3. t[Len(t)] \in Fragment
      BY <3>1, <3>2, Empties, ElementOfSeq
    <3> QED BY <3>3 DEF t, Last
  <2> QED BY <2>1 DEF Send, Unfinished, Stream, Finishes, Fragment, Part
<1>5. peer[c] # "closed" => Orderly(Append(Stream(c), f), Len(handled[c]), Len(s))
  <2>1. Len(handled[c]) \in Nat
    BY <1>1, LenProperties DEF Typed
  <2> DEFINE t == Stream(c)
             h == Len(handled[c])
  <2>2. t \in Seq(Fragment) /\ h \in Nat
    BY <1>1, <2>1, Known
  <2>3. peer[c] # "closed" => Orderly(t, h, n)
    BY <1>1 DEF ClientOK, InOrder
  <2>4. t # <<>> => Finishes(Last(t))
    BY <1>4
  <2> HIDE DEF s, t, h, n
  <2>5. peer[c] # "closed" => Orderly(Append(t, [req |-> n + 1, part |-> part]), h, n + 1)
    BY ONLY <1>2, <2>2, <2>3, <2>4, OrderlyNew
  <2> QED BY <1>2, <2>5 DEF t, h
<1>6. /\ UNCHANGED <<argc, libdir, pc, running, freeing, conns, todo, flags, conn,
                     peer, hup, got, handled, lost>>
      /\ inbox' = [inbox EXCEPT ![c] = Append(@, f)] /\ sent' = [sent EXCEPT ![c] = s]
  BY DEF Send
<1>7. Len(s) >= Len(sent[c]) /\ \A i \in 1 .. Len(sent[c]) : s[i] = sent[c][i]
  BY <1>2
<1>8. IInv
  OBVIOUS
<1> HIDE DEF f, s
<1> QED BY <1>2, <1>3, <1>5, <1>6, <1>7, <1>8, Sending, Zenon

LEMMA SendBodyStep ==
  ASSUME IInv, NEW c \in Client, NEW part \in {"rest", "more"}, SendBody(c, part)
  PROVE  IInv'
<1> DEFINE s == sent[c]
           n == Len(s)
           f == [req |-> n, part |-> part]
<1>1. Typed /\ ClientOK(c) /\ s \in Seq(Kind) /\ n \in Nat
  BY LenProperties DEF IInv, Typed
<1>2. f \in Fragment
  BY <1>1 DEF Fragment, Part
<1>3. Stream(c) # <<>> /\ ~Finishes(Last(Stream(c)))
  BY DEF SendBody, Unfinished, Stream, Finishes
<1>4. peer[c] # "closed" => Orderly(Append(Stream(c), f), Len(handled[c]), n)
  <2>1. Len(handled[c]) \in Nat
    BY <1>1, LenProperties DEF Typed
  <2> QED BY <1>1, <1>3, <2>1, Known, OrderlyMore DEF ClientOK, InOrder
<1>5. /\ UNCHANGED <<argc, libdir, pc, running, freeing, conns, todo, flags, conn,
                     peer, hup, got, handled, lost>>
      /\ inbox' = [inbox EXCEPT ![c] = Append(@, f)] /\ sent' = [sent EXCEPT ![c] = s]
  BY <1>1 DEF SendBody, Typed
<1>6. Len(s) >= Len(sent[c]) /\ \A i \in 1 .. Len(sent[c]) : s[i] = sent[c][i]
  BY <1>1
<1>7. IInv
  OBVIOUS
<1> HIDE DEF f, s
<1> QED BY <1>1, <1>2, <1>4, <1>5, <1>6, <1>7, Sending, Zenon

-----------------------------------------------------------------------------
(* The frame of the loop *)

LEMMA StartStep == IInv /\ Start => IInv'
<1> SUFFICES ASSUME IInv, Start PROVE IInv'
  OBVIOUS
<1>1. ListOK /\ FlagsOK /\ Typed /\ (\A d \in Client : ClientOK(d)) /\ pc = "start" /\ conns = <<>>
  BY DEF IInv, Start, ListOK
<1>2. ListOK'
  <2>1. \/ pc' = "poll" /\ conns' = <<Listener>>
        \/ pc' \in {"end", "crashed"} /\ conns' = conns
    BY DEF Start
  <2>2. UNCHANGED <<argc, libdir, running, freeing, todo, peer>>
    BY DEF Start
  <2>3. <<Listener>> \in Seq(Node) /\ Listener \in Node /\ Listener \notin Client
    BY ClientAssumption DEF Node
  <2>4. todo = <<>> /\ todo \in Seq(Node) /\ \A c \in Client : peer[c] # "open"
    BY <1>1, Nobody DEF ListOK, Visiting
  <2>5. /\ conns' \in Seq(Node) /\ IsInjective(conns')
        /\ \A c \in Client : c \notin ToSet(conns')
        /\ pc' = "poll" => Listener \in ToSet(conns')
    <3>1. CASE conns' = <<Listener>> /\ pc' = "poll"
      <4> DEFINE s == <<Listener>>
      <4>1. s \in Seq(Node) /\ IsInjective(s) /\ ToSet(s) = {Listener}
        BY <2>3, Alone
      <4> HIDE DEF s
      <4>2. conns' = s
        BY <3>1 DEF s
      <4>3. \A c \in Client : c # Listener
        BY <2>3
      <4> QED BY <3>1, <4>1, <4>2, <4>3
    <3>2. CASE conns' = conns /\ pc' # "poll"
      BY <1>1, <3>2, Nobody DEF ListOK
    <3> QED BY <2>1, <3>1, <3>2
  <2>6. pc' \in {"poll", "end", "crashed"}
    BY <2>1
  <2> QED BY <1>1, <2>2, <2>4, <2>5, <2>6, Nobody DEF ListOK, Visiting
<1>3. FlagsOK'
  BY <1>1 DEF FlagsOK, Start, flags
<1>4. Typed'
  BY <1>1 DEF Typed, Start, client
<1>5. ASSUME NEW d \in Client PROVE ClientOK(d)'
  <2>1. Untouched(d) /\ Onwards
    BY DEF Untouched, Same, Onwards, Start, flags, client
  <2> QED BY <1>1, <2>1, OthersKept
<1> QED BY <1>2, <1>3, <1>4, <1>5 DEF IInv

LEMMA PollStep == ASSUME IInv, NEW room \in SUBSET Pending, Poll(room) PROVE IInv'
<1>1. /\ ListOK /\ FlagsOK /\ Typed /\ (\A d \in Client : ClientOK(d))
      /\ pc = "poll" /\ ~freeing /\ conns \in Seq(Node) /\ Listener \in ToSet(conns)
  BY DEF IInv, Poll, ListOK, FlagsOK, Visiting
<1>2. conns # <<>> /\ ToSet(conns) \subseteq Node
  BY <1>1, Nobody, SetOf
<1>3. ListOK'
  BY <1>1, <1>2 DEF ListOK, Poll, Visiting
<1>4. FlagsOK'
  BY <1>1, <1>2 DEF FlagsOK, Poll, Pending, Node
<1>5. Typed'
  BY <1>1 DEF Typed, Poll, client
<1>6. ASSUME NEW d \in Client PROVE ClientOK(d)'
  <2>1. Untouched(d) /\ Onwards
    BY DEF Untouched, Same, Onwards, Poll, client
  <2> QED BY <1>1, <2>1, OthersKept
<1> QED BY <1>3, <1>4, <1>5, <1>6 DEF IInv

LEMMA FreeManagerStep == IInv /\ FreeManager => IInv'
<1> SUFFICES ASSUME IInv, FreeManager PROVE IInv'
  OBVIOUS
<1>1. /\ ListOK /\ FlagsOK /\ Typed /\ (\A d \in Client : ClientOK(d))
      /\ pc = "poll" /\ ~freeing /\ conns \in Seq(Node) /\ Listener \in ToSet(conns)
  BY DEF IInv, FreeManager, ListOK, FlagsOK, Visiting
<1>2. conns # <<>> /\ ToSet(conns) \subseteq Node
  BY <1>1, Nobody, SetOf
<1>3. ListOK'
  BY <1>1, <1>2 DEF ListOK, FreeManager, Visiting
<1>4. FlagsOK'
  BY <1>1, <1>2 DEF FlagsOK, FreeManager
<1>5. Typed'
  BY <1>1 DEF Typed, FreeManager, client
<1>6. ASSUME NEW d \in Client PROVE ClientOK(d)'
  <2>1. d \notin closing
    BY <1>1 DEF FlagsOK
  <2>2. Untouched(d) /\ Onwards
    BY <2>1 DEF Untouched, Same, Onwards, FreeManager, client
  <2> QED BY <1>1, <2>2, OthersKept
<1> QED BY <1>3, <1>4, <1>5, <1>6 DEF IInv

-----------------------------------------------------------------------------
(* A visit *)

LEMMA AcceptStep == ASSUME IInv, NEW c \in Client, Accept(c) PROVE IInv'
<1>1. /\ ListOK /\ FlagsOK /\ Typed /\ (\A d \in Client : ClientOK(d))
      /\ pc = "visit" /\ pc \in Visiting /\ peer[c] = "backlog" /\ Advance
  BY DEF IInv, Accept, Visiting
<1>2. conn' = conn
  BY <1>1 DEF Accept, ClientOK, Connection, Typed
<1>3. /\ \/ conns' = conns /\ peer' \in {peer, [peer EXCEPT ![c] = "closed"]}
         \/ conns' = <<c>> \o conns /\ peer' = [peer EXCEPT ![c] = "open"]
      /\ UNCHANGED <<argc, libdir, running, freeing, flags, client, got, handled, lost>>
  BY DEF Accept
<1>4. ListOK'
  <2>1. /\ todo' \in Seq(Node) /\ IsInjective(todo') /\ ToSet(todo') \subseteq ToSet(conns)
        /\ pc' \in {"visit", "poll", "end"}
        /\ todo' = <<>> <=> pc' \notin Visiting
        /\ pc' = "end" \/ pc' \in Visiting \/ ~freeing
    BY <1>1, Visited DEF Advance, ListOK, Visiting
  <2>2. c \notin ToSet(conns) /\ c \in Node /\ c # Listener
    BY <1>1, ClientAssumption DEF ListOK, Node
  <2>3. CASE conns' = conns /\ peer' \in {peer, [peer EXCEPT ![c] = "closed"]}
    BY <1>1, <1>3, <2>1, <2>2, <2>3 DEF ListOK
  <2>4. CASE conns' = <<c>> \o conns /\ peer' = [peer EXCEPT ![c] = "open"]
    <3>1. /\ conns' \in Seq(Node) /\ IsInjective(conns')
          /\ ToSet(conns') = ToSet(conns) \cup {c}
      BY <1>1, <2>2, <2>4, Prepended DEF ListOK
    <3> QED BY <1>1, <1>3, <2>1, <2>2, <2>4, <3>1 DEF ListOK
  <2> QED BY <1>3, <2>3, <2>4
<1>5. FlagsOK'
  <2>1. pc' \in {"visit", "end"} \/ (pc' = "poll" /\ ~freeing)
    BY <1>1 DEF Advance, ListOK
  <2> QED BY <1>1, <1>3, <2>1 DEF FlagsOK, flags
<1>6. Typed'
  BY <1>1, <1>2, <1>3 DEF Typed, client
<1>7. ASSUME NEW d \in Client PROVE ClientOK(d)'
  <2>1. Untouched(d) /\ Onwards
    BY <1>1, <1>2, <1>3 DEF Untouched, Same, Onwards, flags, client, ListOK
  <2> QED BY <1>1, <2>1, OthersKept
<1> QED BY <1>4, <1>5, <1>6, <1>7 DEF IInv

\* The step replaces the buffers of connection c and nothing else of any
\* connection, unless it closes it.
LEMMA Replaced ==
  ASSUME ListOK, Typed, \A d \in Client : ClientOK(d), Onwards,
         NEW c \in Client, NEW k, peer[c] = "open",
         conn' = [conn EXCEPT ![c] = k],
         Buffer(k), k.recv = conn[c].recv,
         k.file # NoFile => /\ conn[c].file # NoFile /\ k.file.req = conn[c].file.req
                            /\ k.send # <<>>,
         UNCHANGED <<peer, sent, inbox, hup, handled, draining, lost>>,
         got' \in [Client -> Seq(Piece)],
         closing' = closing \/ closing' = closing \cup {c},
         c \in closing' => c \in closing \/ hup[c] \/ c \in draining \/ Full(conn[c].recv),
         pc # "http_cb"
  PROVE  Typed' /\ \A d \in Client : ClientOK(d)'
<1>1. conn'[c] = k /\ k \in Record /\ \A d \in Client : d # c => conn'[d] = conn[d]
  BY DEF Typed, Buffer
<1>2. Typed'
  BY <1>1 DEF Typed
<1>3. Connection(c)'
  <2>1. conn[c].file # NoFile => conn[c].file.req \in 1 .. Len(sent[c])
    BY DEF ClientOK, Connection
  <2> QED BY <1>1, <2>1 DEF Connection
<1>4. ASSUME NEW d \in Client PROVE Same(d)
  BY <1>1 DEF Same
<1>5. ASSUME NEW d \in Client, d # c PROVE Connection(d)'
  BY <1>1, <1>5 DEF ClientOK, Connection
<1>6. ASSUME NEW d \in Client PROVE ClientOK(d)'
  BY <1>3, <1>4, <1>5, ClientKept
<1> QED BY <1>2, <1>6

LEMMA PassStep == IInv /\ Pass => IInv'
<1> SUFFICES ASSUME IInv, Pass PROVE IInv'
  OBVIOUS
<1>1. /\ ListOK /\ FlagsOK /\ Typed /\ (\A d \in Client : ClientOK(d))
      /\ pc = "visit" /\ pc \in Visiting
      /\ UNCHANGED <<argc, libdir, running, freeing, conns, flags, peer, client, got, handled, lost>>
      /\ \/ cur \in closing /\ pc' = "close" /\ todo' = todo
         \/ cur \notin closing /\ cur = Listener /\ Advance
  BY DEF IInv, Pass, Visiting
<1>2. ListOK'
  BY <1>1, ListKept DEF ListOK, Visiting
<1>3. FlagsOK'
  <2>1. \/ cur \in closing /\ pc' = "close" /\ cur' = cur
        \/ pc' \in {"visit", "end"} \/ (pc' = "poll" /\ ~freeing)
    BY <1>1 DEF Advance, cur, ListOK
  <2> QED BY <1>1, <2>1 DEF FlagsOK, flags
<1>4. Typed' /\ \A d \in Client : ClientOK(d)'
  <2>1. CASE cur = Listener
    <3>1. conn' = conn
      BY <2>1 DEF Pass
    <3>2. Typed'
      BY <1>1, <3>1 DEF Typed, client
    <3>3. \A d \in Client : Untouched(d) /\ Onwards
      BY <1>1, <3>1 DEF Untouched, Same, Onwards, flags, client
    <3> QED BY <1>1, <3>2, <3>3, OthersKept
  <2>2. CASE cur # Listener
    <3> DEFINE c == cur
               k == StaticCb(conn[c])
    <3>1. c \in Client /\ peer[c] = "open"
      BY <1>1, <2>2, Visited
    <3>2. conn' = [conn EXCEPT ![c] = k]
      BY <2>2 DEF Pass
    <3>3. Buffer(conn[c])
      BY <1>1, <3>1 DEF ClientOK, Connection
    <3>4. /\ Buffer(k) /\ k.recv = conn[c].recv
          /\ k.file # NoFile => /\ conn[c].file # NoFile /\ k.file.req = conn[c].file.req
                                /\ k.send # <<>>
      BY <3>3, Topped
    <3>5. Onwards /\ closing' = closing /\ got' \in [Client -> Seq(Piece)]
          /\ UNCHANGED <<peer, sent, inbox, hup, handled, draining, lost>>
      BY <1>1 DEF Onwards, flags, client, Typed
    <3> HIDE DEF c, k
    <3> QED BY <1>1, <3>1, <3>2, <3>4, <3>5, Replaced
  <2> QED BY <2>1, <2>2
<1> QED BY <1>2, <1>3, <1>4 DEF IInv

\* The flags in the middle of a visit.
LEMMA FlagsKept ==
  ASSUME ListOK, FlagsOK, pc \in {"visit", "http_cb", "write"}, cur \in Client, cur # Listener,
         UNCHANGED <<freeing, readable, writable>>, running' \in BOOLEAN, running' => running,
         draining' = draining \/ draining' = draining \cup {cur},
         closing' = closing \/ closing' = closing \cup {cur},
         pc = "visit" => cur \notin closing,
         \/ /\ pc' \in {"http_cb", "write", "close"} /\ todo' = todo
            /\ pc' = "http_cb" => cur \notin closing'
            /\ pc' = "close" => cur \in closing'
         \/ Advance /\ cur \notin closing'
  PROVE  FlagsOK'
<1>1. /\ closing' \subseteq Node /\ draining' \subseteq Client
      /\ Listener \in closing' => freeing
      /\ freeing' => ~running'
  BY DEF FlagsOK, Node
<1>2. CASE pc' \in {"http_cb", "write", "close"} /\ todo' = todo
  <2>1. cur' = cur
    BY <1>2 DEF cur
  <2>2. pc' = "http_cb" => cur \notin closing'
    BY <1>2 DEF Advance
  <2>3. pc' = "close" => cur \in closing'
    BY <1>2 DEF Advance
  <2>4. ASSUME NEW c \in closing', ~freeing PROVE pc' \in {"write", "close"} /\ c = cur
    BY <1>2, <2>2, <2>4 DEF FlagsOK
  <2> QED BY <1>1, <1>2, <2>1, <2>2, <2>3, <2>4 DEF FlagsOK
<1>3. CASE Advance /\ cur \notin closing'
  <2>1. pc' \in {"visit", "end"} \/ (pc' = "poll" /\ ~freeing)
    BY <1>3 DEF Advance, ListOK
  <2>2. \A c \in closing' : freeing
    BY <1>3 DEF FlagsOK
  <2> QED BY <1>1, <2>1, <2>2 DEF FlagsOK
<1> QED BY <1>2, <1>3

LEMMA ReadStep == IInv /\ Read => IInv'
<1> SUFFICES ASSUME IInv, Read PROVE IInv'
  OBVIOUS
<1>0. PICK c : c = cur
  OBVIOUS
<1> DEFINE k == StaticCb(conn[c])
<1>1. /\ ListOK /\ FlagsOK /\ Typed /\ (\A d \in Client : ClientOK(d))
      /\ pc = "visit" /\ pc \in Visiting /\ c # Listener /\ c \notin closing
      /\ UNCHANGED <<argc, libdir, running, freeing, conns, todo, readable, writable,
                     draining, peer, sent, hup, got, handled, lost>>
      /\ pc' \in {"http_cb", "write"}
  BY <1>0 DEF IInv, Read, Visiting
<1>2. c \in Client /\ peer[c] = "open" /\ ClientOK(c)
  BY <1>0, <1>1, Visited
<1>3. /\ closing' = closing \/ (closing' = closing \cup {c} /\ pc' = "write"
                                /\ (hup[c] \/ Full(k.recv)))
  BY <1>0 DEF Read
<1>4. ListOK'
  BY <1>1, ListKept DEF ListOK, Visiting
<1>5. FlagsOK'
  BY <1>0, <1>1, <1>2, <1>3, FlagsKept DEF ListOK
<1>6. Buffer(conn[c])
  BY <1>2 DEF ClientOK, Connection
<1>7. /\ Buffer(k) /\ k.recv = conn[c].recv
      /\ k.file # NoFile => /\ conn[c].file # NoFile /\ k.file.req = conn[c].file.req
                            /\ k.send # <<>>
  BY <1>6, Topped
<1>8. Onwards
  BY <1>1 DEF Onwards
<1>9. CASE conn' = [conn EXCEPT ![c] = k] /\ inbox' = inbox
  <2>1. /\ UNCHANGED <<peer, sent, inbox, hup, handled, draining, lost>>
        /\ got' \in [Client -> Seq(Piece)] /\ pc # "http_cb"
        /\ closing' = closing \/ closing' = closing \cup {c}
        /\ c \in closing' => c \in closing \/ hup[c] \/ c \in draining \/ Full(conn[c].recv)
    BY <1>1, <1>3, <1>7, <1>9 DEF Typed
  <2>2. Typed' /\ \A d \in Client : ClientOK(d)'
    <3> HIDE DEF k
    <3> QED BY <1>1, <1>2, <1>7, <1>8, <1>9, <2>1, Replaced
  <2> QED BY <1>4, <1>5, <2>2 DEF IInv
<1>10. ASSUME NEW n \in 1 .. Len(inbox[c]),
              conn' = [conn EXCEPT ![c] = [k EXCEPT !.recv = @ \o SubSeq(inbox[c], 1, n)]],
              inbox' = [inbox EXCEPT ![c] = SubSeq(@, n + 1, Len(@))],
              pc' = IF k.file = NoFile THEN "http_cb" ELSE "write",
              UNCHANGED closing
       PROVE  IInv'
  <2> DEFINE b == inbox[c]
             r == conn[c].recv \o SubSeq(b, 1, n)
             s == SubSeq(b, n + 1, Len(b))
  <2>1. conn[c].recv \in Seq(Fragment) /\ b \in Seq(Fragment)
    BY <1>1, <1>2, Known
  <2>2. r \in Seq(Fragment) /\ s \in Seq(Fragment) /\ r \o s = conn[c].recv \o b
    <3> DEFINE a == conn[c].recv
    <3>1. a \in Seq(Fragment) /\ b \in Seq(Fragment) /\ n \in 1 .. Len(b)
      BY <1>10, <2>1
    <3> HIDE DEF a, b
    <3>2. Transfer(a, b, n, Fragment)
      BY <3>1, Moved
    <3> QED BY <3>2 DEF Transfer, a
  <2> HIDE DEF r, s, k
  <2>3. [k EXCEPT !.recv = r] \in Record
    BY <1>7, <2>2 DEF Buffer, Record
  <2>4. /\ conn' = [conn EXCEPT ![c] = [k EXCEPT !.recv = r]]
        /\ inbox' = [inbox EXCEPT ![c] = s]
    BY <1>7, <1>10 DEF r, s
  <2>5. conn'[c] = [k EXCEPT !.recv = r] /\ inbox'[c] = s
    BY <1>1, <1>2, <2>4 DEF Typed
  <2>6. /\ conn'[c].recv = r /\ conn'[c].send = k.send /\ conn'[c].size = k.size
        /\ conn'[c].file = k.file
    BY <1>7, <2>2, <2>5 DEF Buffer, Record
  <2>7. Typed'
    BY <1>1, <2>2, <2>3, <2>4 DEF Typed
  <2>8. ClientOK(c)'
    <3>1. Connection(c)'
      <4>1. conn[c].file # NoFile => conn[c].file.req \in 1 .. Len(sent[c])
        BY <1>2 DEF ClientOK, Connection
      <4>2. Buffer(conn'[c])
        BY <1>7, <2>3, <2>5, <2>6 DEF Buffer
      <4> QED BY <1>1, <1>2, <1>7, <2>6, <4>1, <4>2 DEF Connection
    <3>2. InOrder(c)'
      <4>1. Stream(c)' = Stream(c)
        BY <2>2, <2>5, <2>6 DEF Stream
      <4> QED BY <1>1, <1>2, <4>1 DEF ClientOK, InOrder, Orderly
    <3>3. Justified(c)'
      BY <1>1, <1>2, <1>10 DEF ClientOK, Justified, KindOf
    <3>4. Waiting(c)'
      <4>1. pc' = "http_cb" => c = cur'
        BY <1>0, <1>1 DEF cur
      <4>2. k.file # NoFile => AfterFile(c)
        BY <1>2, <1>7 DEF ClientOK, Waiting
      <4>3. AfterFile(c)' <=> AfterFile(c)
        BY <1>1 DEF AfterFile, KindOf
      <4> QED BY <1>10, <2>6, <4>1, <4>2, <4>3 DEF Waiting
    <3> QED BY <3>1, <3>2, <3>3, <3>4 DEF ClientOK
  <2>9. ASSUME NEW d \in Client, d # c PROVE ClientOK(d)'
    <3>1. Untouched(d)
      BY <1>1, <2>4, <2>9, <1>10 DEF Untouched, Same, Typed
    <3> QED BY <1>1, <1>8, <3>1, OthersKept
  <2> QED BY <1>4, <1>5, <2>7, <2>8, <2>9 DEF IInv
<1>11. \/ conn' = [conn EXCEPT ![c] = k] /\ inbox' = inbox
       \/ \E n \in 1 .. Len(inbox[c]) :
            /\ conn' = [conn EXCEPT ![c] = [k EXCEPT !.recv = @ \o SubSeq(inbox[c], 1, n)]]
            /\ inbox' = [inbox EXCEPT ![c] = SubSeq(@, n + 1, Len(@))]
            /\ pc' = IF k.file = NoFile THEN "http_cb" ELSE "write"
            /\ UNCHANGED closing
  BY <1>0 DEF Read
<1> QED BY <1>9, <1>10, <1>11

\* mg_http_parse: the message in front is the next request, whole; what remains
\* begins with the request after it.
LEMMA FrontMessage ==
  ASSUME NEW r \in Seq(Fragment), NEW b \in Seq(Fragment), NEW d \in Nat, NEW n \in Nat,
         Orderly(r \o b, d, n), Complete(r), Head(r).part # "loop"
  PROVE  /\ Head(r).req = d + 1 /\ d + 1 <= n
         /\ Rest(r) \in Seq(Fragment) /\ Orderly(Rest(r) \o b, d + 1, n)
         /\ BodyOf(r) \in {"whole", "endless"}
<1> DEFINE k == MessageLen(r)
           m == SubSeq(r, 1, k)
           s == r \o b
<1>1. /\ r # <<>> /\ Len(r) \in Nat \ {0} /\ Len(b) \in Nat /\ Head(r) = r[1]
      /\ \A i \in 1 .. Len(r) : r[i] \in Fragment
  BY Empties, HeadTailProperties, ElementOfSeq DEF Complete
<1>2. /\ s \in Seq(Fragment) /\ Len(s) = Len(r) + Len(b)
      /\ \A i \in 1 .. Len(r) : s[i] = r[i]
  <2>1. /\ r \o b \in Seq(Fragment) /\ Len(r \o b) = Len(r) + Len(b)
        /\ \A i \in 1 .. Len(r) + Len(b) : (r \o b)[i] = IF i <= Len(r) THEN r[i] ELSE b[i - Len(r)]
    BY ConcatProperties
  <2> QED BY <1>1, <2>1
<1>3. \/ k = 1 /\ r[1].part \in {"whole", "front"}
      \/ k = 2 /\ Len(r) > 1 /\ r[1].part = "head" /\ r[2].part = "rest"
  BY <1>1 DEF Complete, MessageLen, RequestLen
<1> HIDE DEF k
<1>4. k \in 1 .. Len(r) /\ k \in 0 .. Len(r) /\ k \in 1 .. Len(s) /\ Finishes(r[k]) /\ k \in Nat
  BY <1>1, <1>2, <1>3 DEF Finishes
<1>5. m \in Seq(Fragment) /\ Len(m) = k /\ m # <<>> /\ m[1] = r[1] /\ Head(m) = m[1]
      /\ \A i \in 1 .. k : m[i] = r[i]
  <2>1. m \in Seq(Fragment) /\ Len(m) = k /\ \A i \in 1 .. k : m[i] = r[i]
    BY <1>4, Taken
  <2>2. m # <<>>
    BY <1>4, <2>1, Empties
  <2> HIDE DEF m
  <2> QED BY <1>4, <2>1, <2>2, HeadTailProperties
<1> HIDE DEF m, s
<1>6. Orderly(s, d, n) /\ s # <<>> /\ Len(s) \in Nat
  BY <1>1, <1>2, Empties DEF s
<1>7. Head(r).req = d + 1
  BY <1>1, <1>2, <1>6 DEF Orderly
<1>8. s[k].req = d + 1
  <2>1. CASE k = 1
    BY <1>1, <1>2, <1>6, <1>7, <2>1
  <2>2. CASE k = 2
    <3>1. 2 \in 2 .. Len(s) /\ s[2] = r[2] /\ s[1] = r[1] /\ ~Starts(s[2]) /\ 2 - 1 = 1
      BY <1>1, <1>2, <1>3, <2>2 DEF Starts
    <3>2. s[2].req = s[1].req
      BY <1>6, <3>1 DEF Orderly
    <3> QED BY <1>1, <1>7, <2>2, <3>1, <3>2
  <2> QED BY <1>3, <2>1, <2>2
<1>9. k < Len(s) => Starts(s[k + 1])
  <2>1. ASSUME k < Len(s) PROVE k + 1 \in 2 .. Len(s) /\ (k + 1) - 1 = k /\ s[k] = r[k]
    BY <1>1, <1>2, <1>4, <2>1
  <2> QED BY <1>4, <1>6, <2>1 DEF Orderly
<1>10. Orderly(SubSeq(s, k + 1, Len(s)), d + 1, n) /\ d + 1 <= n
  BY <1>2, <1>4, <1>6, <1>8, <1>9, OrderlyRest
<1>11. Rest(r) = SubSeq(r, k + 1, Len(r)) /\ Rest(r) \in Seq(Fragment)
  BY <1>4, Dropped DEF Rest, k
<1>12. Rest(r) \o b = SubSeq(s, k + 1, Len(s))
  BY <1>4, <1>11, Consumed DEF s
<1>13. r[1].part # "front" => Extent(m) = "whole"
  <2> SUFFICES ASSUME r[1].part # "front" PROVE Extent(m) = "whole"
    OBVIOUS
  <2>1. DOMAIN m = 1 .. k
    BY <1>5, LenProperties
  <2>2. ~Full(m)
    BY <1>3, <1>5, <2>1 DEF Full
  <2>3. RequestLen(m) = k
    BY <1>3, <1>5 DEF RequestLen
  <2>4. m # <<[req |-> m[1].req, part |-> "head"]>>
    <3>1. ASSUME m = <<[req |-> m[1].req, part |-> "head"]>> PROVE FALSE
      <4>1. Len(m) = 1 /\ m[1].part = "head"
        BY <3>1
      <4> QED BY <1>3, <1>5, <4>1
    <3> QED BY <3>1
  <2>5. ~(Len(m) > RequestLen(m))
    BY <1>4, <1>5, <2>3
  <2> QED BY <2>2, <2>4, <2>5 DEF Extent
<1>14. BodyOf(r) \in {"whole", "endless"}
  BY <1>1, <1>13 DEF BodyOf, Endless, m, k
<1> QED BY <1>1, <1>7, <1>10, <1>11, <1>12, <1>14

\* cb answers a request.
LEMMA ServedOK ==
  ASSUME NEW k, Buffer(k), NEW n \in Nat \ {0}, NEW kind \in Kind \ {"bad"},
         k.file # NoFile => k.send # <<>>
  PROVE  /\ Buffer(Served(k, n, kind)) /\ Served(k, n, kind).send # <<>>
         /\ IF kind = "file" THEN /\ Served(k, n, kind).file = [req |-> n, left |-> FileLen]
                                  /\ Served(k, n, kind).file # NoFile
                             ELSE Served(k, n, kind).file = k.file
         /\ Served(k, n, kind).send = Append(k.send, Reply(n, kind)[1])
         /\ Reply(n, kind)[1] \in Piece
<1>1. [req |-> n, part |-> "reply"] \in Piece /\ [req |-> n, part |-> "head"] \in Piece
  BY DEF Piece
<1>2. CASE kind \in {"page", "stop"}
  <2> DEFINE x == [req |-> n, part |-> "reply"]
  <2>1. Served(k, n, kind) = MgSend(k, x) /\ Reply(n, kind)[1] = x /\ kind # "file"
    BY <1>2 DEF Served, Reply
  <2>2. x \in Piece
    BY <1>1
  <2> HIDE DEF x
  <2> QED BY <2>1, <2>2, Appended
<1>3. CASE kind = "head"
  <2> DEFINE x == [req |-> n, part |-> "head"]
  <2>1. Served(k, n, kind) = MgSend(k, x) /\ Reply(n, kind)[1] = x /\ kind # "file"
    BY <1>3 DEF Served, Reply
  <2>2. x \in Piece
    BY <1>1
  <2> HIDE DEF x
  <2> QED BY <2>1, <2>2, Appended
<1>4. CASE kind = "file"
  <2> DEFINE x == [req |-> n, part |-> "head"]
             a == MgSend(k, x)
             f == [req |-> n, left |-> FileLen]
  <2>1. Served(k, n, kind) = [a EXCEPT !.file = f]
    BY <1>4 DEF Served
  <2>2. Reply(n, kind)[1] = x
    <3>1. Reply(n, kind) = <<x>> \o Body(n, FileLen)
      BY <1>4 DEF Reply
    <3> DEFINE y == Body(n, FileLen)
    <3>2. y \in Seq(Piece) /\ x \in Piece
      BY <1>1, SizeAssumption, BodyPieces
    <3> HIDE DEF x, y
    <3>3. (<<x>> \o y)[1] = x
      <4>1. Len(y) \in Nat /\ <<x>> \in Seq(Piece) /\ Len(<<x>>) = 1
        BY <3>2, LenProperties
      <4>2. 1 \in 1 .. Len(<<x>>) + Len(y) /\ 1 <= Len(<<x>>)
        BY <3>2, <4>1
      <4>3. (<<x>> \o y)[1] = <<x>>[1]
        BY <3>2, <4>1, <4>2, ConcatProperties
      <4> QED BY <4>3
    <3> QED BY <3>1, <3>3 DEF y
  <2>3. /\ Buffer(a) /\ a.send = Append(k.send, x) /\ Append(k.send, x) # <<>>
    BY <1>1, Appended
  <2>4. f \in File /\ f # NoFile
    BY SizeAssumption, FileAssumption DEF File
  <2> HIDE DEF a, f, x
  <2>5. Buffer([a EXCEPT !.file = f])
    BY <2>3, <2>4 DEF Buffer, Record
  <2>6. [a EXCEPT !.file = f].send = a.send /\ [a EXCEPT !.file = f].file = f
    BY <2>3 DEF Buffer, Record
  <2> QED BY <1>1, <1>4, <2>1, <2>2, <2>3, <2>4, <2>5, <2>6 DEF f, x
<1> QED BY <1>2, <1>3, <1>4 DEF Kind

\* What handling the message in front does to connection c: n is the request,
\* x what is recorded of it.
Given(c, n, kind, x) ==
  /\ kind \in Kind \ {"bad"} /\ Reply(n, kind)[1] \in Piece
  /\ x \in Handled /\ x.req = n /\ x.body = BodyOf(conn[c].recv)
  /\ x.how = IF conn[c].file = NoFile THEN "read" ELSE "behind"
  /\ handled'[c] = Append(handled[c], x) /\ handled' \in [Client -> Seq(Handled)]
  /\ conn'[c].recv = Rest(conn[c].recv)
  /\ conn'[c].send = Append(conn[c].send, Reply(n, kind)[1]) /\ conn'[c].send # <<>>
  /\ conn'[c].file = IF kind = "file" THEN [req |-> n, left |-> FileLen] ELSE conn[c].file
  /\ kind = "file" => conn'[c].file # NoFile
  /\ Buffer(conn'[c]) /\ conn' \in [Client -> Record]
  /\ \A d \in Client : d # c => conn'[d] = conn[d] /\ handled'[d] = handled[d]
  /\ draining' = IF kind = "head" THEN draining \cup {c} ELSE draining
  /\ running' = (running /\ kind # "stop")
  /\ lost' = IF kind = "file" /\ conn[c].file # NoFile
             THEN lost \cup {<<c, conn[c].file.req>>} ELSE lost

LEMMA Giving ==
  ASSUME Typed, NEW c \in Client, Connection(c), NEW n \in Nat \ {0},
         KindOf(c, n) \in Kind \ {"bad"}, Head(conn[c].recv).req = n,
         Rest(conn[c].recv) \in Seq(Fragment), BodyOf(conn[c].recv) \in {"whole", "endless"},
         Handle(c, conn[c].recv)
  PROVE  \E x : Given(c, n, KindOf(c, n), x)
<1> DEFINE r == conn[c].recv
           rest == Rest(r)
           body == BodyOf(r)
           kind == KindOf(c, n)
           k == Served(conn[c], n, kind)
           record == [req |-> n, body |-> body,
                      how |-> IF conn[c].file = NoFile THEN "read" ELSE "behind"]
<1>1. Buffer(conn[c]) /\ (conn[c].file # NoFile => conn[c].send # <<>>)
  BY DEF Connection
<1>2. /\ conn' = [conn EXCEPT ![c] = [k EXCEPT !.recv = rest]]
      /\ draining' = IF kind = "head" THEN draining \cup {c} ELSE draining
      /\ running' = (running /\ kind # "stop")
      /\ handled' = [handled EXCEPT ![c] = Append(@, record)]
      /\ lost' = IF kind = "file" /\ conn[c].file # NoFile
                 THEN lost \cup {<<c, conn[c].file.req>>} ELSE lost
  BY DEF Handle
<1>3. rest \in Seq(Fragment) /\ body \in {"whole", "endless"} /\ kind \in Kind \ {"bad"}
  OBVIOUS
<1> HIDE DEF rest, body, kind
<1>4. /\ Buffer(k) /\ k.send # <<>>
      /\ IF kind = "file" THEN k.file = [req |-> n, left |-> FileLen] /\ k.file # NoFile
         ELSE k.file = conn[c].file
      /\ k.send = Append(conn[c].send, Reply(n, kind)[1]) /\ Reply(n, kind)[1] \in Piece
  <2>1. n \in Nat \ {0}
    OBVIOUS
  <2> QED BY ONLY <1>1, <1>3, <2>1, ServedOK
<1>5. record \in Handled /\ record.req = n /\ record.body = body
      /\ record.how = IF conn[c].file = NoFile THEN "read" ELSE "behind"
  BY <1>3 DEF Handled
<1> HIDE DEF record, k
<1>6. [k EXCEPT !.recv = rest] \in Record
  BY <1>3, <1>4 DEF Buffer, Record
<1>7. Append(handled[c], record) \in Seq(Handled)
  BY <1>5, AppendProperties DEF Typed
<1>8. /\ conn'[c] = [k EXCEPT !.recv = rest] /\ handled'[c] = Append(handled[c], record)
      /\ \A d \in Client : d # c => conn'[d] = conn[d] /\ handled'[d] = handled[d]
  BY <1>2 DEF Typed
<1>9. /\ conn'[c].recv = rest /\ conn'[c].send = k.send /\ conn'[c].size = k.size
      /\ conn'[c].file = k.file
  BY <1>3, <1>4, <1>8 DEF Buffer, Record
<1>10. handled' \in [Client -> Seq(Handled)] /\ conn' \in [Client -> Record]
  BY <1>2, <1>6, <1>7 DEF Typed
<1>11. Buffer(conn'[c])
  BY <1>4, <1>6, <1>8, <1>9 DEF Buffer
<1>12. Given(c, n, kind, record)
  <2>1. conn'[c].recv = Rest(conn[c].recv) /\ record.body = BodyOf(conn[c].recv)
    BY <1>5, <1>9 DEF rest, body, r
  <2>2. /\ conn'[c].file = IF kind = "file" THEN [req |-> n, left |-> FileLen] ELSE conn[c].file
        /\ kind = "file" => conn'[c].file # NoFile
    BY <1>4, <1>9
  <2> QED BY <1>2, <1>3, <1>4, <1>5, <1>8, <1>9, <1>10, <1>11, <2>1, <2>2 DEF Given
<1> QED BY <1>12 DEF kind

\* The request in front is the next one.
HandleFacts(c, n, kind, x) ==
  /\ Given(c, n, kind, x) /\ x.body \in {"whole", "endless"}
  /\ c \in Client /\ peer[c] = "open" /\ c \notin closing
  /\ n \in Nat \ {0} /\ n <= Len(sent[c]) /\ n - 1 \in Nat /\ Len(handled[c]) = n - 1
  /\ Len(handled'[c]) = n /\ handled'[c][n] = x /\ handled'[c] # <<>>
  /\ \A i \in 1 .. n - 1 : handled'[c][i] = handled[c][i]
  /\ Orderly(conn'[c].recv \o inbox[c], n, Len(sent[c]))
  /\ pc = "http_cb" /\ pc' = "http_cb"
  /\ UNCHANGED <<argc, libdir, freeing, conns, todo, readable, writable, peer, client, got, closing>>

\* http_cb takes a message from the receive buffer.
Taking == /\ HttpCb /\ ~Malformed(cur, conn[cur].recv) /\ Complete(conn[cur].recv)
          /\ Head(conn[cur].recv).part # "loop"

LEMMA Handling ==
  ASSUME IInv, Taking
  PROVE  \E c, x : c = cur /\ HandleFacts(c, Len(handled[c]) + 1, KindOf(c, Len(handled[c]) + 1), x)
<1>0. PICK c : c = cur
  OBVIOUS
<1> DEFINE r == conn[c].recv
           n == Len(handled[c]) + 1
           kind == KindOf(c, n)
<1>1. /\ ListOK /\ FlagsOK /\ Typed /\ (\A d \in Client : ClientOK(d))
      /\ pc = "http_cb" /\ pc \in Visiting /\ cur # Listener /\ cur \notin closing
      /\ UNCHANGED <<argc, libdir, freeing, conns, todo, readable, writable, peer,
                     client, got, closing>>
      /\ pc' = "http_cb"
  BY DEF IInv, Taking, HttpCb, Visiting, FlagsOK, AfterMessage
<1>2. c \in Client /\ peer[c] = "open" /\ ClientOK(c) /\ c \notin closing
  BY <1>0, <1>1, Visited
<1>3. /\ r \in Seq(Fragment) /\ inbox[c] \in Seq(Fragment) /\ sent[c] \in Seq(Kind)
      /\ handled[c] \in Seq(Handled) /\ n \in Nat \ {0} /\ n - 1 \in Nat /\ Len(sent[c]) \in Nat
      /\ Len(handled[c]) = n - 1
  <2>1. /\ r \in Seq(Fragment) /\ inbox[c] \in Seq(Fragment) /\ sent[c] \in Seq(Kind)
        /\ handled[c] \in Seq(Handled)
    BY <1>1, <1>2, Known DEF Typed
  <2>2. Len(handled[c]) \in Nat /\ Len(sent[c]) \in Nat
    BY <2>1, LenProperties
  <2>3. n \in Nat \ {0} /\ n - 1 \in Nat /\ Len(handled[c]) = n - 1
    BY <2>2
  <2> QED BY <2>1, <2>2, <2>3
<1>4. /\ Head(r).req = n /\ n <= Len(sent[c]) /\ BodyOf(r) \in {"whole", "endless"}
      /\ Rest(r) \in Seq(Fragment) /\ Orderly(Rest(r) \o inbox[c], n, Len(sent[c]))
  <2>1. Orderly(r \o inbox[c], Len(handled[c]), Len(sent[c]))
    BY <1>2 DEF ClientOK, InOrder, Stream
  <2>2. Complete(r) /\ Head(r).part # "loop" /\ Len(handled[c]) \in Nat
    BY <1>0, <1>3 DEF Taking
  <2> HIDE DEF r
  <2> QED BY <1>3, <2>1, <2>2, FrontMessage
<1>5. kind \in Kind \ {"bad"}
  <2>1. kind \in Kind
    BY <1>3, <1>4, ElementOfSeq DEF KindOf
  <2>2. r # <<>>
    BY <1>0 DEF Taking, Complete
  <2>3. kind # "bad"
    BY <1>0, <1>4, <2>2 DEF Malformed, Taking
  <2> QED BY <2>1, <2>3
<1>6. Handle(c, r) /\ Connection(c)
  BY <1>0, <1>2 DEF HttpCb, Taking, ClientOK
<1>7. PICK x : Given(c, n, kind, x)
  <2> HIDE DEF n
  <2> QED BY <1>1, <1>2, <1>3, <1>4, <1>5, <1>6, Giving
<1>8. /\ Len(handled'[c]) = n /\ handled'[c][n] = x /\ handled'[c] # <<>>
      /\ \A i \in 1 .. n - 1 : handled'[c][i] = handled[c][i]
  <2>1. n = Len(handled[c]) + 1 /\ x \in Handled /\ handled'[c] = Append(handled[c], x)
    BY <1>7 DEF Given
  <2> HIDE DEF n
  <2> QED BY <1>3, <2>1, AppendProperties
<1>9. /\ Orderly(conn'[c].recv \o inbox[c], n, Len(sent[c])) /\ x.body \in {"whole", "endless"}
  BY <1>4, <1>7 DEF Given
<1> HIDE DEF n, kind, r
<1>10. HandleFacts(c, n, kind, x)
  BY <1>1, <1>2, <1>3, <1>4, <1>7, <1>8, <1>9 DEF HandleFacts
<1> QED BY <1>0, <1>10 DEF n, kind

LEMMA HandleStep ==
  ASSUME IInv, Taking
  PROVE  IInv'
<1>1. PICK c, x : c = cur /\ HandleFacts(c, Len(handled[c]) + 1, KindOf(c, Len(handled[c]) + 1), x)
  BY Handling
<1> DEFINE n == Len(handled[c]) + 1
           kind == KindOf(c, n)
<1>2. HandleFacts(c, n, kind, x) /\ c = cur
  BY <1>1
<1> HIDE DEF n
<1>3. /\ ListOK /\ FlagsOK /\ Typed /\ (\A d \in Client : ClientOK(d)) /\ c \in Client
      /\ pc \in Visiting /\ cur # Listener /\ cur \notin closing /\ sent[c] \in Seq(Kind)
      /\ Len(sent[c]) \in Nat
  BY <1>2, LenProperties DEF IInv, FlagsOK, Visiting, HandleFacts, Typed
<1>4. kind = KindOf(c, n)
  OBVIOUS
<1> HIDE DEF kind
<1>5. ListOK'
  <2>1. running' \in BOOLEAN
    BY <1>2, <1>3 DEF HandleFacts, Given, ListOK
  <2> QED BY <1>2, <1>3, <2>1, ListKept DEF HandleFacts, Given, Visiting
<1>6. FlagsOK'
  BY <1>2, <1>3, FlagsKept DEF HandleFacts, Given, ListOK
<1>7. Typed'
  <2>1. conn[c].file # NoFile => conn[c].file.req \in Nat
    BY <1>3 DEF ClientOK, Connection, Buffer, Record, File
  <2>2. lost' \subseteq Client \X Nat
    BY <1>2, <1>3, <2>1 DEF HandleFacts, Given, Typed
  <2> QED BY <1>2, <1>3, <2>2 DEF HandleFacts, Given, Typed, client
<1>8. Connection(c)'
  <2>1. conn'[c].file # NoFile => conn'[c].file.req \in 1 .. Len(sent[c])
    BY <1>2, <1>3 DEF HandleFacts, Given, ClientOK, Connection
  <2> QED BY <1>2, <2>1 DEF HandleFacts, Given, Connection, client
<1>9. InOrder(c)'
  <2>1. Orderly(Stream(c)', n, Len(sent[c]))
    BY <1>2 DEF HandleFacts, Given, Stream, client
  <2>2. ASSUME NEW i \in 1 .. n PROVE handled'[c][i].req = i
    <3>1. CASE i = n
      BY <1>2, <3>1 DEF HandleFacts, Given
    <3>2. CASE i # n
      <4>1. i \in 1 .. n - 1 /\ i \in 1 .. Len(handled[c])
        BY <1>2, <3>2 DEF HandleFacts, Given
      <4> QED BY <1>2, <1>3, <4>1 DEF HandleFacts, Given, ClientOK, InOrder
    <3> QED BY <3>1, <3>2
  <2>3. /\ Len(handled'[c]) = n /\ n <= Len(sent[c]) /\ sent' = sent
        /\ Orderly(Stream(c)', n, Len(sent'[c]))
    BY <1>2, <2>1 DEF HandleFacts, Given, client
  <2> QED BY <2>2, <2>3 DEF InOrder, Orderly
<1>10. \A i \in 1 .. n : KindOf(c, i)' = KindOf(c, i)
  BY <1>2 DEF HandleFacts, Given, KindOf, client
<1>11. Justified(c)'
  <2>1. c \in draining' => \E j \in 1 .. n : KindOf(c, j) = "head"
    BY <1>2, <1>3, <1>4 DEF HandleFacts, Given, ClientOK, Justified
  <2>2. \A i \in 1 .. n : handled'[c][i].body \in {"cut", "swollen"} =>
          hup[c] \/ ~running \/ \E j \in 1 .. i - 1 : KindOf(c, j) = "head"
    BY <1>2, <1>3 DEF HandleFacts, Given, ClientOK, Justified
  <2>3. (running' => running) /\ hup' = hup /\ c \notin closing' /\ Len(handled'[c]) = n
    BY <1>2 DEF HandleFacts, Given, client
  <2>4. \A i \in 1 .. n : \A j \in 1 .. i - 1 : j \in 1 .. n
    BY <1>2 DEF HandleFacts, Given
  <2> QED BY <1>10, <2>1, <2>2, <2>3, <2>4 DEF Justified
<1>12. Waiting(c)'
  <2>1. c = cur' /\ pc' = "http_cb"
    BY <1>2 DEF cur, HandleFacts, Given
  <2>2. conn'[c].file # NoFile => KindOf(c, n) = "file" \/ x.how = "behind"
    BY <1>2, <1>4 DEF HandleFacts, Given
  <2>3. n \in 1 .. n
    BY <1>2 DEF HandleFacts, Given
  <2>4. conn'[c].file # NoFile => AfterFile(c)'
    BY <1>2, <1>10, <2>2, <2>3 DEF HandleFacts, Given, AfterFile, Last
  <2> QED BY <2>1, <2>4 DEF Waiting
<1>13. ASSUME NEW d \in Client, d # c PROVE ClientOK(d)'
  <2>1. Untouched(d) /\ Onwards
    BY <1>2, <1>13 DEF HandleFacts, Given, Untouched, Same, Onwards, client
  <2> QED BY <1>2, <1>3, <1>13, <2>1, OthersKept
<1> QED BY <1>5, <1>6, <1>7, <1>8, <1>9, <1>11, <1>12, <1>13 DEF IInv, ClientOK

\* http_cb is about to go round with a message of length zero.
Round == Spins /\ ~Malformed(cur, conn[cur].recv)

LEMMA HttpCbStep == ASSUME IInv, HttpCb, ~Round PROVE IInv'
<1>1. CASE ~Malformed(cur, conn[cur].recv) /\ Complete(conn[cur].recv)
  BY <1>1, HandleStep DEF Taking, Round, Spins, HttpCb, Complete
<1>2. CASE ~(~Malformed(cur, conn[cur].recv) /\ Complete(conn[cur].recv))
  <2>0. PICK c : c = cur
    OBVIOUS
  <2>1. /\ ListOK /\ FlagsOK /\ Typed /\ (\A d \in Client : ClientOK(d))
        /\ pc = "http_cb" /\ pc \in Visiting /\ cur # Listener
        /\ UNCHANGED <<argc, libdir, running, freeing, conns, todo, readable, writable,
                       draining, conn, peer, sent, inbox, hup, got, handled, lost>>
        /\ closing' = closing \/ closing' = closing \cup {cur}
        /\ Malformed(cur, conn[cur].recv) => cur \in closing'
        /\ pc' = "write"
    BY <1>2 DEF IInv, HttpCb, Visiting, FlagsOK, client
  <2>2. c \in Client /\ cur \in Client /\ peer[c] = "open" /\ ClientOK(c)
    BY <2>0, <2>1, Visited
  <2>3. ListOK'
    BY <2>1, ListKept DEF ListOK, Visiting
  <2>4. FlagsOK'
    BY <2>1, <2>2, FlagsKept DEF ListOK
  <2>5. Typed'
    BY <2>1 DEF Typed
  <2>6. \A d \in Client : d # cur => Untouched(d) /\ Onwards
    BY <2>1 DEF Untouched, Same, Onwards
  <2>7. \A d \in Client : d # cur => ClientOK(d)'
    BY <2>1, <2>6, OthersKept
  <2>8. closing' = closing \/ Malformed(cur, conn[cur].recv)
    BY <1>2 DEF HttpCb
  <2>9. ClientOK(c)'
    <3>1. Connection(c)' /\ InOrder(c)'
      BY <2>1, <2>2 DEF ClientOK, Connection, InOrder, Stream
    <3>2. Malformed(c, conn[c].recv)' <=> Malformed(c, conn[c].recv)
      BY <2>1 DEF Malformed, KindOf
    <3>3. Justified(c)'
      BY <2>0, <2>1, <2>2, <2>8, <3>2 DEF ClientOK, Justified, KindOf
    <3>4. Waiting(c)'
      BY <1>2, <2>0, <2>1, <2>2, <3>2 DEF ClientOK, Waiting, AfterFile, KindOf
    <3> QED BY <3>1, <3>3, <3>4 DEF ClientOK
  <2> QED BY <2>0, <2>3, <2>4, <2>5, <2>7, <2>9 DEF IInv
<1> QED BY <1>1, <1>2

-----------------------------------------------------------------------------
(* http_cb going round with a message of length zero *)

\* What was handed to cb: requests that were sent, in order and once unless
\* they have no end, and cut off for a reason.
HandledOK(c) ==
  LET h == handled[c]
  IN /\ \A i \in 1 .. Len(h) : h[i].req \in 1 .. Len(sent[c])
     /\ \A i, j \in 1 .. Len(h) :
          i < j => h[i].req < h[j].req \/ (h[i].req = h[j].req /\ h[i].body = "endless")
     /\ \A i \in 1 .. Len(h) : h[i].body \in {"cut", "swollen"} =>
          hup[c] \/ ~running \/ \E j \in 1 .. i - 1 : KindOf(c, h[j].req) = "head"

\* The message in front of connection c, for ever, is that of request n.
Turning(c, n) ==
  /\ c = cur /\ pc = "http_cb" /\ conn[c].recv # <<>>
  /\ Head(conn[c].recv).part = "loop" /\ Head(conn[c].recv).req = n
  /\ n \in 1 .. Len(sent[c]) /\ KindOf(c, n) # "bad"
  /\ \A i \in 1 .. Len(handled[c]) :
       handled[c][i].req < n \/ (handled[c][i].req = n /\ handled[c][i].body = "endless")

\* Nothing else goes on any more, but for the clients.
Turned == /\ ListOK /\ FlagsOK /\ Typed
          /\ \A c \in Client : Connection(c) /\ HandledOK(c)
          /\ \E c \in Client, n \in Nat : Turning(c, n)

LEMMA HandledWell == ASSUME Typed, NEW c \in Client, ClientOK(c) PROVE HandledOK(c)
<1> DEFINE h == handled[c]
<1>1. /\ h \in Seq(Handled) /\ Len(h) \in Nat /\ Len(sent[c]) \in Nat /\ Len(h) <= Len(sent[c])
      /\ \A i \in 1 .. Len(h) : h[i].req = i
  BY LenProperties DEF Typed, ClientOK, InOrder
<1>2. \A i \in 1 .. Len(h) : h[i].body \in {"cut", "swollen"} =>
        hup[c] \/ ~running \/ \E j \in 1 .. i - 1 : KindOf(c, h[j].req) = "head"
  <2>1. \A i \in 1 .. Len(h) : \A j \in 1 .. i - 1 : h[j].req = j
    BY <1>1
  <2>2. \A i \in 1 .. Len(h) : h[i].body \in {"cut", "swollen"} =>
          hup[c] \/ ~running \/ \E j \in 1 .. i - 1 : KindOf(c, j) = "head"
    BY DEF ClientOK, Justified
  <2> QED BY <2>1, <2>2
<1>3. \A i, j \in 1 .. Len(h) : i < j => h[i].req < h[j].req
  BY <1>1
<1>4. \A i \in 1 .. Len(h) : h[i].req \in 1 .. Len(sent[c])
  BY <1>1
<1> QED BY <1>2, <1>3, <1>4 DEF HandledOK

\* A client may send one more request.
Extended(c) == sent'[c] = sent[c] \/ \E kind \in Kind : sent'[c] = Append(sent[c], kind)

LEMMA SentStays ==
  ASSUME Typed, NEW c \in Client, Extended(c)
  PROVE  \A n \in 1 .. Len(sent[c]) : n \in 1 .. Len(sent'[c]) /\ KindOf(c, n)' = KindOf(c, n)
<1>1. sent[c] \in Seq(Kind) /\ Len(sent[c]) \in Nat
  BY LenProperties DEF Typed
<1>2. CASE sent'[c] = sent[c]
  BY <1>2 DEF KindOf
<1>3. ASSUME NEW kind \in Kind, sent'[c] = Append(sent[c], kind)
      PROVE  \A n \in 1 .. Len(sent[c]) : n \in 1 .. Len(sent'[c]) /\ KindOf(c, n)' = KindOf(c, n)
  <2>1. Len(sent'[c]) = Len(sent[c]) + 1 /\ \A n \in 1 .. Len(sent[c]) : sent'[c][n] = sent[c][n]
    BY <1>1, <1>3, AppendProperties
  <2> QED BY <1>1, <2>1 DEF KindOf
<1> QED BY <1>2, <1>3 DEF Extended

LEMMA HandledStays ==
  ASSUME Typed, NEW c \in Client, HandledOK(c), Extended(c), handled'[c] = handled[c],
         hup[c] => hup'[c], running' => running
  PROVE  HandledOK(c)'
<1> DEFINE h == handled[c]
<1>1. h \in Seq(Handled) /\ Len(h) \in Nat
  BY LenProperties DEF Typed
<1>2. \A i \in 1 .. Len(h) : h[i].req \in 1 .. Len(sent'[c]) /\ KindOf(c, h[i].req)' = KindOf(c, h[i].req)
  BY SentStays DEF HandledOK
<1>3. \A i \in 1 .. Len(h) : \A j \in 1 .. i - 1 : KindOf(c, h[j].req)' = KindOf(c, h[j].req)
  BY <1>1, <1>2
<1>4. \A i \in 1 .. Len(h) : h[i].body \in {"cut", "swollen"} =>
        hup'[c] \/ ~running' \/ \E j \in 1 .. i - 1 : KindOf(c, h[j].req)' = "head"
  BY <1>3 DEF HandledOK
<1> QED BY <1>2, <1>4 DEF HandledOK, KindOf

LEMMA TurnBegins == ASSUME IInv, Round PROVE Turned
<1>0. PICK c : c = cur
  OBVIOUS
<1>1. /\ ListOK /\ FlagsOK /\ Typed /\ (\A d \in Client : ClientOK(d))
      /\ pc = "http_cb" /\ cur # Listener /\ pc \in Visiting
      /\ conn[c].recv # <<>> /\ Head(conn[c].recv).part = "loop" /\ ~Malformed(c, conn[c].recv)
  BY <1>0 DEF IInv, FlagsOK, Round, Spins, Visiting
<1>2. c \in Client /\ peer[c] = "open" /\ ClientOK(c)
  BY <1>0, <1>1, Visited
<1> DEFINE r == conn[c].recv
           n == Len(handled[c]) + 1
<1>3. /\ r \in Seq(Fragment) /\ Stream(c) \in Seq(Fragment) /\ Len(Stream(c)) \in Nat
      /\ \A i \in 1 .. Len(r) : Stream(c)[i] = r[i]
      /\ \A i \in 1 .. Len(r) : r[i].req \in 1 .. Len(sent[c])
      /\ Len(Stream(c)) = Len(r) + Len(inbox[c]) /\ Len(inbox[c]) \in Nat
      /\ Len(handled[c]) \in Nat
  BY <1>1, <1>2, Known, LenProperties DEF Typed
<1>4. Len(r) \in Nat /\ Len(r) # 0 /\ Head(r) = r[1]
  <2> HIDE DEF r
  <2>1. r \in Seq(Fragment) /\ r # <<>>
    BY <1>1, <1>3 DEF r
  <2> QED BY <2>1, Empties, HeadTailProperties
<1>5. Head(r).req = n /\ n \in 1 .. Len(sent[c])
  <2>1. Orderly(Stream(c), Len(handled[c]), Len(sent[c]))
    BY <1>2 DEF ClientOK, InOrder
  <2>2. Len(Stream(c)) # 0 /\ 1 \in 1 .. Len(r) /\ Len(<<>>) = 0
    <3> HIDE DEF r
    <3> QED BY <1>3, <1>4
  <2>3. Stream(c)[1].req = Len(handled[c]) + 1
    BY <2>1, <2>2 DEF Orderly
  <2> QED BY <1>3, <1>4, <2>2, <2>3
<1>6. KindOf(c, n) # "bad"
  BY <1>1, <1>5 DEF Malformed
<1>7. \A i \in 1 .. Len(handled[c]) : handled[c][i].req < n
  BY <1>2, <1>3 DEF ClientOK, InOrder
<1>8. n \in Nat
  BY <1>3
<1>9. Turning(c, n)
  BY <1>0, <1>1, <1>5, <1>6, <1>7 DEF Turning
<1>10. \A d \in Client : Connection(d) /\ HandledOK(d)
  BY <1>1, HandledWell DEF ClientOK
<1> HIDE DEF n
<1> QED BY <1>1, <1>2, <1>8, <1>9, <1>10 DEF Turned

\* One more turn hands request n over again.
TurnFacts(c, n, x) ==
  /\ c \in Client /\ n \in Nat \ {0} /\ Turning(c, n) /\ Given(c, n, KindOf(c, n), x)
  /\ x.body = "endless" /\ conn'[c].recv = conn[c].recv /\ peer[c] = "open"
  /\ Len(handled[c]) \in Nat /\ Len(handled'[c]) = Len(handled[c]) + 1
  /\ handled'[c][Len(handled[c]) + 1] = x
  /\ \A i \in 1 .. Len(handled[c]) : handled'[c][i] = handled[c][i]
  /\ UNCHANGED <<pc, argc, libdir, freeing, conns, todo, readable, writable, peer,
                 client, got, closing>>

LEMMA OneTurn == ASSUME Turned, HttpCb PROVE \E c, n, x : TurnFacts(c, n, x)
<1>1. PICK c \in Client, n \in Nat : Turning(c, n)
  BY DEF Turned
<1> DEFINE r == conn[c].recv
<1>2. /\ ListOK /\ Typed /\ Connection(c) /\ pc \in Visiting /\ cur # Listener /\ c = cur
      /\ r # <<>> /\ Head(r).part = "loop" /\ Head(r).req = n /\ KindOf(c, n) # "bad"
      /\ sent[c] \in Seq(Kind) /\ r \in Seq(Fragment) /\ Len(r) \in Nat
      /\ n \in 1 .. Len(sent[c]) /\ n \in Nat \ {0} /\ handled[c] \in Seq(Handled)
      /\ Len(handled[c]) \in Nat
  BY <1>1, LenProperties DEF Turned, Turning, Typed, FlagsOK, Visiting, Connection, Buffer, Record
<1>3. KindOf(c, n) \in Kind \ {"bad"} /\ peer[c] = "open"
  BY <1>2, ElementOfSeq, Visited DEF KindOf
<1>4. ~Malformed(c, r) /\ Complete(r)
  BY <1>2 DEF Malformed, Complete
<1>5. /\ Handle(c, r) /\ pc' = "http_cb" /\ pc = "http_cb"
      /\ UNCHANGED <<argc, libdir, freeing, conns, todo, readable, writable, peer,
                     client, got, closing>>
  BY <1>2, <1>4 DEF HttpCb, AfterMessage
<1>6. Rest(r) = r /\ BodyOf(r) = "endless"
  <2>1. MessageLen(r) = 0 /\ BodyOf(r) = "endless"
    BY <1>2 DEF MessageLen, BodyOf, Endless
  <2> HIDE DEF r
  <2>2. SubSeq(r, 1, Len(r)) = r
    BY <1>2, SubSeqFull
  <2> QED BY <2>1, <2>2 DEF Rest
<1>7. PICK x : Given(c, n, KindOf(c, n), x)
  BY <1>2, <1>3, <1>5, <1>6, Giving
<1>8. handled'[c] = Append(handled[c], x) /\ x \in Handled /\ x.body = "endless" /\ conn'[c].recv = r
  BY <1>6, <1>7 DEF Given
<1>9. /\ Len(handled'[c]) = Len(handled[c]) + 1 /\ handled'[c][Len(handled[c]) + 1] = x
      /\ \A i \in 1 .. Len(handled[c]) : handled'[c][i] = handled[c][i]
  BY <1>2, <1>8, AppendProperties
<1>10. TurnFacts(c, n, x)
  BY <1>1, <1>2, <1>3, <1>5, <1>7, <1>8, <1>9 DEF TurnFacts
<1> QED BY <1>10

LEMMA TurnStep == ASSUME Turned, HttpCb PROVE Turned'
<1>1. PICK c, n, x : TurnFacts(c, n, x)
  BY OneTurn
<1> DEFINE m == Len(handled[c])
           kind == KindOf(c, n)
<1>2. /\ ListOK /\ FlagsOK /\ Typed /\ (\A d \in Client : Connection(d) /\ HandledOK(d))
      /\ c \in Client /\ n \in Nat \ {0} /\ c = cur /\ pc = "http_cb" /\ pc \in Visiting
      /\ cur \in Client /\ cur # Listener /\ cur \notin closing /\ peer[c] = "open"
      /\ UNCHANGED <<pc, argc, libdir, freeing, conns, todo, readable, writable, peer,
                     sent, inbox, hup, got, closing>>
      /\ Given(c, n, kind, x) /\ m \in Nat /\ x.body = "endless" /\ x.req = n
      /\ n \in 1 .. Len(sent[c])
  BY <1>1, ClientAssumption DEF Turned, TurnFacts, Turning, FlagsOK, Visiting, client, Given
<1>3. /\ Len(handled'[c]) = m + 1 /\ handled'[c][m + 1] = x
      /\ \A i \in 1 .. m : handled'[c][i] = handled[c][i]
  BY <1>1 DEF TurnFacts
<1> HIDE DEF m, kind
<1>4. running' \in BOOLEAN /\ (running' => running)
  BY <1>2 DEF Given, ListOK
<1>5. ListOK'
  BY <1>2, <1>4, ListKept
<1>6. FlagsOK'
  <2>1. draining' = draining \/ draining' = draining \cup {cur}
    BY <1>2 DEF Given
  <2> QED BY <1>2, <1>4, <2>1, FlagsKept
<1>7. Typed'
  <2>1. conn[c].file # NoFile => conn[c].file.req \in Nat
    BY <1>2 DEF Connection, Buffer, Record, File
  <2>2. lost' \subseteq Client \X Nat
    BY <1>2, <2>1 DEF Given, Typed
  <2> QED BY <1>2, <2>2 DEF Given, Typed
<1>8. ASSUME NEW d \in Client PROVE Connection(d)'
  <2>1. CASE d = c
    <3>1. conn'[c].file # NoFile => conn'[c].file.req \in 1 .. Len(sent[c])
      BY <1>2 DEF Given, Connection
    <3> QED BY <1>2, <2>1, <3>1 DEF Given, Connection
  <2>2. CASE d # c
    BY <1>2, <2>2 DEF Given, Connection
  <2> QED BY <2>1, <2>2
<1>9. HandledOK(c)'
  <2> DEFINE h == handled[c]
             h1 == handled'[c]
  <2>1. \A i \in 1 .. Len(h1) : i \in 1 .. m \/ i = m + 1
    BY <1>2, <1>3
  <2>2. \A i \in 1 .. Len(h1) : h1[i].req \in 1 .. Len(sent[c])
    BY <1>2, <1>3, <2>1 DEF HandledOK, m
  <2>3. \A i \in 1 .. m : h[i].req < n \/ (h[i].req = n /\ h[i].body = "endless")
    BY <1>1 DEF TurnFacts, Turning, m
  <2>4. ASSUME NEW i \in 1 .. Len(h1), NEW j \in 1 .. Len(h1), i < j
        PROVE  h1[i].req < h1[j].req \/ (h1[i].req = h1[j].req /\ h1[i].body = "endless")
    <3>1. i \in 1 .. m /\ (j \in 1 .. m \/ j = m + 1)
      <4>1. m \in Nat /\ Len(h1) = m + 1
        BY <1>2, <1>3
      <4> HIDE DEF h, h1
      <4> QED BY <2>4, <4>1
    <3>2. CASE j \in 1 .. m
      <4>1. \A a, b \in 1 .. m : a < b => h[a].req < h[b].req \/ (h[a].req = h[b].req /\ h[a].body = "endless")
        BY <1>2 DEF HandledOK, m
      <4>2. h1[i] = h[i] /\ h1[j] = h[j]
        BY <1>3, <3>1, <3>2
      <4> HIDE DEF h, h1
      <4> QED BY ONLY <2>4, <3>1, <3>2, <4>1, <4>2
    <3>3. CASE j = m + 1
      <4>1. h1[i] = h[i] /\ h1[j] = x /\ x.req = n
        BY <1>2, <1>3, <3>1, <3>3
      <4> HIDE DEF h, h1
      <4> QED BY ONLY <2>3, <3>1, <4>1
    <3> QED BY <3>1, <3>2, <3>3
  <2>5. ASSUME NEW i \in 1 .. Len(h1), h1[i].body \in {"cut", "swollen"}
        PROVE  hup[c] \/ ~running \/ \E j \in 1 .. i - 1 : KindOf(c, h1[j].req) = "head"
    <3>1. i \in 1 .. m
      BY <1>2, <1>3, <2>1, <2>5
    <3>2. \A j \in 1 .. i - 1 : h1[j] = h[j]
      BY <1>2, <1>3, <3>1
    <3>3. hup[c] \/ ~running \/ \E j \in 1 .. i - 1 : KindOf(c, h[j].req) = "head"
      BY <1>2, <1>3, <2>5, <3>1 DEF HandledOK, m
    <3> QED BY <3>2, <3>3
  <2>6. \A k : KindOf(c, k)' = KindOf(c, k)
    BY <1>2 DEF KindOf
  <2> QED BY <1>2, <1>4, <2>2, <2>4, <2>5, <2>6 DEF HandledOK
<1>10. ASSUME NEW d \in Client, d # c PROVE HandledOK(d)'
  <2>1. handled'[d] = handled[d] /\ Extended(d) /\ hup' = hup /\ HandledOK(d)
    BY <1>2, <1>10 DEF Given, Extended
  <2> QED BY <1>2, <1>4, <2>1, HandledStays
<1>11. Turning(c, n)'
  <2>1. Turning(c, n) /\ conn'[c].recv = conn[c].recv
    BY <1>1 DEF TurnFacts
  <2>2. cur' = cur /\ KindOf(c, n)' = KindOf(c, n)
    BY <1>2 DEF cur, KindOf
  <2>3. \A i \in 1 .. Len(handled'[c]) :
          handled'[c][i].req < n \/ (handled'[c][i].req = n /\ handled'[c][i].body = "endless")
    <3>1. \A i \in 1 .. Len(handled'[c]) : i \in 1 .. m \/ i = m + 1
      BY <1>2, <1>3
    <3> QED BY <1>2, <1>3, <2>1, <3>1 DEF Turning, m
  <2> QED BY <1>2, <2>1, <2>2, <2>3 DEF Turning
<1> QED BY <1>2, <1>5, <1>6, <1>7, <1>8, <1>9, <1>10, <1>11 DEF Turned

\* The clients do not notice.
Meanwhile ==
  /\ UNCHANGED <<argc, libdir, pc, running, freeing, conns, todo, readable, writable, closing,
                 draining, conn, got, handled, lost>>
  /\ peer' \in [Client -> {"away", "backlog", "open", "closed"}]
  /\ sent' \in [Client -> Seq(Kind)] /\ inbox' \in [Client -> Seq(Fragment)]
  /\ hup' \in [Client -> BOOLEAN]
  /\ \A c \in Client : /\ peer'[c] = "open" <=> peer[c] = "open"
                       /\ hup[c] => hup'[c]
                       /\ Extended(c)

LEMMA Bystanders == ASSUME ListOK, Typed, Clients \/ UNCHANGED vars PROVE Meanwhile
<1>1. /\ peer \in [Client -> {"away", "backlog", "open", "closed"}]
      /\ sent \in [Client -> Seq(Kind)] /\ inbox \in [Client -> Seq(Fragment)]
      /\ hup \in [Client -> BOOLEAN]
  BY DEF ListOK, Typed
<1>2. CASE UNCHANGED vars
  BY <1>1, <1>2 DEF vars, Meanwhile, Extended
<1>3. ASSUME NEW c \in Client, Connect(c) PROVE Meanwhile
  BY <1>1, <1>3 DEF Connect, Meanwhile, Extended, flags, client
<1>4. ASSUME NEW c \in Client, HangUp(c) PROVE Meanwhile
  BY <1>1, <1>4 DEF HangUp, Meanwhile, Extended, flags
<1>5. ASSUME NEW c \in Client, NEW kind \in Kind, NEW part \in Part \ {"rest", "more"},
             Send(c, kind, part)
      PROVE  Meanwhile
  <2> DEFINE f == [req |-> Len(sent[c]) + 1, part |-> part]
  <2>1. Len(sent[c]) + 1 \in Nat
    BY <1>1, LenProperties
  <2>2. f \in Fragment
    BY <2>1 DEF Fragment
  <2>3. sent' = [sent EXCEPT ![c] = Append(@, kind)] /\ inbox' = [inbox EXCEPT ![c] = Append(@, f)]
    BY <1>5 DEF Send
  <2> HIDE DEF f
  <2>4. sent' \in [Client -> Seq(Kind)] /\ inbox' \in [Client -> Seq(Fragment)]
    BY <1>1, <2>2, <2>3, AppendProperties
  <2>5. \A d \in Client : Extended(d)
    BY <1>1, <2>3 DEF Extended
  <2> QED BY <1>1, <1>5, <2>4, <2>5 DEF Send, Meanwhile, flags
<1>6. ASSUME NEW c \in Client, NEW part \in {"rest", "more"}, SendBody(c, part) PROVE Meanwhile
  <2> DEFINE f == [req |-> Len(sent[c]), part |-> part]
  <2>1. Len(sent[c]) \in Nat
    BY <1>1, LenProperties
  <2>2. f \in Fragment
    BY <2>1 DEF Fragment, Part
  <2>3. inbox' = [inbox EXCEPT ![c] = Append(@, f)]
    BY <1>6 DEF SendBody
  <2> HIDE DEF f
  <2>4. inbox' \in [Client -> Seq(Fragment)]
    BY <1>1, <2>2, <2>3, AppendProperties
  <2> QED BY <1>1, <1>6, <2>4 DEF SendBody, Meanwhile, Extended, flags
<1> QED BY <1>2, <1>3, <1>4, <1>5, <1>6 DEF Clients

LEMMA TurnGoesOn == ASSUME Turned, Meanwhile PROVE Turned'
<1>1. PICK c \in Client, n \in Nat : Turning(c, n)
  BY DEF Turned
<1>2. /\ ListOK /\ FlagsOK /\ Typed /\ (\A d \in Client : Connection(d) /\ HandledOK(d))
      /\ Meanwhile /\ (\A d \in Client : Extended(d))
  BY DEF Turned, Meanwhile
<1>3. cur' = cur
  BY DEF Meanwhile, cur
<1>4. ListOK' /\ FlagsOK' /\ Typed'
  <2>1. ListOK'
    <3>1. /\ UNCHANGED <<argc, libdir, pc, running, freeing, conns, todo>>
          /\ peer' \in [Client -> {"away", "backlog", "open", "closed"}]
          /\ \A c1 \in Client : peer'[c1] = "open" <=> peer[c1] = "open"
      BY DEF Meanwhile
    <3> QED BY <1>2, <3>1 DEF ListOK
  <2>2. FlagsOK'
    BY <1>2, <1>3 DEF FlagsOK, Meanwhile
  <2>3. Typed'
    BY <1>2 DEF Typed, Meanwhile
  <2> QED BY <2>1, <2>2, <2>3
<1>5. ASSUME NEW d \in Client PROVE Connection(d)' /\ HandledOK(d)'
  <2>1. HandledOK(d)'
    BY <1>2, HandledStays DEF Meanwhile
  <2>2. conn[d].file # NoFile => conn[d].file.req \in 1 .. Len(sent'[d])
    BY <1>2, SentStays DEF Connection
  <2>3. Connection(d)'
    BY <1>2, <2>2 DEF Connection, Meanwhile
  <2> QED BY <2>1, <2>3
<1>6. Turning(c, n)'
  <2>1. n \in 1 .. Len(sent'[c]) /\ KindOf(c, n)' = KindOf(c, n)
    BY <1>1, <1>2, SentStays DEF Turning
  <2> QED BY <1>1, <1>2, <1>3, <2>1 DEF Turning, Meanwhile
<1> QED BY <1>4, <1>5, <1>6 DEF Turned

\* The steps that are left once http_cb goes round.
LEMMA OnlyTurns == ASSUME Turned, [Next]_vars PROVE HttpCb \/ Clients \/ UNCHANGED vars
<1>1. pc = "http_cb"
  BY DEF Turned, Turning
<1>2. Server => HttpCb
  BY <1>1 DEF Server, Start, Poll, FreeManager, Accept, Pass, Read, Write, WriteFails, Close
<1> QED BY <1>2 DEF Next, Gone, Spin

LEMMA TurnedStep == Turned /\ [Next]_vars => Turned'
<1> SUFFICES ASSUME Turned, [Next]_vars PROVE Turned'
  OBVIOUS
<1>1. ListOK /\ Typed
  BY DEF Turned
<1> QED BY <1>1, OnlyTurns, TurnStep, Bystanders, TurnGoesOn

-----------------------------------------------------------------------------
(* Writing, and the end of a connection *)

\* MG_EV_WRITE comes when part of the send buffer has been written.
LEMMA WroteSome ==
  ASSUME NEW k, Buffer(k), NEW n \in 1 .. Len(k.send)
  PROVE  /\ Buffer(Written(k, n)) /\ Written(k, n).recv = k.recv
         /\ Written(k, n).file = k.file
         /\ Written(k, n).send = SubSeq(k.send, n + 1, Len(k.send))
         /\ SubSeq(k.send, 1, n) \in Seq(Piece)
         /\ SubSeq(k.send, n + 1, Len(k.send)) \in Seq(Piece)
<1> DEFINE s == k.send
           rest == SubSeq(s, n + 1, Len(s))
           size == IF n = Len(s) THEN 0 ELSE k.size
<1>1. k \in Record /\ s \in Seq(Piece) /\ Len(s) \in Nat /\ k.size \in Nat /\ Len(s) <= k.size
  BY LenProperties DEF Buffer, Record
<1>2. n \in 0 .. Len(s)
  BY <1>1
<1>3. SubSeq(s, 1, n) \in Seq(Piece) /\ rest \in Seq(Piece) /\ Len(rest) = Len(s) - n
  <2> HIDE DEF s
  <2> QED BY <1>1, <1>2, Taken, Dropped
<1>4. Written(k, n) = [k EXCEPT !.send = rest, !.size = size]
  BY DEF Written
<1>5. size \in Nat /\ Len(rest) <= size
  <2> HIDE DEF rest, s
  <2> QED BY <1>1, <1>2, <1>3
<1> HIDE DEF rest, size
<1>6. Buffer([k EXCEPT !.send = rest, !.size = size])
  BY <1>1, <1>3, <1>5 DEF Buffer, Record
<1>7. /\ [k EXCEPT !.send = rest, !.size = size].recv = k.recv
      /\ [k EXCEPT !.send = rest, !.size = size].file = k.file
      /\ [k EXCEPT !.send = rest, !.size = size].send = rest
  BY <1>1 DEF Record
<1>8. SubSeq(s, 1, n) \in Seq(Piece) /\ rest \in Seq(Piece)
  BY <1>3
<1> QED BY <1>4, <1>6, <1>7, <1>8 DEF rest

\* The end of a visit keeps the list and the flags.
LEMMA LeaveKept ==
  ASSUME IInv, pc = "write", NEW k, Leave(k),
         UNCHANGED <<argc, libdir, running, freeing, conns, readable, writable,
                     draining, peer, sent, inbox, hup, handled, lost>>
  PROVE  /\ ListOK' /\ FlagsOK' /\ Onwards
         /\ closing' = closing \/ (closing' = closing \cup {cur} /\ cur \in draining)
<1>1. ListOK /\ FlagsOK /\ pc \in Visiting /\ cur # Listener
  BY DEF IInv, Visiting, FlagsOK
<1>2. cur \in Client
  BY <1>1, Visited
<1>3. /\ closing' = closing \/ (closing' = closing \cup {cur} /\ cur \in draining)
      /\ \/ pc' = "close" /\ todo' = todo /\ cur \in closing'
         \/ Advance /\ cur \notin closing'
  BY DEF Leave
<1>4. ListOK'
  BY <1>1, <1>3, ListKept DEF ListOK, Visiting
<1>5. FlagsOK'
  BY <1>1, <1>2, <1>3, FlagsKept DEF ListOK
<1> QED BY <1>3, <1>4, <1>5 DEF Onwards

LEMMA WriteStep == IInv /\ Write => IInv'
<1> SUFFICES ASSUME IInv, Write PROVE IInv'
  OBVIOUS
<1>0. PICK c : c = cur
  OBVIOUS
<1>1. /\ ListOK /\ FlagsOK /\ Typed /\ (\A d \in Client : ClientOK(d))
      /\ pc = "write" /\ pc \in Visiting /\ cur # Listener
      /\ UNCHANGED <<argc, libdir, running, freeing, conns, readable, writable,
                     draining, peer, sent, inbox, hup, handled, lost>>
  BY DEF IInv, Write, Visiting, FlagsOK, client
<1>2. c \in Client /\ peer[c] = "open" /\ ClientOK(c)
  BY <1>0, <1>1, Visited
<1>3. Buffer(conn[c]) /\ (conn[c].file # NoFile => conn[c].send # <<>>)
  BY <1>2 DEF ClientOK, Connection
<1>4. \E k : Leave(k)
  BY DEF Write
<1>5. /\ ListOK' /\ FlagsOK' /\ Onwards
      /\ closing' = closing \/ (closing' = closing \cup {c} /\ c \in draining)
  BY <1>0, <1>1, <1>4, LeaveKept
<1>6. CASE conn' = conn /\ got' = got
  <2>1. Typed'
    BY <1>1, <1>6 DEF Typed
  <2>2. \A d \in Client : Untouched(d)
    BY <1>1, <1>5, <1>6 DEF Untouched, Same
  <2> QED BY <1>1, <1>5, <2>1, <2>2, OthersKept DEF IInv
<1>7. ASSUME NEW n \in 1 .. Len(conn[c].send),
             conn' = [conn EXCEPT ![c] = StaticCb(Written(conn[c], n))],
             got' = [got EXCEPT ![c] = @ \o SubSeq(conn[c].send, 1, n)]
      PROVE  IInv'
  <2> DEFINE k == Written(conn[c], n)
             l == StaticCb(k)
             x == SubSeq(conn[c].send, 1, n)
  <2>1. Buffer(k) /\ k.recv = conn[c].recv /\ k.file = conn[c].file /\ x \in Seq(Piece)
    BY <1>3, <1>7, WroteSome
  <2>2. /\ Buffer(l) /\ l.recv = conn[c].recv
        /\ l.file # NoFile => /\ conn[c].file # NoFile /\ l.file.req = conn[c].file.req
                              /\ l.send # <<>>
    <3> HIDE DEF k
    <3> QED BY <2>1, Topped
  <2> HIDE DEF k, l, x
  <2>3. conn' = [conn EXCEPT ![c] = l] /\ got' = [got EXCEPT ![c] = @ \o x]
    BY <1>7 DEF k, l, x
  <2>4. got[c] \o x \in Seq(Piece)
    BY <1>1, <1>2, <2>1, ConcatProperties DEF Typed
  <2>5. got' \in [Client -> Seq(Piece)]
    BY <1>1, <2>3, <2>4 DEF Typed
  <2>6. Typed' /\ \A d \in Client : ClientOK(d)'
    BY <1>1, <1>2, <1>5, <2>2, <2>3, <2>5, Replaced
  <2> QED BY <1>5, <2>6 DEF IInv
<1>8. \/ conn' = conn /\ got' = got
      \/ \E n \in 1 .. Len(conn[c].send) :
           /\ conn' = [conn EXCEPT ![c] = StaticCb(Written(conn[c], n))]
           /\ got' = [got EXCEPT ![c] = @ \o SubSeq(conn[c].send, 1, n)]
  BY <1>0 DEF Write
<1> QED BY <1>6, <1>7, <1>8

LEMMA WriteFailsStep == IInv /\ WriteFails => IInv'
<1> SUFFICES ASSUME IInv, WriteFails PROVE IInv'
  OBVIOUS
<1>1. /\ ListOK /\ FlagsOK /\ Typed /\ (\A d \in Client : ClientOK(d))
      /\ pc = "write" /\ pc \in Visiting /\ cur # Listener /\ hup[cur]
      /\ UNCHANGED <<argc, libdir, running, freeing, conns, todo, readable, writable,
                     draining, conn, peer, client, got, handled, lost>>
      /\ closing' = closing \cup {cur} /\ pc' = "close"
  BY DEF IInv, WriteFails, Visiting, FlagsOK
<1>2. cur \in Client
  BY <1>1, Visited
<1>3. ListOK'
  BY <1>1, ListKept DEF ListOK, Visiting
<1>4. FlagsOK'
  BY <1>1, <1>2, FlagsKept DEF ListOK
<1>5. Typed'
  BY <1>1 DEF Typed, client
<1>6. \A d \in Client : Untouched(d) /\ Onwards
  BY <1>1 DEF Untouched, Same, Onwards, client
<1> QED BY <1>1, <1>3, <1>4, <1>5, <1>6, OthersKept DEF IInv

LEMMA CloseStep == IInv /\ Close => IInv'
<1> SUFFICES ASSUME IInv, Close PROVE IInv'
  OBVIOUS
<1>0. PICK c : c = cur
  OBVIOUS
<1>1. /\ ListOK /\ FlagsOK /\ Typed /\ (\A d \in Client : ClientOK(d))
      /\ pc = "close" /\ pc \in Visiting /\ cur \in closing /\ Advance
      /\ UNCHANGED <<argc, libdir, freeing, readable, writable, client, got>>
      /\ conns' = RemoveFirst(conns, cur) /\ closing' = closing \ {cur}
  BY DEF IInv, Close, Visiting, FlagsOK
<1>2. /\ conns' \in Seq(Node) /\ IsInjective(conns') /\ ToSet(conns') = ToSet(conns) \ {cur}
  BY <1>1, Visited, Removed DEF ListOK
<1>3. /\ todo' \in Seq(Node) /\ IsInjective(todo') /\ ToSet(todo') \subseteq ToSet(conns')
      /\ pc' \in {"visit", "poll", "end"}
      /\ todo' = <<>> <=> pc' \notin Visiting
      /\ pc' = "end" \/ pc' \in Visiting \/ ~freeing
  <2>1. todo' = Tail(todo) /\ ToSet(todo) \subseteq ToSet(conns)
    BY <1>1 DEF Advance, ListOK
  <2>2. todo' \in Seq(Node) /\ IsInjective(todo') /\ ToSet(todo') \subseteq ToSet(conns')
    BY <1>1, <1>2, <2>1, Visited
  <2> QED BY <1>1, <2>2 DEF Advance, ListOK, Visiting
<1>4. /\ pc' \in {"visit", "end"} \/ (pc' = "poll" /\ ~freeing)
      /\ \A d \in closing' : freeing
      /\ Listener \notin ToSet(conns') => freeing
  BY <1>1, <1>2, <1>3 DEF FlagsOK, Visiting, ListOK
<1>5. ASSUME running' \in BOOLEAN, running' => running,
             peer' \in [Client -> {"away", "backlog", "open", "closed"}],
             \A d \in Client : peer'[d] = "open" <=> peer[d] = "open" /\ d # cur
      PROVE  ListOK'
  <2>1. \A d \in Client : peer'[d] = "open" <=> d \in ToSet(conns')
    BY <1>1, <1>2, <1>5 DEF ListOK
  <2>2. Listener \in ToSet(conns') \/ freeing'
    BY <1>1, <1>4
  <2>3. pc' # "start" /\ pc' \in {"start", "poll", "end", "crashed"} \cup Visiting
    BY <1>3 DEF Visiting
  <2> QED BY <1>1, <1>2, <1>3, <1>5, <2>1, <2>2, <2>3 DEF ListOK
<1>6. ASSUME running' => running, draining' \subseteq draining PROVE FlagsOK'
  BY <1>1, <1>4, <1>6 DEF FlagsOK
<1>7. CASE cur = Listener
  <2>1. /\ peer' = [d \in Client |-> IF peer[d] = "backlog" THEN "closed" ELSE peer[d]]
        /\ UNCHANGED <<conn, draining, running, handled, lost>>
    BY <1>7 DEF Close
  <2>2. /\ peer' \in [Client -> {"away", "backlog", "open", "closed"}]
        /\ \A d \in Client : d # cur /\ peer'[d] = IF peer[d] = "backlog" THEN "closed" ELSE peer[d]
    BY <1>1, <1>7, <2>1, ClientAssumption DEF ListOK
  <2>3. ListOK' /\ FlagsOK'
    BY <1>1, <1>5, <1>6, <2>1, <2>2 DEF ListOK
  <2>4. Typed'
    BY <1>1, <2>1 DEF Typed, client
  <2>5. \A d \in Client : Untouched(d) /\ Onwards
    BY <1>1, <2>1, <2>2 DEF Untouched, Same, Onwards, client
  <2> QED BY <1>1, <2>3, <2>4, <2>5, OthersKept DEF IInv
<1>8. CASE cur # Listener
  <2> DEFINE last == LastMessage(c)
             n == Head(last).req
             record == [req |-> n, body |-> Extent(last), how |-> "close"]
  <2>1. c \in Client /\ peer[c] = "open" /\ ClientOK(c)
    BY <1>0, <1>1, <1>8, Visited
  <2>2. /\ peer' = [peer EXCEPT ![c] = "closed"]
        /\ conn' = [conn EXCEPT ![c] = Fresh]
        /\ draining' = draining \ {c}
        /\ lost' = lost \cup LostAtClose(c, last)
        /\ running' = (running /\ (last # <<>> => KindOf(c, n) # "stop"))
        /\ handled' = IF last = <<>> THEN handled
                      ELSE [handled EXCEPT ![c] = Append(@, record)]
    BY <1>0, <1>8 DEF Close
  <2>3. ListOK' /\ FlagsOK'
    <3>1. running' \in BOOLEAN /\ (running' => running)
      BY <1>1, <2>2 DEF ListOK
    <3>2. /\ peer' \in [Client -> {"away", "backlog", "open", "closed"}]
          /\ \A d \in Client : peer'[d] = "open" <=> peer[d] = "open" /\ d # cur
      BY <1>0, <1>1, <2>1, <2>2 DEF ListOK
    <3> QED BY <1>5, <1>6, <2>2, <3>1, <3>2
  <2>4. /\ handled[c] \in Seq(Handled) /\ Len(handled[c]) \in Nat /\ Len(sent[c]) \in Nat
        /\ Len(handled[c]) + 1 \in Nat
    BY <1>1, <2>1, LenProperties DEF Typed
  <2>5. ASSUME last # <<>>
        PROVE  /\ last = conn[c].recv /\ ~Malformed(c, last)
               /\ n = Len(handled[c]) + 1 /\ n \in Nat /\ n <= Len(sent[c])
               /\ record \in Handled
    <3>1. last = conn[c].recv /\ ~Malformed(c, last)
      BY <2>5 DEF LastMessage
    <3> HIDE DEF last
    <3>2. /\ last \in Seq(Fragment) /\ Stream(c) \in Seq(Fragment)
          /\ \A i \in 1 .. Len(last) : Stream(c)[i] = last[i]
          /\ \A i \in 1 .. Len(last) : last[i].req \in 1 .. Len(sent[c])
          /\ Len(Stream(c)) = Len(last) + Len(inbox[c]) /\ inbox[c] \in Seq(Fragment)
      BY <1>1, <2>1, <3>1, Known
    <3>3. Head(last) = last[1] /\ Len(last) \in Nat \ {0} /\ 1 \in 1 .. Len(last)
      BY <2>5, <3>2, HeadTailProperties, Empties
    <3>4. Stream(c) # <<>>
      BY <3>2, <3>3, Empties
    <3>5. last[1].req = Len(handled[c]) + 1
      BY <2>1, <3>2, <3>3, <3>4 DEF ClientOK, InOrder, Orderly
    <3>6. Extent(last) \in {"whole", "cut", "swollen", "overlong", "endless"}
      BY DEF Extent
    <3>7. n = Len(handled[c]) + 1 /\ n \in 1 .. Len(sent[c])
      BY <3>2, <3>3, <3>5
    <3> QED BY <2>4, <3>1, <3>6, <3>7 DEF Handled
  <2> HIDE DEF last
  <2>6. /\ conn'[c] = Fresh /\ (\A d \in Client : d # c => conn'[d] = conn[d])
        /\ peer'[c] = "closed" /\ \A d \in Client : d # c => peer'[d] = peer[d]
    BY <1>1, <2>1, <2>2 DEF Typed, ListOK
  <2>7. Buffer(Fresh) /\ Fresh.file = NoFile /\ Fresh.recv = <<>>
    BY EmptySeq DEF Fresh, Buffer, Record
  <2>8. last # <<>> => Append(handled[c], record) \in Seq(Handled)
    <3> HIDE DEF record
    <3> QED BY <2>4, <2>5, AppendProperties
  <2>9. Typed'
    <3>1. LostAtClose(c, last) \subseteq Client \X Nat
      BY <2>1, <2>5 DEF LostAtClose
    <3>2. handled' \in [Client -> Seq(Handled)]
      BY <1>1, <2>2, <2>8 DEF Typed
    <3>3. lost' \subseteq Client \X Nat
      BY <1>1, <2>2, <3>1 DEF Typed
    <3>4. conn' \in [Client -> Record]
      BY <1>1, <2>2, <2>7 DEF Typed, Buffer
    <3> QED BY <1>1, <3>2, <3>3, <3>4 DEF Typed, client
  <2>10. ClientOK(c)'
    <3>1. Connection(c)'
      BY <2>2, <2>6, <2>7 DEF Connection
    <3>2. CASE last = <<>>
      <4>1. handled' = handled /\ client' = client /\ c \notin closing' /\ c \notin draining'
        BY <1>0, <1>1, <2>2, <3>2
      <4>2. running' => running
        BY <2>2
      <4>3. InOrder(c)'
        BY <2>1, <2>6, <4>1 DEF ClientOK, InOrder, client
      <4>4. Justified(c)'
        BY <2>1, <4>1, <4>2 DEF ClientOK, Justified, KindOf, client
      <4>5. Waiting(c)'
        BY <2>6, <2>7 DEF Waiting, Complete, Malformed
      <4> QED BY <3>1, <4>3, <4>4, <4>5 DEF ClientOK
    <3>3. CASE last # <<>>
      <4> DEFINE h == handled[c]
                 h1 == handled'[c]
      <4>1. h1 = Append(h, record) /\ client' = client /\ c \notin closing' /\ c \notin draining'
        BY <1>0, <1>1, <2>1, <2>2, <3>3 DEF Typed
      <4>2. /\ n = Len(h) + 1 /\ n \in Nat /\ n <= Len(sent[c]) /\ record \in Handled
            /\ last = conn[c].recv /\ ~Malformed(c, last)
        BY <2>5, <3>3
      <4> HIDE DEF record
      <4>3. Len(h1) = n /\ h1[n] = record /\ \A i \in 1 .. Len(h) : h1[i] = h[i]
        BY <2>4, <4>1, <4>2, AppendProperties
      <4>4. record.req = n /\ record.body = Extent(last)
        BY DEF record
      <4> HIDE DEF n
      <4>5. InOrder(c)'
        <5>1. ASSUME NEW i \in 1 .. n PROVE h1[i].req = i
          <6>1. CASE i = n
            BY <4>3, <4>4, <6>1
          <6>2. CASE i # n
            <7>1. i \in 1 .. Len(h)
              BY <2>4, <4>2, <6>2
            <7> QED BY <2>1, <4>3, <7>1 DEF ClientOK, InOrder
          <6> QED BY <6>1, <6>2
        <5> QED BY <2>6, <4>1, <4>2, <4>3, <5>1 DEF InOrder, client
      <4>6. \A i \in Nat : KindOf(c, i)' = KindOf(c, i)
        BY <4>1 DEF KindOf, client
      <4>7. ASSUME record.body \in {"cut", "swollen"}
            PROVE  hup[c] \/ ~running \/ \E j \in 1 .. n - 1 : KindOf(c, j) = "head"
        <5>1. ~Full(conn[c].recv)
          BY <4>2, <4>4, <4>7 DEF Extent
        <5>2. hup[c] \/ freeing \/ c \in draining
          BY <1>0, <1>1, <2>1, <4>2, <5>1 DEF ClientOK, Justified
        <5>3. n - 1 = Len(h)
          BY <2>4, <4>2
        <5> QED BY <1>1, <2>1, <5>2, <5>3 DEF ClientOK, Justified, FlagsOK
      <4>8. ASSUME NEW i \in 1 .. n, h1[i].body \in {"cut", "swollen"}
            PROVE  hup[c] \/ ~running \/ \E j \in 1 .. i - 1 : KindOf(c, j) = "head"
        <5>1. CASE i = n
          BY <4>3, <4>7, <4>8, <5>1
        <5>2. CASE i # n
          <6>1. i \in 1 .. Len(h)
            BY <2>4, <4>2, <5>2
          <6> QED BY <2>1, <4>3, <4>8, <6>1 DEF ClientOK, Justified
        <5> QED BY <5>1, <5>2
      <4>9. Justified(c)'
        <5>1. \A i \in 1 .. n : \A j \in 1 .. i - 1 : j \in Nat
          BY <4>2
        <5>2. (running' => running) /\ hup' = hup
          BY <2>2, <4>1 DEF client
        <5> QED BY <4>1, <4>3, <4>6, <4>8, <5>1, <5>2 DEF Justified
      <4>10. Waiting(c)'
        BY <2>6, <2>7 DEF Waiting, Complete, Malformed
      <4> QED BY <3>1, <4>5, <4>9, <4>10 DEF ClientOK
    <3> QED BY <3>2, <3>3
  <2>11. ASSUME NEW d \in Client, d # c PROVE ClientOK(d)'
    <3>1. handled'[d] = handled[d]
      BY <1>1, <2>2, <2>11 DEF Typed
    <3>2. Untouched(d) /\ Onwards
      BY <1>0, <1>1, <2>2, <2>6, <2>11, <3>1 DEF Untouched, Same, Onwards, client
    <3> QED BY <1>1, <2>11, <3>2, OthersKept
  <2> QED BY <2>3, <2>9, <2>10, <2>11 DEF IInv
<1> QED BY <1>7, <1>8

-----------------------------------------------------------------------------
(* The invariant, and the theorems that follow from it *)

LEMMA InvStep == ASSUME IInv, [Next]_vars, ~(HttpCb /\ Round) PROVE IInv'
<1>1. CASE UNCHANGED vars
  BY <1>1 DEF vars, flags, client, IInv, ListOK, FlagsOK, Typed, ClientOK, Connection, InOrder,
              Justified, Waiting, AfterFile, Stream, KindOf, Malformed, cur
<1>2. CASE Server
  BY <1>2, StartStep, PollStep, FreeManagerStep, AcceptStep, PassStep, ReadStep, HttpCbStep,
     WriteStep, WriteFailsStep, CloseStep DEF Server
<1>3. CASE Clients
  BY <1>3, ConnectStep, HangUpStep, SendStep, SendBodyStep DEF Clients
<1> QED BY <1>1, <1>2, <1>3 DEF Next, Gone, Spin

LEMMA Invariance == Spec => [](IInv \/ Turned)
<1>1. IInv /\ [Next]_vars => IInv' \/ Turned'
  BY InvStep, TurnBegins, TurnStep
<1>2. Turned /\ [Next]_vars => Turned'
  BY TurnedStep
<1> QED BY InitInv, <1>1, <1>2, PTL DEF Spec

\* What the two have in common.
Frame == /\ ListOK /\ FlagsOK /\ Typed
         /\ \A c \in Client : Connection(c) /\ HandledOK(c)

LEMMA Framed == IInv \/ Turned => Frame
BY HandledWell DEF IInv, Turned, Frame, ClientOK

\* Every variable keeps its type.  In particular nothing is written past the end
\* of a send buffer, and a file that is being sent is one that was asked for.
THEOREM TypeCorrect == Spec => []TypeOK
<1>1. Frame => TypeOK
  <2> SUFFICES ASSUME Frame PROVE TypeOK
    OBVIOUS
  <2>1. ListOK /\ FlagsOK /\ Typed /\ \A c \in Client : Connection(c)
    BY DEF Frame
  <2>2. ToSet(conns) \subseteq Node
    BY <2>1, SetOf DEF ListOK
  <2>3. IsSuffix(todo, conns) \/ pc \in Visiting
    BY <2>1, EmptyIsSuffix DEF ListOK
  <2>4. ASSUME NEW c \in Client
        PROVE  /\ {inbox[c], conn[c].recv} \subseteq Seq(Fragment)
               /\ {got[c], conn[c].send} \subseteq Seq(Piece)
               /\ Len(conn[c].send) <= conn[c].size
               /\ \/ conn[c].file = NoFile
                  \/ conn[c].file \in [req : 1 .. Len(sent[c]), left : 0 .. FileLen]
    BY <2>1 DEF Typed, Connection, Buffer, Record, File
  <2> QED BY <2>1, <2>2, <2>3, <2>4 DEF TypeOK, ListOK, FlagsOK, Typed, Visiting, Node
<1> QED BY Invariance, Framed, <1>1, PTL

\* However a client's requests are cut up, read together, left over for a later
\* call of http_cb or for the one at the close, they are handed to cb in order,
\* and each at most once, but for one whose Content-Length takes back all of its
\* header: that one is handed over again and again.
THEOREM Order == Spec => []HandledInOrder
<1>1. Frame => HandledInOrder
  <2> SUFFICES ASSUME Frame, NEW c \in Client, NEW i \in DOMAIN handled[c],
                      NEW j \in DOMAIN handled[c], i < j
               PROVE  \/ handled[c][i].req < handled[c][j].req
                      \/ handled[c][i].req = handled[c][j].req /\ handled[c][i].body = "endless"
    BY DEF HandledInOrder
  <2>1. handled[c] \in Seq(Handled) /\ DOMAIN handled[c] = 1 .. Len(handled[c])
    BY LenProperties DEF Frame, Typed
  <2> QED BY <2>1 DEF Frame, HandledOK
<1> QED BY Invariance, Framed, <1>1, PTL

\* A request that lies complete in the receive buffer while select waits came
\* behind that of a static file.
THEOREM Prompt == Spec => []WaitsOnlyBehindFile
<1>1. IInv => WaitsOnlyBehindFile
  <2> SUFFICES ASSUME IInv, NEW c \in Client, pc = "poll",
                      Complete(conn[c].recv) \/ Malformed(c, conn[c].recv)
               PROVE  /\ handled[c] # <<>>
                      /\ \/ KindOf(c, Last(handled[c]).req) = "file"
                         \/ Last(handled[c]).how = "behind"
    BY DEF WaitsOnlyBehindFile
  <2>1. c \notin closing /\ AfterFile(c)
    BY DEF IInv, ClientOK, Waiting, FlagsOK
  <2>2. Last(handled[c]).req = Len(handled[c])
    <3>1. handled[c] # <<>> /\ handled[c] \in Seq(Handled)
      BY <2>1 DEF IInv, Typed, AfterFile
    <3>2. Len(handled[c]) \in 1 .. Len(handled[c])
      BY <3>1, Empties
    <3> QED BY <3>2 DEF IInv, ClientOK, InOrder, Last
  <2> QED BY <2>1, <2>2 DEF AfterFile
<1>2. Turned => WaitsOnlyBehindFile
  BY DEF Turned, Turning, WaitsOnlyBehindFile
<1> QED BY Invariance, <1>1, <1>2, PTL

\* A handler is given a body that is cut off or runs into the next request only
\* at the end of its connection, for one of the reasons a connection ends; the
\* one other body that is not what was sent is that of a Content-Length below
\* zero, which has no end.
THEOREM Bodies == Spec => []CutOnlyAtTheEnd
<1>1. Frame => CutOnlyAtTheEnd
  <2> SUFFICES ASSUME Frame, NEW c \in Client, NEW i \in DOMAIN handled[c],
                      handled[c][i].body \in {"cut", "swollen"}
               PROVE  hup[c] \/ ~running \/ \E j \in 1 .. i - 1 : KindOf(c, handled[c][j].req) = "head"
    BY DEF CutOnlyAtTheEnd
  <2>1. handled[c] \in Seq(Handled) /\ DOMAIN handled[c] = 1 .. Len(handled[c])
    BY LenProperties DEF Frame, Typed
  <2> QED BY <2>1 DEF Frame, HandledOK
<1> QED BY Invariance, Framed, <1>1, PTL

-----------------------------------------------------------------------------
(* What a client is owed: the replies to its first requests, in a row *)

Flat(f, s, n) == f = [i \in 1 .. n |-> IF i = 1 THEN s[i] ELSE f[i - 1] \o s[i]]

LEMMA FlatExists == \A s, n : n \in Nat => \E f : Flat(f, s, n)
<1> SUFFICES ASSUME NEW s PROVE \A n \in Nat : \E f : Flat(f, s, n)
  OBVIOUS
<1> DEFINE T == {n \in Nat : \E f : Flat(f, s, n)}
<1>1. 0 \in T
  <2>1. Flat([i \in 1 .. 0 |-> i], s, 0)
    BY DEF Flat
  <2> QED BY <2>1
<1>2. ASSUME NEW n \in T PROVE n + 1 \in T
  <2>1. n \in Nat /\ n + 1 \in Nat
    BY <1>2
  <2>2. PICK f : Flat(f, s, n)
    BY <1>2
  <2> DEFINE x == IF n + 1 = 1 THEN s[n + 1] ELSE f[n] \o s[n + 1]
             g == [i \in 1 .. n + 1 |-> IF i = n + 1 THEN x ELSE f[i]]
  <2>3. \A i \in 1 .. n + 1 : g[i] = IF i = 1 THEN s[i] ELSE g[i - 1] \o s[i]
    <3> SUFFICES ASSUME NEW i \in 1 .. n + 1
                 PROVE  g[i] = IF i = 1 THEN s[i] ELSE g[i - 1] \o s[i]
      OBVIOUS
    <3>1. CASE i = n + 1
      <4>1. i # 1 => g[i - 1] = f[n] /\ i - 1 = n
        BY <2>1, <3>1
      <4> QED BY <2>1, <3>1, <4>1
    <3>2. CASE i # n + 1
      <4>1. i \in 1 .. n /\ (i # 1 => i - 1 \in 1 .. n /\ i - 1 # n + 1)
        BY <2>1, <3>2
      <4>2. f[i] = IF i = 1 THEN s[i] ELSE f[i - 1] \o s[i]
        BY <2>2, <4>1 DEF Flat
      <4>3. g[i] = f[i] /\ (i # 1 => g[i - 1] = f[i - 1])
        BY <2>1, <3>2, <4>1
      <4> QED BY <4>2, <4>3
    <3> QED BY <3>1, <3>2
  <2>4. Flat(g, s, n + 1)
    <3>1. g = [i \in 1 .. n + 1 |-> g[i]]
      OBVIOUS
    <3> HIDE DEF g
    <3> QED BY <2>3, <3>1 DEF Flat
  <2> QED BY <2>1, <2>4
<1>3. T = Nat
  BY <1>1, <1>2, Induction
<1> QED BY <1>3

LEMMA FlatAt ==
  ASSUME NEW f, NEW s, NEW n \in Nat, Flat(f, s, n), NEW i \in 1 .. n
  PROVE  f[i] = IF i = 1 THEN s[i] ELSE f[i - 1] \o s[i]
BY DEF Flat

LEMMA FlatsAgree ==
  ASSUME NEW f, NEW s, NEW n \in Nat, Flat(f, s, n),
         NEW g, NEW t, NEW m \in Nat, Flat(g, t, m),
         n <= m, \A i \in 1 .. n : s[i] = t[i]
  PROVE  \A i \in 1 .. n : f[i] = g[i]
<1> DEFINE T == {i \in Nat : i \in 1 .. n => f[i] = g[i]}
<1>1. 0 \in T
  OBVIOUS
<1>2. ASSUME NEW i \in T PROVE i + 1 \in T
  <2> SUFFICES ASSUME i + 1 \in 1 .. n PROVE f[i + 1] = g[i + 1]
    OBVIOUS
  <2> DEFINE j == i + 1
  <2>1. /\ j \in 1 .. n /\ j \in 1 .. m /\ j - 1 = i /\ s[j] = t[j]
        /\ j = 1 \/ f[i] = g[i]
    OBVIOUS
  <2> HIDE DEF j, T
  <2>2. f[j] = IF j = 1 THEN s[j] ELSE f[j - 1] \o s[j]
    BY <2>1, FlatAt
  <2>3. g[j] = IF j = 1 THEN t[j] ELSE g[j - 1] \o t[j]
    BY <2>1, FlatAt
  <2>4. f[j] = g[j]
    BY <2>1, <2>2, <2>3
  <2> QED BY <2>4 DEF j
<1>3. T = Nat
  BY <1>1, <1>2, Induction
<1> QED BY <1>3

LEMMA FlattenIs ==
  ASSUME NEW s, Len(s) \in Nat \ {0}
  PROVE  \E f : Flat(f, s, Len(s)) /\ FlattenSeq(s) = f[Len(s)]
<1>1. \E f : Flat(f, s, Len(s))
  BY FlatExists
<1> QED BY <1>1 DEF Flat, FlattenSeq

LEMMA FlattenMore ==
  ASSUME NEW s, NEW t, NEW n \in Nat, Len(s) = n, Len(t) = n + 1,
         \A i \in 1 .. n : s[i] = t[i]
  PROVE  IF n = 0 THEN FlattenSeq(s) = s /\ FlattenSeq(t) = t[1]
         ELSE FlattenSeq(t) = FlattenSeq(s) \o t[n + 1]
<1>1. PICK g : Flat(g, t, n + 1) /\ FlattenSeq(t) = g[n + 1]
  BY FlattenIs
<1>2. CASE n = 0
  <2>1. g[1] = t[1]
    BY <1>1, <1>2 DEF Flat
  <2> QED BY <1>1, <1>2, <2>1 DEF FlattenSeq
<1>3. CASE n # 0
  <2>1. PICK f : Flat(f, s, n) /\ FlattenSeq(s) = f[n]
    BY <1>3, FlattenIs
  <2>2. f[n] = g[n]
    <3>1. n + 1 \in Nat /\ n <= n + 1 /\ n \in 1 .. n
      BY <1>3
    <3>2. \A i \in 1 .. n : f[i] = g[i]
      BY <1>1, <2>1, <3>1, FlatsAgree
    <3> QED BY <3>1, <3>2
  <2>3. g[n + 1] = g[n] \o t[n + 1]
    <3>1. n + 1 \in 1 .. n + 1 /\ n + 1 # 1 /\ (n + 1) - 1 = n
      BY <1>3
    <3> QED BY <1>1, <3>1 DEF Flat
  <2> QED BY <1>1, <1>3, <2>1, <2>2, <2>3
<1> QED BY <1>2, <1>3

\* Every reply but that to a bad request has a piece.
LEMMA ReplyPieces ==
  ASSUME NEW n \in Nat, NEW kind \in Kind
  PROVE  /\ Reply(n, kind) \in Seq(Piece)
         /\ kind # "bad" => Reply(n, kind) # <<>>
         /\ kind = "file" => Reply(n, kind) = <<[req |-> n, part |-> "head"]>> \o Body(n, FileLen)
         /\ kind \in {"page", "stop", "head"} => Reply(n, kind) = <<Reply(n, kind)[1]>>
<1> DEFINE x == [req |-> n, part |-> "head"]
           y == Body(n, FileLen)
<1>1. [req |-> n, part |-> "reply"] \in Piece /\ x \in Piece
  BY DEF Piece
<1>2. y \in Seq(Piece)
  BY SizeAssumption, BodyPieces
<1>3. <<x>> \o y \in Seq(Piece) /\ <<x>> \o y # <<>>
  <2> HIDE DEF x, y
  <2>1. <<x>> \in Seq(Piece) /\ <<x>> # <<>>
    BY <1>1
  <2> QED BY <1>2, <2>1, ConcatProperties, ConcatEqualIffEmpty
<1>4. CASE kind \in {"page", "stop"}
  BY <1>1, <1>4 DEF Reply
<1>5. CASE kind = "head"
  BY <1>1, <1>5 DEF Reply
<1>6. CASE kind = "file"
  BY <1>3, <1>6 DEF Reply
<1>7. CASE kind = "bad"
  BY <1>7, EmptySeq DEF Reply
<1> QED BY <1>4, <1>5, <1>6, <1>7 DEF Kind

LEMMA NoReplies == Replies(<<>>) = <<>>
<1> DEFINE s == [n \in 1 .. Len(<<>>) |-> Reply(n, <<>>[n])]
<1>1. s \in Seq({}) /\ Len(s) = 0
  <2>1. Len(<<>>) = 0 /\ 1 .. 0 = {}
    OBVIOUS
  <2> QED BY <2>1
<1>2. s = <<>>
  BY <1>1, Empties
<1> HIDE DEF s
<1>3. FlattenSeq(s) = <<>>
  BY <1>1, <1>2 DEF FlattenSeq
<1> QED BY <1>3 DEF Replies, s

LEMMA OneMore ==
  ASSUME NEW ks \in Seq(Kind), NEW h \in 0 .. Len(ks) - 1, First(ks, h) \in Seq(Piece)
  PROVE  First(ks, h + 1) = First(ks, h) \o Reply(h + 1, ks[h + 1])
<1> DEFINE a == SubSeq(ks, 1, h)
           b == SubSeq(ks, 1, h + 1)
           s == [n \in 1 .. Len(a) |-> Reply(n, a[n])]
           t == [n \in 1 .. Len(b) |-> Reply(n, b[n])]
<1>1. Len(ks) \in Nat /\ h \in Nat /\ h \in 0 .. Len(ks) /\ h + 1 \in 0 .. Len(ks)
  BY LenProperties
<1>2. Len(a) = h /\ \A n \in 1 .. h : a[n] = ks[n]
  BY <1>1, Taken
<1>3. Len(b) = h + 1 /\ \A n \in 1 .. h + 1 : b[n] = ks[n]
  <2> DEFINE m == h + 1
  <2>1. m \in 0 .. Len(ks)
    BY <1>1
  <2> HIDE DEF m
  <2>2. Len(SubSeq(ks, 1, m)) = m /\ \A n \in 1 .. m : SubSeq(ks, 1, m)[n] = ks[n]
    BY <2>1, Taken
  <2> QED BY <2>2 DEF m
<1>4. First(ks, h) = FlattenSeq(s) /\ First(ks, h + 1) = FlattenSeq(t)
  BY DEF First, Replies
<1> HIDE DEF a, b
<1>5. Len(s) = h /\ Len(t) = h + 1 /\ (\A n \in 1 .. h : s[n] = t[n])
      /\ t[h + 1] = Reply(h + 1, ks[h + 1]) /\ (h = 0 => s = <<>> /\ t[1] = Reply(h + 1, ks[h + 1]))
  <2>1. s = [n \in 1 .. h |-> Reply(n, ks[n])] /\ t = [n \in 1 .. h + 1 |-> Reply(n, ks[n])]
    BY <1>1, <1>2, <1>3
  <2>2. Len(s) = h /\ Len(t) = h + 1
    BY <1>1, <2>1
  <2>3. \A n \in 1 .. h : n \in 1 .. h + 1
    BY <1>1
  <2>4. h + 1 \in 1 .. h + 1
    BY <1>1
  <2>5. h = 0 => s = <<>>
    <3> SUFFICES ASSUME h = 0 PROVE s = <<>>
      OBVIOUS
    <3>1. s \in Seq({}) /\ Len(s) = 0
      BY <1>1, <2>1
    <3> HIDE DEF s
    <3> QED BY <3>1, Empties
  <2>6. \A n \in 1 .. h : s[n] = Reply(n, ks[n]) /\ t[n] = Reply(n, ks[n])
    BY <2>1, <2>3
  <2>7. t[h + 1] = Reply(h + 1, ks[h + 1])
    BY <2>1, <2>4
  <2> HIDE DEF s, t
  <2>8. h = 0 => t[1] = Reply(h + 1, ks[h + 1])
    BY <2>7
  <2> QED BY <2>2, <2>5, <2>6, <2>7, <2>8
<1> HIDE DEF s, t
<1>6. IF h = 0 THEN FlattenSeq(s) = s /\ FlattenSeq(t) = t[1]
      ELSE FlattenSeq(t) = FlattenSeq(s) \o t[h + 1]
  <2>1. h \in Nat /\ Len(s) = h /\ Len(t) = h + 1 /\ \A i \in 1 .. h : s[i] = t[i]
    BY <1>1, <1>5
  <2>2. \A u, v : Len(u) = h /\ Len(v) = h + 1 /\ (\A i \in 1 .. h : u[i] = v[i]) =>
          IF h = 0 THEN FlattenSeq(u) = u /\ FlattenSeq(v) = v[1]
          ELSE FlattenSeq(v) = FlattenSeq(u) \o v[h + 1]
    BY <1>1, FlattenMore
  <2> QED BY <2>1, <2>2, Zenon
<1>7. CASE h = 0
  <2> DEFINE x == Reply(h + 1, ks[h + 1])
  <2>1. FlattenSeq(s) = <<>> /\ FlattenSeq(t) = x
    BY <1>5, <1>6, <1>7
  <2>2. x \in Seq(Piece)
    <3>1. h + 1 \in Nat /\ h + 1 \in 1 .. Len(ks)
      BY <1>1
    <3>2. ks[h + 1] \in Kind
      BY <3>1, ElementOfSeq
    <3> QED BY <3>1, <3>2, ReplyPieces
  <2> HIDE DEF x
  <2>3. <<>> \o x = x
    BY <2>2, ConcatEmptySeq
  <2> QED BY <1>4, <2>1, <2>3 DEF x
<1>8. CASE h # 0
  BY <1>4, <1>5, <1>6, <1>8
<1> QED BY <1>7, <1>8

\* The replies grow with the requests: by at least a piece with each, unless
\* it is a bad one.
LEMMA FirstPieces ==
  ASSUME NEW ks \in Seq(Kind)
  PROVE  \A h \in 0 .. Len(ks) : First(ks, h) \in Seq(Piece)
<1> DEFINE T == {h \in Nat : h <= Len(ks) => First(ks, h) \in Seq(Piece)}
<1>1. 0 \in T
  <2>1. SubSeq(ks, 1, 0) = <<>>
    BY SubSeqEmpty
  <2> QED BY <2>1, NoReplies, EmptySeq DEF First
<1>2. ASSUME NEW h \in T PROVE h + 1 \in T
  <2>1. h \in Nat /\ Len(ks) \in Nat
    BY LenProperties
  <2> SUFFICES ASSUME h + 1 <= Len(ks) PROVE First(ks, h + 1) \in Seq(Piece)
    BY <2>1
  <2>2. h \in 0 .. Len(ks) - 1 /\ First(ks, h) \in Seq(Piece) /\ h + 1 \in 1 .. Len(ks) /\ h + 1 \in Nat
    BY <2>1
  <2> DEFINE x == Reply(h + 1, ks[h + 1])
             y == First(ks, h)
  <2>3. First(ks, h + 1) = y \o x
    BY <2>2, OneMore
  <2>4. ks[h + 1] \in Kind
    BY <2>2, ElementOfSeq
  <2>5. x \in Seq(Piece) /\ y \in Seq(Piece)
    BY <2>2, <2>4, ReplyPieces
  <2> HIDE DEF x, y
  <2>6. y \o x \in Seq(Piece)
    BY <2>5, ConcatProperties
  <2> QED BY <2>3, <2>6
<1>3. T = Nat
  <2> HIDE DEF T
  <2>1. T \in SUBSET Nat
    BY DEF T
  <2> QED BY <1>1, <1>2, <2>1, Induction
<1>4. Len(ks) \in Nat
  BY LenProperties
<1> QED BY <1>3, <1>4

Regrouped(a, b, c) == (a \o b) \o c = a \o (b \o c)

LEMMA Joined ==
  ASSUME NEW S, NEW a \in Seq(S), NEW b \in Seq(S), NEW c \in Seq(S)
  PROVE  /\ a \o b \in Seq(S) /\ Len(a \o b) = Len(a) + Len(b)
         /\ Regrouped(a, b, c)
<1>1. a \o b \in Seq(S) /\ Len(a \o b) = Len(a) + Len(b)
  BY ConcatProperties
<1>2. (a \o b) \o c = a \o (b \o c)
  OBVIOUS
<1> QED BY <1>1, <1>2 DEF Regrouped

\* The replies to m requests are those to the first h and more: a piece at
\* least for each other request, when no request is bad.
MoreReplies(ks, h, m) ==
  \E r \in Seq(Piece) :
    /\ First(ks, m) = First(ks, h) \o r
    /\ (\A i \in 1 .. Len(ks) : ks[i] # "bad") => Len(r) >= m - h

LEMMA GrowsByOne ==
  ASSUME NEW ks \in Seq(Kind), NEW h \in 0 .. Len(ks), NEW m \in h .. Len(ks) - 1, MoreReplies(ks, h, m)
  PROVE  MoreReplies(ks, h, m + 1)
<1> DEFINE Good == \A i \in 1 .. Len(ks) : ks[i] # "bad"
           x == Reply(m + 1, ks[m + 1])
           y == First(ks, h)
<1>1. /\ Len(ks) \in Nat /\ h \in Nat /\ m \in Nat /\ m + 1 \in 1 .. Len(ks)
      /\ m \in 0 .. Len(ks) - 1 /\ m \in 0 .. Len(ks) /\ m - h \in Nat
  BY LenProperties
<1>2. PICK r \in Seq(Piece) : First(ks, m) = y \o r /\ (Good => Len(r) >= m - h)
  BY DEF MoreReplies
<1>3. First(ks, m) \in Seq(Piece) /\ y \in Seq(Piece)
  BY <1>1, FirstPieces
<1>4. First(ks, m + 1) = First(ks, m) \o x
  BY <1>1, <1>3, OneMore
<1>5. x \in Seq(Piece) /\ (Good => x # <<>>)
  <2>1. ks[m + 1] \in Kind /\ m + 1 \in Nat
    BY <1>1, ElementOfSeq
  <2> QED BY <1>1, <2>1, ReplyPieces
<1> DEFINE z == r \o x
<1> HIDE DEF x, y, Good
<1>6. First(ks, m + 1) = y \o z /\ z \in Seq(Piece) /\ Len(z) = Len(r) + Len(x)
  <2>1. r \o x \in Seq(Piece) /\ Len(r \o x) = Len(r) + Len(x)
    BY <1>5, ConcatProperties
  <2>2. (y \o r) \o x = y \o (r \o x)
    <3>1. y \in Seq(Piece) /\ r \in Seq(Piece) /\ x \in Seq(Piece)
      BY <1>3, <1>5
    <3> HIDE DEF z
    <3> QED BY <3>1
  <2> QED BY <1>2, <1>4, <2>1, <2>2
<1>7. Good => Len(z) >= (m + 1) - h
  <2>1. Len(r) \in Nat /\ Len(x) \in Nat /\ (x = <<>> <=> Len(x) = 0)
    BY <1>5, Empties
  <2> HIDE DEF z
  <2> QED BY <1>1, <1>2, <1>5, <1>6, <2>1
<1> HIDE DEF z
<1> QED BY <1>6, <1>7 DEF MoreReplies, y, Good

LEMMA FirstGrows ==
  ASSUME NEW ks \in Seq(Kind), NEW h \in 0 .. Len(ks)
  PROVE  \E r \in Seq(Piece) :
           /\ Replies(ks) = First(ks, h) \o r
           /\ (\A i \in 1 .. Len(ks) : ks[i] # "bad") => Len(r) >= Len(ks) - h
<1> DEFINE T == {j \in Nat : h + j <= Len(ks) => MoreReplies(ks, h, h + j)}
<1>1. Len(ks) \in Nat /\ h \in Nat /\ First(ks, h) \in Seq(Piece)
  BY LenProperties, FirstPieces
<1>2. 0 \in T
  <2>1. <<>> \in Seq(Piece) /\ Len(<<>>) = 0 /\ h + 0 = h /\ h - h = 0
    BY <1>1, EmptySeq
  <2>2. First(ks, h) \o <<>> = First(ks, h)
    BY <1>1, ConcatEmptySeq
  <2>3. Len(<<>>) >= h - h
    BY <2>1
  <2>4. MoreReplies(ks, h, h)
    BY <2>1, <2>2, <2>3, Zenon DEF MoreReplies
  <2> QED BY <2>1, <2>4
<1>3. ASSUME NEW j \in T PROVE j + 1 \in T
  <2>1. j \in Nat /\ (h + j <= Len(ks) => MoreReplies(ks, h, h + j))
    OBVIOUS
  <2> HIDE DEF T
  <2>2. ASSUME h + (j + 1) <= Len(ks) PROVE MoreReplies(ks, h, h + (j + 1))
    <3> DEFINE m == h + j
    <3>1. m \in h .. Len(ks) - 1 /\ h + (j + 1) = m + 1 /\ MoreReplies(ks, h, m)
      BY <1>1, <2>1, <2>2
    <3> HIDE DEF m
    <3>2. MoreReplies(ks, h, m + 1)
      BY <3>1, GrowsByOne
    <3> QED BY <3>1, <3>2
  <2> QED BY <2>1, <2>2 DEF T
<1>4. T = Nat
  <2> HIDE DEF T
  <2>1. T \in SUBSET Nat
    BY DEF T
  <2> QED BY <1>2, <1>3, <2>1, Induction
<1>5. MoreReplies(ks, h, Len(ks))
  <2> DEFINE l == Len(ks) - h
  <2>1. l \in Nat /\ h + l = Len(ks)
    BY <1>1
  <2>2. l \in T
    BY <1>4, <2>1
  <2> HIDE DEF l
  <2>3. h + l <= Len(ks) => MoreReplies(ks, h, h + l)
    BY <2>2
  <2> QED BY <1>1, <2>1, <2>3
<1>6. SubSeq(ks, 1, Len(ks)) = ks
  BY SubSeqFull
<1>7. First(ks, Len(ks)) = Replies(ks)
  BY <1>6 DEF First
<1> QED BY <1>5, <1>7 DEF MoreReplies

LEMMA PrefixOf ==
  ASSUME NEW S, NEW s \in Seq(S), NEW r \in Seq(S)
  PROVE  IsPrefix(s, s \o r) /\ SubSeq(s \o r, 1, Len(s)) = s
<1> DEFINE t == s \o r
<1>1. /\ t \in Seq(S) /\ Len(t) = Len(s) + Len(r) /\ Len(s) \in Nat /\ Len(r) \in Nat
      /\ \A i \in 1 .. Len(s) + Len(r) : t[i] = IF i <= Len(s) THEN s[i] ELSE r[i - Len(s)]
  BY ConcatProperties, LenProperties
<1> HIDE DEF t
<1>2. Len(s) \in 0 .. Len(t)
  BY <1>1
<1> DEFINE u == SubSeq(t, 1, Len(s))
<1>3. u \in Seq(S) /\ Len(u) = Len(s) /\ \A i \in 1 .. Len(s) : u[i] = t[i]
  BY <1>1, <1>2, Taken
<1>4. \A i \in 1 .. Len(s) : u[i] = s[i]
  BY <1>1, <1>3
<1>5. u = s
  <2> HIDE DEF u
  <2> QED BY <1>3, <1>4, SeqEqual
<1>6. SubSeq(s, 1, Len(s)) = s
  BY SubSeqFull
<1> QED BY <1>2, <1>5, <1>6 DEF IsPrefix, t

-----------------------------------------------------------------------------
(* A client that does not interfere *)

\* What has been received is a prefix of what is owed in the end.
LEMMA Received ==
  ASSUME NEW c \in Client, Typed, ClientOK(c), Replied(c), ~Behind(c)
  PROVE  /\ IsPrefix(got[c], Replies(sent[c]))
         /\ peer[c] # "closed" =>
              \E r \in Seq(Piece) : /\ Replies(sent[c]) = (got[c] \o Coming(conn[c])) \o r
                                    /\ (\A i \in 1 .. Len(sent[c]) : sent[c][i] # "bad") =>
                                         Len(r) >= Len(sent[c]) - Len(handled[c])
<1> DEFINE k == conn[c]
           g == got[c]
           m == Coming(k)
           h == Len(handled[c])
           ks == sent[c]
<1>1. /\ ks \in Seq(Kind) /\ g \in Seq(Piece) /\ Buffer(k) /\ h \in Nat /\ h <= Len(ks)
      /\ Len(ks) \in Nat
  BY LenProperties DEF Typed, ClientOK, Connection, InOrder
<1>2. h \in 0 .. Len(ks)
  BY <1>1
<1>3. m \in Seq(Piece)
  <2> HIDE DEF k
  <2> QED BY <1>1, Topped
<1>4. CASE peer[c] = "closed"
  BY <1>4 DEF Replied
<1>5. CASE peer[c] # "closed"
  <2>1. g \o m = First(ks, h)
    BY <1>5 DEF Replied
  <2> HIDE DEF g, m, h, ks, k
  <2>2. PICK r \in Seq(Piece) : /\ Replies(ks) = First(ks, h) \o r
                                /\ (\A i \in 1 .. Len(ks) : ks[i] # "bad") => Len(r) >= Len(ks) - h
    BY <1>1, <1>2, FirstGrows
  <2> DEFINE x == m \o r
  <2>3. (g \o m) \o r = g \o x /\ x \in Seq(Piece)
    <3>1. m \o r \in Seq(Piece)
      BY <1>3, ConcatProperties
    <3>2. Regrouped(g, m, r)
      BY <1>1, <1>3, Joined
    <3> QED BY <3>1, <3>2 DEF Regrouped
  <2>4. Replies(ks) = g \o x
    BY <2>1, <2>2, <2>3
  <2> HIDE DEF x
  <2>5. IsPrefix(g, g \o x)
    BY <1>1, <2>3, PrefixOf
  <2>6. Replies(ks) = (g \o m) \o r
    BY <2>1, <2>2
  <2> QED BY <2>2, <2>4, <2>5, <2>6 DEF g, m, h, ks, k
<1> QED BY <1>4, <1>5

\* The one request of a client that waits.
LEMMA OneRequest ==
  ASSUME IInv, RInv, NEW c \in Patient, peer[c] # "closed", Stream(c) # <<>>
  PROVE  /\ Len(Stream(c)) = 1 /\ Stream(c)[1].part = "whole"
         /\ conn[c].send = <<>> /\ conn[c].file = NoFile
<1>1. c \in Client /\ Quiet(c) /\ Connection(c)
  BY ClientAssumption DEF RInv, ReplyOK, IInv, ClientOK
<1> QED BY <1>1 DEF Quiet, Connection

LEMMA RequestRead ==
  ASSUME IInv, RInv, NEW c \in Patient, conn[c].recv # <<>>
  PROVE  /\ pc = "http_cb" /\ cur = c
         /\ Complete(conn[c].recv) /\ ~Malformed(c, conn[c].recv) /\ ~Full(conn[c].recv)
         /\ Head(conn[c].recv).part = "whole"
         /\ Len(conn[c].recv) = 1 /\ inbox[c] = <<>>
         /\ conn[c].send = <<>> /\ conn[c].file = NoFile
<1>1. c \in Client /\ Quiet(c) /\ Typed /\ ClientOK(c)
  BY ClientAssumption DEF RInv, ReplyOK, IInv
<1> DEFINE r == conn[c].recv
           b == inbox[c]
<1>2. /\ r \in Seq(Fragment) /\ b \in Seq(Fragment) /\ Stream(c) \in Seq(Fragment)
      /\ \A i \in 1 .. Len(r) : Stream(c)[i] = r[i]
      /\ \A i \in 1 .. Len(r) : r[i].req \in 1 .. Len(sent[c])
      /\ Len(Stream(c)) = Len(r) + Len(b)
  BY <1>1, Known
<1>3. Len(r) \in Nat /\ Len(b) \in Nat /\ Len(r) # 0 /\ (b = <<>> <=> Len(b) = 0)
  BY <1>2, Empties
<1>4. peer[c] # "closed" /\ Stream(c) # <<>>
  <2>1. peer[c] = "open"
    BY <1>1 DEF ClientOK, Connection, Fresh
  <2>2. Len(Stream(c)) # 0
    <3> HIDE DEF r, b
    <3> QED BY <1>2, <1>3
  <2> QED BY <1>2, <2>1, <2>2, Empties
<1>5. Len(r) = 1 /\ Len(b) = 0 /\ r[1].part = "whole"
  <2>1. Len(Stream(c)) = 1 /\ Stream(c)[1].part = "whole"
    BY <1>4, OneRequest
  <2>2. Stream(c)[1] = r[1]
    <3> HIDE DEF r, b
    <3> QED BY <1>2, <1>3
  <2> HIDE DEF r, b
  <2> QED BY <1>2, <1>3, <2>1, <2>2
<1>6. Head(r) = r[1] /\ DOMAIN r = 1 .. 1
  BY <1>2, <1>5, HeadTailProperties, LenProperties
<1>7. Complete(r)
  BY <1>5, <1>6 DEF Complete
<1>8. ~Malformed(c, r)
  BY <1>1, <1>2, <1>5, <1>6 DEF Malformed, KindOf, Quiet
<1>9. ~Full(r)
  BY <1>5, <1>6 DEF Full
<1>10. conn[c].send = <<>> /\ conn[c].file = NoFile
  BY <1>1, <1>4, OneRequest
<1> QED BY <1>1, <1>3, <1>5, <1>6, <1>7, <1>8, <1>9, <1>10 DEF Quiet

\* The step only tops up the buffer of connection c, closes it for a reason, or
\* does nothing to it.
Leaves(c) ==
  /\ conn'[c] \in {conn[c], StaticCb(conn[c])} /\ got'[c] = got[c]
  /\ sent'[c] = sent[c] /\ inbox'[c] = inbox[c] /\ handled'[c] = handled[c]
  /\ peer'[c] # "closed" => peer[c] # "closed"
  /\ hup[c] => hup'[c]
  /\ freeing => freeing'
  /\ c \in draining' <=> c \in draining
  /\ c \in closing => c \in closing'
  /\ c \in Patient /\ conn[c].recv # <<>> => pc' = "http_cb" /\ cur' = c
  /\ c \in Patient /\ c \in closing' =>
       c \in closing \/ hup[c] \/ freeing' \/ (c \in draining /\ conn[c].send = <<>>)

LEMMA ReplyKept == ASSUME IInv, RInv, NEW c \in Client, Leaves(c) PROVE ReplyOK(c)'
<1> DEFINE k == conn[c]
           k1 == conn'[c]
<1>1. Typed /\ ClientOK(c) /\ Replied(c) /\ Opened(c) /\ (c \in Patient => Quiet(c)) /\ Buffer(k)
  BY DEF IInv, RInv, ReplyOK, ClientOK, Connection
<1> USE DEF Leaves
<1>2. /\ k1.recv = k.recv /\ Coming(k1) = Coming(k)
      /\ k.file = NoFile => k1 = k
      /\ k1.file # NoFile => k.file # NoFile /\ k1.file.req = k.file.req
      /\ k.send # <<>> => k1.send # <<>>
  <2> HIDE DEF k
  <2>1. k1 = k \/ k1 = StaticCb(k)
    BY DEF k
  <2> HIDE DEF k1
  <2> QED BY <1>1, <2>1, Topped
<1>3. Behind(c) <=> Behind(c)'
  BY DEF Behind
<1>4. Replied(c)'
  <2>1. CASE peer'[c] = "closed" /\ ~Behind(c)
    <3>1. IsPrefix(got[c], Replies(sent[c]))
      BY <1>1, <2>1, Received
    <3> QED BY <2>1, <3>1 DEF Replied
  <2>2. CASE peer'[c] # "closed" /\ ~Behind(c)
    <3>1. got[c] \o Coming(k) = First(sent[c], Len(handled[c]))
      BY <1>1, <2>2 DEF Replied
    <3>2. got'[c] \o Coming(k1) = First(sent'[c], Len(handled'[c]))
      BY <1>2, <3>1
    <3> QED BY <2>2, <3>2 DEF Replied
  <2> QED BY <1>3, <2>1, <2>2 DEF Replied
<1>5. Opened(c)'
  BY <1>1, <1>2 DEF Opened
<1>6. ASSUME c \in Patient PROVE Quiet(c)'
  <2>1. Quiet(c) /\ (k.send = <<>> => k1 = k)
    BY <1>1, <1>2, <1>6 DEF ClientOK, Connection
  <2>2. Stream(c)' = Stream(c)
    BY <1>2 DEF Stream
  <2>3. KindOf(c, Len(handled[c]))' = KindOf(c, Len(handled[c]))
    BY DEF KindOf
  <2>4. conn'[c].recv # <<>> => pc' = "http_cb" /\ cur' = c
    BY <1>2, <1>6
  <2>5. c \in draining' => /\ handled'[c] # <<>> /\ KindOf(c, Len(handled[c])) = "head"
                           /\ c \in closing' \/ conn'[c].send # <<>>
    BY <1>2, <2>1 DEF Quiet
  <2>6. c \in closing' => hup'[c] \/ freeing' \/ (c \in draining' /\ conn'[c].send = <<>>)
    BY <1>6, <2>1 DEF Quiet
  <2>7. peer'[c] # "closed" /\ Stream(c) # <<>> =>
          Len(Stream(c)) = 1 /\ Stream(c)[1].part = "whole" /\ conn'[c].send = <<>>
    BY <2>1 DEF Quiet
  <2> QED BY <2>1, <2>2, <2>3, <2>4, <2>5, <2>6, <2>7 DEF Quiet
<1> QED BY <1>4, <1>5, <1>6 DEF ReplyOK

LEMMA AllKept ==
  ASSUME IInv, RInv, \A c \in Client : Leaves(c), handled' = handled, lost' = lost
  PROVE  RInv'
<1>1. \A c \in Client : ReplyOK(c)'
  BY ReplyKept
<1>2. \A l \in lost' : LostFor(l)'
  BY DEF RInv, LostFor
<1> QED BY <1>1, <1>2 DEF RInv

LEMMA ConnectReplies == ASSUME IInv, RInv, NEW d \in Client, Connect(d) PROVE RInv'
<1>1. \A c \in Client : Leaves(c)
  BY RequestRead DEF Connect, Leaves, flags, client, cur, IInv, ListOK
<1> QED BY <1>1, AllKept DEF Connect

LEMMA HangUpReplies == ASSUME IInv, RInv, NEW d \in Client, HangUp(d) PROVE RInv'
<1>1. \A c \in Client : Leaves(c)
  BY RequestRead DEF HangUp, Leaves, flags, cur, IInv, Typed
<1> QED BY <1>1, AllKept DEF HangUp

LEMMA StartReplies == IInv /\ RInv /\ Start => RInv'
<1> SUFFICES ASSUME IInv, RInv, Start PROVE RInv'
  OBVIOUS
<1>1. \A c \in Client : Leaves(c)
  BY RequestRead DEF Start, Leaves, flags, client, cur
<1> QED BY <1>1, AllKept DEF Start

LEMMA PollReplies == ASSUME IInv, RInv, NEW room \in SUBSET Pending, Poll(room) PROVE RInv'
<1>1. \A c \in Client : Leaves(c)
  BY RequestRead DEF Poll, Leaves, client, cur
<1> QED BY <1>1, AllKept DEF Poll

LEMMA FreeManagerReplies == IInv /\ RInv /\ FreeManager => RInv'
<1> SUFFICES ASSUME IInv, RInv, FreeManager PROVE RInv'
  OBVIOUS
<1>1. closing = {} /\ freeing' /\ pc = "poll"
  BY DEF IInv, FlagsOK, FreeManager
<1>2. \A c \in Client : Leaves(c)
  BY <1>1, RequestRead DEF FreeManager, Leaves, client, cur
<1> QED BY <1>2, AllKept DEF FreeManager

LEMMA AcceptReplies == ASSUME IInv, RInv, NEW d \in Client, Accept(d) PROVE RInv'
<1>1. conn' = conn /\ pc = "visit" /\ peer \in [Client -> {"away", "backlog", "open", "closed"}]
  BY DEF Accept, IInv, ListOK, ClientOK, Connection, Typed
<1>2. \A c \in Client : peer'[c] # "closed" => peer[c] # "closed"
  BY <1>1 DEF Accept
<1>3. UNCHANGED <<freeing, closing, draining, sent, inbox, hup, got, handled, lost>>
  BY DEF Accept, flags, client
<1>4. \A c \in Client : Leaves(c)
  BY <1>1, <1>2, <1>3, RequestRead DEF Leaves
<1> QED BY <1>3, <1>4, AllKept

LEMMA PassReplies == IInv /\ RInv /\ Pass => RInv'
<1> SUFFICES ASSUME IInv, RInv, Pass PROVE RInv'
  OBVIOUS
<1>1. \A c \in Client : conn'[c] \in {conn[c], StaticCb(conn[c])}
  BY DEF Pass, IInv, Typed
<1>2. /\ pc = "visit"
      /\ UNCHANGED <<freeing, closing, draining, peer, sent, inbox, hup, got, handled, lost>>
  BY DEF Pass, flags, client
<1>3. \A c \in Client : Leaves(c)
  BY <1>1, <1>2, RequestRead DEF Leaves
<1> QED BY <1>2, <1>3, AllKept

LEMMA WriteFailsReplies == IInv /\ RInv /\ WriteFails => RInv'
<1> SUFFICES ASSUME IInv, RInv, WriteFails PROVE RInv'
  OBVIOUS
<1>1. \A c \in Client : Leaves(c)
  BY RequestRead DEF WriteFails, Leaves, client
<1> QED BY <1>1, AllKept DEF WriteFails

LEMMA SendBodyReplies ==
  ASSUME IInv, RInv, NEW c \in Client, NEW part \in {"rest", "more"}, SendBody(c, part)
  PROVE  RInv'
<1>1. /\ UNCHANGED <<freeing, closing, draining, pc, todo, conn, peer, sent, hup, got, handled, lost>>
      /\ peer[c] \in {"backlog", "open"} /\ Unfinished(c)
      /\ \A d \in Client : d # c => inbox'[d] = inbox[d]
  BY DEF SendBody, flags, IInv, Typed
<1>2. c \notin Patient
  <2> SUFFICES ASSUME c \in Patient PROVE FALSE
    OBVIOUS
  <2>1. Stream(c) # <<>> /\ Last(Stream(c)).part \in {"head", "more"}
    BY <1>1 DEF Unfinished, Stream
  <2>2. Len(Stream(c)) = 1 /\ Stream(c)[1].part = "whole"
    BY <1>1, <2>1, OneRequest
  <2> QED BY <2>1, <2>2 DEF Last
<1>3. ASSUME NEW d \in Client, d # c PROVE ReplyOK(d)'
  <2>1. Leaves(d)
    BY <1>1, <1>3, RequestRead DEF Leaves, cur
  <2> QED BY <2>1, ReplyKept
<1>4. ReplyOK(c)'
  BY <1>1, <1>2 DEF ReplyOK, RInv, Replied, Behind, Opened
<1>5. \A l \in lost' : LostFor(l)'
  BY <1>1 DEF RInv, LostFor
<1> QED BY <1>3, <1>4, <1>5 DEF RInv

\* When all that is owed has come, nothing is on its way.
LEMMA AllCame ==
  ASSUME IInv, RInv, NEW c \in Patient, peer[c] # "closed", got[c] = Replies(sent[c])
  PROVE  Stream(c) = <<>> /\ conn[c].send = <<>> /\ Len(handled[c]) = Len(sent[c])
<1> DEFINE g == got[c]
           k == conn[c]
           m == Coming(k)
<1>1. /\ c \in Client /\ Typed /\ ClientOK(c) /\ Replied(c) /\ ~Behind(c) /\ Quiet(c)
      /\ \A i \in 1 .. Len(sent[c]) : sent[c][i] # "bad"
  BY ClientAssumption DEF IInv, RInv, ReplyOK, Quiet, Behind
<1>2. /\ g \in Seq(Piece) /\ Len(g) \in Nat /\ Len(sent[c]) \in Nat /\ Len(handled[c]) \in Nat
      /\ Len(handled[c]) <= Len(sent[c]) /\ k.send \in Seq(Piece) /\ Buffer(k)
  BY <1>1, LenProperties DEF Typed, ClientOK, Connection, Buffer, Record, InOrder
<1>3. m \in Seq(Piece) /\ Len(m) \in Nat
  <2> HIDE DEF k
  <2>1. m \in Seq(Piece)
    BY <1>2, Topped
  <2> QED BY <2>1, LenProperties
<1>4. PICK r \in Seq(Piece) : Replies(sent[c]) = (g \o m) \o r /\ Len(r) >= Len(sent[c]) - Len(handled[c])
  BY <1>1, Received
<1>5. Len(r) \in Nat
  BY LenProperties
<1>6. Len(m) = 0 /\ Len(handled[c]) = Len(sent[c])
  <2> HIDE DEF g, m
  <2>1. g \o m \in Seq(Piece) /\ Len(g \o m) = Len(g) + Len(m)
    BY <1>2, <1>3, ConcatProperties
  <2> DEFINE x == g \o m
  <2> HIDE DEF x
  <2>2. Len(x \o r) = Len(x) + Len(r)
    BY <2>1, ConcatProperties DEF x
  <2>3. Len(g) = Len(g) + Len(m) + Len(r)
    BY <1>4, <2>1, <2>2 DEF x, g
  <2> QED BY <1>2, <1>3, <1>4, <1>5, <2>3
<1>7. k.send = <<>>
  <2>1. m = <<>>
    BY <1>3, <1>6, Empties
  <2>2. CASE k.file = NoFile
    BY <1>2, <2>1, <2>2, ConcatEmptySeq DEF Coming
  <2>3. CASE k.file # NoFile
    <3> DEFINE b == Body(k.file.req, k.file.left)
               a == k.send
    <3>1. b \in Seq(Piece) /\ a \in Seq(Piece) /\ a \o b = <<>>
      <4>1. k.file.req \in Nat /\ k.file.left \in Nat
        BY <1>2, <2>3, SizeAssumption DEF Buffer, Record, File
      <4>2. b \in Seq(Piece)
        BY <4>1, BodyPieces
      <4> QED BY <1>2, <2>1, <2>3, <4>2 DEF Coming
    <3> HIDE DEF a, b
    <3>2. a = <<>>
      BY <3>1, ConcatEqualIffEmpty
    <3> QED BY <3>2 DEF a
  <2> QED BY <2>2, <2>3
<1>8. Stream(c) = <<>>
  <2> SUFFICES ASSUME Stream(c) # <<>> PROVE FALSE
    OBVIOUS
  <2>1. Stream(c) \in Seq(Fragment)
    BY <1>1, Known
  <2>2. Len(Stream(c)) \in Nat /\ Len(Stream(c)) # 0
    BY <2>1, Empties
  <2>3. Stream(c)[1].req = Len(handled[c]) + 1 /\ Stream(c)[1].req \in 1 .. Len(sent[c])
    BY <1>1, <2>2 DEF ClientOK, InOrder, Orderly
  <2> QED BY <1>2, <1>6, <2>3
<1> QED BY <1>6, <1>7, <1>8

LEMMA SendReplies ==
  ASSUME IInv, RInv, NEW c \in Client, NEW kind \in Kind, NEW part \in Part \ {"rest", "more"},
         Send(c, kind, part)
  PROVE  RInv'
<1> DEFINE h == Len(handled[c])
           ks == sent[c]
           f == [req |-> Len(ks) + 1, part |-> part]
<1>1. /\ UNCHANGED <<freeing, closing, draining, pc, todo, conn, peer, hup, got, handled, lost>>
      /\ peer[c] \in {"backlog", "open"} /\ Typed /\ ClientOK(c)
      /\ sent'[c] = Append(ks, kind) /\ inbox'[c] = Append(inbox[c], f)
      /\ \A d \in Client : d # c => inbox'[d] = inbox[d] /\ sent'[d] = sent[d]
  BY DEF Send, flags, IInv, Typed
<1>2. ASSUME NEW d \in Client, d # c PROVE ReplyOK(d)'
  <2>1. Leaves(d)
    BY <1>1, <1>2, RequestRead DEF Leaves, cur
  <2> QED BY <2>1, ReplyKept
<1>3. ks \in Seq(Kind) /\ Len(ks) \in Nat /\ h \in Nat /\ h <= Len(ks)
  BY <1>1, LenProperties DEF Typed, ClientOK, InOrder
<1>4. /\ Append(ks, kind) \in Seq(Kind) /\ Len(Append(ks, kind)) = Len(ks) + 1
      /\ \A i \in 1 .. Len(ks) : Append(ks, kind)[i] = ks[i]
      /\ Append(ks, kind)[Len(ks) + 1] = kind
  BY <1>3, AppendProperties
<1>5. First(sent'[c], h) = First(ks, h)
  <2> DEFINE s == Append(ks, kind)
             a == SubSeq(ks, 1, h)
             b == SubSeq(s, 1, h)
  <2> HIDE DEF s, h, ks
  <2>1. h \in 0 .. Len(ks) /\ h \in 0 .. Len(s)
    BY <1>3, <1>4 DEF s
  <2>2. a \in Seq(Kind) /\ Len(a) = h /\ \A i \in 1 .. h : a[i] = ks[i]
    BY <1>3, <2>1, Taken
  <2>3. b \in Seq(Kind) /\ Len(b) = h /\ \A i \in 1 .. h : b[i] = s[i]
    BY <1>4, <2>1, Taken DEF s
  <2>4. \A i \in 1 .. h : a[i] = b[i]
    BY <1>3, <1>4, <2>2, <2>3 DEF s
  <2> HIDE DEF a, b
  <2>5. a = b
    BY <2>2, <2>3, <2>4, SeqEqual
  <2> QED BY <1>1, <2>5 DEF First, a, b, s, ks
<1>6. Replied(c)' /\ Opened(c)'
  <2>1. Replied(c) /\ Opened(c)
    BY DEF RInv, ReplyOK
  <2> QED BY <1>1, <1>5, <2>1 DEF Replied, Behind, Opened
<1>7. ASSUME c \in Patient PROVE Quiet(c)'
  <2>1. part = "whole" /\ kind # "bad" /\ got[c] = Replies(ks) /\ Quiet(c)
    BY <1>7 DEF Send, RInv, ReplyOK
  <2>2. Stream(c) = <<>> /\ conn[c].send = <<>> /\ Len(handled[c]) = Len(ks)
    BY <1>1, <1>7, <2>1, AllCame
  <2>3. Stream(c)' = <<f>>
    <3>1. conn[c].recv \in Seq(Fragment) /\ inbox[c] \in Seq(Fragment)
      BY <1>1, Known
    <3>2. f \in Fragment
      BY <1>3 DEF Fragment, Part
    <3> HIDE DEF f
    <3>3. conn[c].recv \o Append(inbox[c], f) = Append(Stream(c), f)
      <4> DEFINE r == conn[c].recv
                 b == inbox[c]
      <4>1. r \in Seq(Fragment) /\ b \in Seq(Fragment)
        BY <3>1
      <4> HIDE DEF r, b
      <4>2. r \o Append(b, f) = Append(r \o b, f)
        BY <3>2, <4>1, Arrived
      <4> QED BY <4>2 DEF Stream, r, b
    <3> QED BY <1>1, <2>2, <3>3 DEF Stream
  <2>4. \A i \in 1 .. Len(sent'[c]) : sent'[c][i] # "bad"
    <3> HIDE DEF ks
    <3>1. \A i \in 1 .. Len(ks) + 1 : i \in 1 .. Len(ks) \/ i = Len(ks) + 1
      BY <1>3
    <3>2. \A i \in 1 .. Len(ks) : ks[i] # "bad"
      BY <2>1 DEF Quiet, ks
    <3> QED BY <1>1, <1>4, <2>1, <3>1, <3>2
  <2>5. handled[c] # <<>> => KindOf(c, h)' = KindOf(c, h)
    <3> SUFFICES ASSUME handled[c] # <<>> PROVE KindOf(c, h)' = KindOf(c, h)
      OBVIOUS
    <3>1. h \in 1 .. Len(ks)
      <4>1. handled[c] \in Seq(Handled)
        BY <1>1 DEF Typed
      <4> QED BY <1>3, <4>1, Empties
    <3> QED BY <1>1, <1>4, <3>1 DEF KindOf
  <2>6. cur' = cur
    BY <1>1 DEF cur
  <2>7. Len(<<f>>) = 1 /\ <<f>>[1].part = "whole"
    BY <2>1
  <2> HIDE DEF f
  <2> QED BY <1>1, <2>1, <2>2, <2>3, <2>4, <2>5, <2>6, <2>7 DEF Quiet
<1>8. \A l \in lost' : LostFor(l)'
  BY <1>1 DEF RInv, LostFor
<1> QED BY <1>2, <1>6, <1>7, <1>8 DEF RInv, ReplyOK

LEMMA ReadReplies == IInv /\ RInv /\ Read => RInv'
<1> SUFFICES ASSUME IInv, RInv, Read PROVE RInv'
  OBVIOUS
<1>0. PICK c : c = cur
  OBVIOUS
<1> DEFINE k == StaticCb(conn[c])
<1>1. /\ ListOK /\ Typed /\ (\A d \in Client : ClientOK(d)) /\ pc = "visit" /\ c # Listener
      /\ UNCHANGED <<freeing, todo, draining, peer, sent, hup, got, handled, lost>>
  BY <1>0 DEF IInv, Read
<1>2. c \in Client /\ peer[c] = "open" /\ Connection(c) /\ Buffer(conn[c])
  BY <1>0, <1>1, Visited DEF Visiting, ClientOK, Connection
<1>3. /\ Buffer(k) /\ k.recv = conn[c].recv /\ Coming(k) = Coming(conn[c])
      /\ conn[c].file = NoFile => k = conn[c]
      /\ k.file # NoFile => conn[c].file # NoFile /\ k.file.req = conn[c].file.req
      /\ conn[c].send # <<>> => k.send # <<>>
  <2> DEFINE k0 == conn[c]
  <2> HIDE DEF k0
  <2>1. Buffer(k0)
    BY <1>2 DEF k0
  <2> QED BY <2>1, Topped DEF k0
<1> HIDE DEF k
<1>4. CASE conn' = [conn EXCEPT ![c] = k] /\ inbox' = inbox /\ closing' = closing
  <2>1. \A d \in Client : conn'[d] \in {conn[d], StaticCb(conn[d])}
    BY <1>1, <1>4 DEF Typed, k
  <2>2. \A d \in Client : Leaves(d)
    BY <1>1, <1>4, <2>1, RequestRead DEF Leaves
  <2> QED BY <1>1, <2>2, AllKept
<1>5. CASE /\ conn' = [conn EXCEPT ![c] = k] /\ inbox' = inbox /\ closing' = closing \cup {c}
           /\ Full(k.recv) \/ hup[c]
  <2>1. \A d \in Client : conn'[d] \in {conn[d], StaticCb(conn[d])}
    BY <1>1, <1>5 DEF Typed, k
  <2>2. c \in Patient => ~Full(k.recv)
    <3>1. c \in Patient => conn[c].recv = <<>>
      BY <1>1, RequestRead
    <3> QED BY <1>3, <3>1 DEF Full
  <2>3. \A d \in Client : Leaves(d)
    BY <1>1, <1>5, <2>1, <2>2, RequestRead DEF Leaves
  <2> QED BY <1>1, <2>3, AllKept
<1>6. ASSUME NEW n \in 1 .. Len(inbox[c]), closing' = closing,
             conn' = [conn EXCEPT ![c] = [k EXCEPT !.recv = @ \o SubSeq(inbox[c], 1, n)]],
             inbox' = [inbox EXCEPT ![c] = SubSeq(@, n + 1, Len(@))],
             pc' = IF k.file = NoFile THEN "http_cb" ELSE "write"
      PROVE  RInv'
  <2>1. /\ \A d \in Client : d # c => conn'[d] = conn[d] /\ inbox'[d] = inbox[d]
        /\ conn'[c] = [k EXCEPT !.recv = @ \o SubSeq(inbox[c], 1, n)]
        /\ inbox'[c] = SubSeq(inbox[c], n + 1, Len(inbox[c]))
    BY <1>1, <1>2, <1>6 DEF Typed
  <2>2. /\ conn'[c].send = k.send /\ conn'[c].file = k.file
        /\ conn'[c].recv = k.recv \o SubSeq(inbox[c], 1, n)
    BY <1>3, <2>1 DEF Buffer, Record
  <2>3. Stream(c)' = Stream(c) /\ inbox[c] \in Seq(Fragment) /\ Stream(c) \in Seq(Fragment)
    <3> DEFINE r == conn[c].recv
               b == inbox[c]
    <3>1. r \in Seq(Fragment) /\ b \in Seq(Fragment) /\ n \in 1 .. Len(b)
      BY <1>1, <1>2, Known
    <3> HIDE DEF r, b
    <3>2. (r \o SubSeq(b, 1, n)) \o SubSeq(b, n + 1, Len(b)) = r \o b
      <4>1. Transfer(r, b, n, Fragment)
        BY <3>1, Moved
      <4> QED BY <4>1 DEF Transfer
    <3>3. r \o b \in Seq(Fragment)
      BY <3>1, ConcatProperties
    <3> QED BY <1>3, <2>1, <2>2, <3>1, <3>2, <3>3 DEF Stream, r, b
  <2>4. Coming(conn'[c]) = Coming(conn[c])
    BY <1>3, <2>2 DEF Coming
  <2>5. ReplyOK(c)
    BY <1>2 DEF RInv
  <2>6. Replied(c)' /\ Opened(c)'
    <3>1. got'[c] \o Coming(conn'[c]) = got[c] \o Coming(conn[c])
      BY <1>1, <2>4
    <3>2. Behind(c)' <=> Behind(c)
      BY <1>1 DEF Behind
    <3> QED BY <1>1, <1>3, <2>2, <2>5, <3>1, <3>2 DEF ReplyOK, Replied, Opened
  <2>7. ASSUME c \in Patient PROVE Quiet(c)'
    <3>1. Stream(c) # <<>>
      <4> DEFINE r == conn[c].recv
                 b == inbox[c]
      <4>1. r \in Seq(Fragment) /\ b \in Seq(Fragment) /\ Stream(c) = r \o b
        BY <1>1, <1>2, Known DEF Stream
      <4>2. b # <<>>
        BY <1>6, <4>1, Empties
      <4> HIDE DEF r, b
      <4> QED BY <4>1, <4>2, ConcatEqualIffEmpty
    <3>2. /\ conn[c].send = <<>> /\ conn[c].file = NoFile
          /\ Len(Stream(c)) = 1 /\ Stream(c)[1].part = "whole"
      BY <1>2, <2>7, <3>1, OneRequest
    <3>3. pc' = "http_cb" /\ cur' = c /\ conn'[c].send = <<>>
      BY <1>0, <1>1, <1>3, <1>6, <2>2, <3>2 DEF cur
    <3>4. \A i : KindOf(c, i)' = KindOf(c, i)
      BY <1>1 DEF KindOf
    <3>5. Quiet(c)
      BY <2>5, <2>7 DEF ReplyOK
    <3> QED BY <1>1, <1>6, <2>3, <3>2, <3>3, <3>4, <3>5 DEF Quiet
  <2>8. ASSUME NEW d \in Client, d # c PROVE ReplyOK(d)'
    <3>1. Leaves(d)
      BY <1>1, <1>6, <2>1, <2>8, RequestRead DEF Leaves
    <3> QED BY <3>1, ReplyKept
  <2>9. \A l \in lost' : LostFor(l)'
    BY <1>1 DEF RInv, LostFor
  <2> QED BY <2>6, <2>7, <2>8, <2>9 DEF RInv, ReplyOK
<1>7. \/ conn' = [conn EXCEPT ![c] = k] /\ inbox' = inbox /\ closing' = closing
      \/ /\ conn' = [conn EXCEPT ![c] = k] /\ inbox' = inbox /\ closing' = closing \cup {c}
         /\ Full(k.recv) \/ hup[c]
      \/ \E n \in 1 .. Len(inbox[c]) :
           /\ closing' = closing
           /\ conn' = [conn EXCEPT ![c] = [k EXCEPT !.recv = @ \o SubSeq(inbox[c], 1, n)]]
           /\ inbox' = [inbox EXCEPT ![c] = SubSeq(@, n + 1, Len(@))]
           /\ pc' = IF k.file = NoFile THEN "http_cb" ELSE "write"
  BY <1>0 DEF Read, k
<1> QED BY <1>4, <1>5, <1>6, <1>7

\* Nothing is lost or doubled between the buffer and the socket.
LEMMA WroteReplies ==
  ASSUME NEW g \in Seq(Piece), NEW k, Buffer(k), NEW n \in 1 .. Len(k.send)
  PROVE  (g \o SubSeq(k.send, 1, n)) \o Coming(StaticCb(Written(k, n))) = g \o Coming(k)
<1> DEFINE w == Written(k, n)
           s == k.send
           a == SubSeq(s, 1, n)
           b == SubSeq(s, n + 1, Len(s))
           t == IF k.file = NoFile THEN <<>> ELSE Body(k.file.req, k.file.left)
<1>1. /\ Buffer(w) /\ w.file = k.file /\ w.send = b /\ a \in Seq(Piece) /\ b \in Seq(Piece)
  BY WroteSome
<1>2. Coming(StaticCb(w)) = Coming(w)
  <2> HIDE DEF w
  <2> QED BY <1>1, Topped
<1>3. Coming(w) = b \o t /\ Coming(k) = s \o t
  <2> HIDE DEF w, b
  <2> QED BY <1>1 DEF Coming
<1>4. s \in Seq(Piece)
  BY DEF Buffer, Record
<1>5. t \in Seq(Piece)
  <2>1. CASE k.file = NoFile
    BY <2>1, EmptySeq
  <2>2. CASE k.file # NoFile
    <3>1. k.file.req \in Nat /\ k.file.left \in Nat
      BY <2>2, SizeAssumption DEF Buffer, Record, File
    <3> QED BY <2>2, <3>1, BodyPieces
  <2> QED BY <2>1, <2>2
<1>6. a \o b = s
  <2> HIDE DEF s
  <2> QED BY <1>4, Divided DEF s
<1> HIDE DEF w, s, a, b, t
<1>7. (g \o a) \o (b \o t) = g \o (s \o t)
  <2>1. b \o t \in Seq(Piece) /\ (a \o b) \o t = a \o (b \o t)
    <3>1. Regrouped(a, b, t) /\ b \o t \in Seq(Piece)
      BY <1>1, <1>5, Joined
    <3> QED BY <3>1 DEF Regrouped
  <2> DEFINE x == b \o t
  <2> HIDE DEF x
  <2>2. (g \o a) \o x = g \o (a \o x)
    <3>1. g \in Seq(Piece) /\ a \in Seq(Piece) /\ x \in Seq(Piece)
      BY <1>1, <2>1 DEF x
    <3> QED BY <3>1
  <2> QED BY <1>6, <2>1, <2>2 DEF x
<1> QED BY <1>2, <1>3, <1>7 DEF w, s, a

LEMMA WriteReplies == IInv /\ RInv /\ Write => RInv'
<1> SUFFICES ASSUME IInv, RInv, Write PROVE RInv'
  OBVIOUS
<1>0. PICK c : c = cur
  OBVIOUS
<1>1. /\ ListOK /\ FlagsOK /\ Typed /\ (\A d \in Client : ClientOK(d)) /\ pc = "write" /\ c # Listener
      /\ UNCHANGED <<freeing, draining, peer, sent, inbox, hup, handled, lost>>
  BY <1>0 DEF IInv, FlagsOK, Write, client
<1>2. c \in Client /\ peer[c] = "open" /\ Buffer(conn[c]) /\ ClientOK(c)
  BY <1>0, <1>1, Visited DEF Visiting, ClientOK, Connection
<1>3. CASE conn' = conn /\ got' = got /\ Leave(conn[c])
  <2>1. closing' = IF c \in draining /\ conn[c].send = <<>> THEN closing \cup {c} ELSE closing
    BY <1>0, <1>3 DEF Leave
  <2>2. \A d \in Client : Leaves(d)
    BY <1>1, <1>3, <2>1, RequestRead DEF Leaves
  <2> QED BY <1>1, <2>2, AllKept
<1>4. ASSUME NEW n \in 1 .. Len(conn[c].send),
             conn' = [conn EXCEPT ![c] = StaticCb(Written(conn[c], n))],
             got' = [got EXCEPT ![c] = @ \o SubSeq(conn[c].send, 1, n)],
             Leave(StaticCb(Written(conn[c], n)))
      PROVE  RInv'
  <2> DEFINE k == conn[c]
             w == Written(k, n)
             k1 == StaticCb(w)
  <2>1. /\ conn'[c] = k1 /\ got'[c] = got[c] \o SubSeq(k.send, 1, n) /\ got[c] \in Seq(Piece)
        /\ \A d \in Client : d # c => conn'[d] = conn[d] /\ got'[d] = got[d]
        /\ closing' = IF c \in draining /\ k1.send = <<>> THEN closing \cup {c} ELSE closing
    BY <1>0, <1>1, <1>2, <1>4 DEF Typed, Leave
  <2>2. Buffer(w) /\ w.recv = k.recv /\ w.file = k.file
    <3> HIDE DEF k
    <3>1. Buffer(k) /\ n \in 1 .. Len(k.send)
      BY <1>2, <1>4 DEF k
    <3> QED BY <3>1, WroteSome
  <2>3. k1.recv = k.recv /\ (k1.file # NoFile => k.file # NoFile /\ k1.file.req = k.file.req)
    <3> HIDE DEF w
    <3> QED BY <2>2, Topped
  <2>4. got'[c] \o Coming(conn'[c]) = got[c] \o Coming(conn[c])
    <3> DEFINE g == got[c]
    <3>1. Buffer(k) /\ n \in 1 .. Len(k.send) /\ g \in Seq(Piece)
      BY <1>2, <1>4, <2>1
    <3> HIDE DEF k, g
    <3>2. (g \o SubSeq(k.send, 1, n)) \o Coming(StaticCb(Written(k, n))) = g \o Coming(k)
      BY <3>1, WroteReplies
    <3> QED BY <2>1, <3>2 DEF k, g
  <2> HIDE DEF w, k1
  <2>5. ReplyOK(c)
    BY <1>2 DEF RInv
  <2>6. Replied(c)' /\ Opened(c)'
    <3>1. Behind(c)' <=> Behind(c)
      BY <1>1 DEF Behind
    <3> QED BY <1>1, <1>2, <2>1, <2>3, <2>4, <2>5, <3>1 DEF ReplyOK, Replied, Opened
  <2>7. ASSUME c \in Patient PROVE Quiet(c)'
    <3>1. k.send # <<>>
      <4>1. k.send \in Seq(Piece)
        BY <1>2 DEF Buffer, Record
      <4> QED BY <1>4, <4>1, Empties
    <3>2. Stream(c) = <<>> /\ conn[c].recv = <<>>
      BY <1>1, <1>2, <2>7, <3>1, OneRequest, RequestRead
    <3>3. Stream(c)' = Stream(c)
      BY <1>1, <2>1, <2>3 DEF Stream
    <3>4. KindOf(c, Len(handled[c]))' = KindOf(c, Len(handled[c]))
      BY <1>1 DEF KindOf
    <3>5. Quiet(c)
      BY <2>5, <2>7 DEF ReplyOK
    <3>6. c \in closing' => hup'[c] \/ freeing' \/ (c \in draining' /\ conn'[c].send = <<>>)
      BY <1>1, <2>1, <3>1, <3>5 DEF Quiet
    <3> QED BY <1>1, <2>1, <2>3, <3>2, <3>3, <3>4, <3>5, <3>6 DEF Quiet
  <2>8. ASSUME NEW d \in Client, d # c PROVE ReplyOK(d)'
    <3>1. Leaves(d)
      BY <1>1, <1>4, <2>1, <2>8, RequestRead DEF Leaves
    <3> QED BY <3>1, ReplyKept
  <2>9. \A l \in lost' : LostFor(l)'
    BY <1>1 DEF RInv, LostFor
  <2> QED BY <2>6, <2>7, <2>8, <2>9 DEF RInv, ReplyOK
<1>5. \/ conn' = conn /\ got' = got /\ Leave(conn[c])
      \/ \E n \in 1 .. Len(conn[c].send) :
           /\ conn' = [conn EXCEPT ![c] = StaticCb(Written(conn[c], n))]
           /\ got' = [got EXCEPT ![c] = @ \o SubSeq(conn[c].send, 1, n)]
           /\ Leave(StaticCb(Written(conn[c], n)))
  BY <1>0 DEF Write
<1> QED BY <1>3, <1>4, <1>5

\* A lost file stays lost for the same reason.
LEMMA LostStays ==
  ASSUME NEW l \in Client \X Nat, Typed, LostFor(l), NEW x \in Handled,
         handled'[l[1]] \in {handled[l[1]], Append(handled[l[1]], x)}
  PROVE  LostFor(l)'
<1> DEFINE h == handled[l[1]]
           h1 == handled'[l[1]]
<1>1. h \in Seq(Handled) /\ Len(h) \in Nat
  BY LenProperties DEF Typed
<1>2. Len(h1) >= Len(h) /\ Len(h1) \in Nat /\ \A i \in 1 .. Len(h) : h1[i] = h[i]
  BY <1>1, AppendProperties
<1>3. PICK i \in 1 .. Len(h) : \/ h[i].how = "behind" /\ h[i].req > l[2]
                               \/ h[i].how = "close" /\ h[i].req = l[2]
                               \/ h[i].body = "endless" /\ h[i].req = l[2]
  BY DEF LostFor
<1>4. i \in 1 .. Len(h1) /\ h1[i] = h[i]
  BY <1>1, <1>2
<1> QED BY <1>3, <1>4 DEF LostFor

\* The reply to a request joins what is on its way, when that is all in the
\* send buffer.
Answers(k, k1, n, kind) ==
  /\ kind \in Kind \ {"bad"} /\ Reply(n, kind)[1] \in Piece /\ n \in Nat
  /\ Buffer(k) /\ k.file = NoFile
  /\ k1.send = Append(k.send, Reply(n, kind)[1])
  /\ k1.file = IF kind = "file" THEN [req |-> n, left |-> FileLen] ELSE k.file
  /\ kind = "file" => k1.file # NoFile

LEMMA HandledReply ==
  ASSUME NEW g \in Seq(Piece), NEW k, NEW k1, NEW n, NEW kind, Answers(k, k1, n, kind)
  PROVE  g \o Coming(k1) = (g \o Coming(k)) \o Reply(n, kind)
<1> USE DEF Answers
<1> DEFINE a == k.send
           x == Reply(n, kind)[1]
           t == IF kind = "file" THEN Body(n, FileLen) ELSE <<>>
           p == <<x>>
<1>1. a \in Seq(Piece) /\ x \in Piece /\ p \in Seq(Piece)
  BY DEF Buffer, Record
<1>2. t \in Seq(Piece)
  BY SizeAssumption, BodyPieces, EmptySeq
<1>3. Coming(k) = a
  BY <1>1, ConcatEmptySeq DEF Coming
<1>4. Reply(n, kind) = p \o t
  <2>1. CASE kind = "file"
    <3> DEFINE z == [req |-> n, part |-> "head"]
               y == Body(n, FileLen)
    <3>1. Reply(n, kind) = <<z>> \o y /\ t = y
      BY <2>1, ReplyPieces
    <3>2. z \in Piece /\ <<z>> \in Seq(Piece) /\ y \in Seq(Piece)
      BY <1>2, <2>1 DEF Piece
    <3> HIDE DEF z, y
    <3>3. (<<z>> \o y)[1] = z
      <4>1. Len(<<z>>) = 1 /\ Len(y) \in Nat /\ 1 \in 1 .. 1 + Len(y)
        BY <3>2, LenProperties
      <4>2. (<<z>> \o y)[1] = <<z>>[1]
        BY <3>2, <4>1, ConcatProperties
      <4> QED BY <4>2
    <3> QED BY <3>1, <3>3
  <2>2. CASE kind # "file"
    <3>1. Reply(n, kind) = p /\ t = <<>>
      BY <2>2, ReplyPieces DEF Kind
    <3> HIDE DEF p
    <3> QED BY <1>1, <3>1, ConcatEmptySeq
  <2> QED BY <2>1, <2>2
<1>5. Coming(k1) = Append(a, x) \o t
  <2>1. CASE kind = "file"
    <3>1. k1.file # NoFile /\ k1.file.req = n /\ k1.file.left = FileLen
      BY <2>1
    <3> QED BY <2>1, <3>1 DEF Coming
  <2>2. CASE kind # "file"
    <3>1. k1.file = NoFile
      BY <2>2
    <3> QED BY <2>2, <3>1 DEF Coming
  <2> QED BY <2>1, <2>2
<1>6. Append(a, x) = a \o p
  <2> HIDE DEF a, x
  <2> QED BY <1>1, AppendIsConcat
<1> HIDE DEF a, x, t, p
<1>7. p \o t \in Seq(Piece) /\ (a \o p) \o t = a \o (p \o t)
  <2>1. a \in Seq(Piece) /\ p \in Seq(Piece) /\ t \in Seq(Piece)
    BY <1>1, <1>2
  <2>2. (a \o p) \o t = a \o (p \o t)
    BY ONLY <2>1, ConcatAssociative
  <2>3. p \o t \in Seq(Piece)
    BY ONLY <2>1, ConcatProperties
  <2> QED BY <2>2, <2>3
<1> DEFINE y == p \o t
<1> HIDE DEF y
<1>8. g \o (a \o y) = (g \o a) \o y
  <2>1. y \in Seq(Piece)
    BY <1>7 DEF y
  <2>2. g \in Seq(Piece) /\ a \in Seq(Piece)
    BY <1>1
  <2> QED BY ONLY <2>1, <2>2, ConcatAssociative
<1> QED BY <1>3, <1>4, <1>5, <1>6, <1>7, <1>8 DEF y

LEMMA HandleReplies ==
  ASSUME IInv, RInv, Taking
  PROVE  RInv'
<1>1. PICK c, x : c = cur /\ HandleFacts(c, Len(handled[c]) + 1, KindOf(c, Len(handled[c]) + 1), x)
  BY Handling
<1> DEFINE n == Len(handled[c]) + 1
           kind == KindOf(c, n)
           k == conn[c]
           k1 == conn'[c]
<1>2. HandleFacts(c, n, kind, x) /\ c = cur /\ kind = sent[c][n]
  BY <1>1 DEF KindOf
<1> HIDE DEF n, kind
<1>3. /\ ListOK /\ FlagsOK /\ Typed /\ (\A d \in Client : ClientOK(d)) /\ c \in Client
      /\ ReplyOK(c) /\ Buffer(k) /\ sent[c] \in Seq(Kind) /\ got[c] \in Seq(Piece)
  BY <1>2 DEF IInv, RInv, HandleFacts, Given, Typed, ClientOK, Connection
<1>4. /\ c \notin closing /\ peer[c] = "open" /\ UNCHANGED <<freeing, todo, peer, client, got, closing>>
      /\ pc' = "http_cb" /\ n \in Nat \ {0} /\ n <= Len(sent[c]) /\ Len(handled[c]) = n - 1
      /\ Len(handled'[c]) = n /\ handled'[c][n] = x /\ handled'[c] # <<>>
      /\ (\A i \in 1 .. n - 1 : handled'[c][i] = handled[c][i])
      /\ x \in Handled /\ x.req = n /\ x.how = IF k.file = NoFile THEN "read" ELSE "behind"
  BY <1>2 DEF HandleFacts, Given
<1>5. ASSUME NEW d \in Client, d # c PROVE ReplyOK(d)'
  <2>1. d \in draining' <=> d \in draining
    BY <1>2, <1>5 DEF HandleFacts, Given
  <2>2. conn'[d] = conn[d] /\ handled'[d] = handled[d]
    BY <1>2, <1>5 DEF HandleFacts, Given
  <2>3. d \in Patient => conn[d].recv = <<>>
    BY <1>2, <1>5, RequestRead
  <2>4. Leaves(d)
    BY <1>4, <2>1, <2>2, <2>3 DEF Leaves, client
  <2> QED BY <2>4, ReplyKept
<1>6. Replied(c)'
  <2>1. CASE k.file # NoFile
    <3>1. n \in 1 .. n
      BY <1>4
    <3> QED BY <1>4, <2>1, <3>1 DEF Replied, Behind
  <2>2. CASE Behind(c)
    <3>1. PICK i \in 1 .. Len(handled[c]) : handled[c][i].how = "behind"
      BY <2>2 DEF Behind
    <3>2. i \in 1 .. n - 1 /\ i \in 1 .. n
      BY <1>4, <3>1
    <3> QED BY <1>4, <3>1, <3>2 DEF Replied, Behind
  <2>3. CASE k.file = NoFile /\ ~Behind(c)
    <3> DEFINE ks == sent[c]
               g == got[c]
               h == n - 1
    <3>1. g \o Coming(k) = First(ks, h)
      BY <1>3, <1>4, <2>3 DEF ReplyOK, Replied
    <3>2. h \in 0 .. Len(ks) - 1 /\ h \in 0 .. Len(ks) /\ h + 1 = n
      BY <1>3, <1>4, LenProperties
    <3>3. First(ks, n) = First(ks, h) \o Reply(n, kind)
      <4> HIDE DEF ks, h
      <4>1. ks \in Seq(Kind) /\ First(ks, h) \in Seq(Piece)
        BY <1>3, <3>2, FirstPieces DEF ks
      <4>2. First(ks, h + 1) = First(ks, h) \o Reply(h + 1, ks[h + 1])
        BY <3>2, <4>1, OneMore
      <4> QED BY <1>2, <3>2, <4>2 DEF ks
    <3>4. Answers(k, k1, n, kind)
      BY <1>2, <1>3, <2>3 DEF HandleFacts, Given, Answers
    <3>5. g \o Coming(k1) = (g \o Coming(k)) \o Reply(n, kind)
      <4> HIDE DEF g, k, k1
      <4>1. g \in Seq(Piece)
        BY <1>3 DEF g
      <4> QED BY <3>4, <4>1, HandledReply
    <3>6. got'[c] \o Coming(k1) = First(sent'[c], Len(handled'[c]))
      BY <1>4, <3>1, <3>3, <3>5 DEF client
    <3> QED BY <1>4, <3>6 DEF Replied
  <2> QED BY <2>1, <2>2, <2>3
<1>7. Opened(c)'
  <2>1. k1.file = IF kind = "file" THEN [req |-> n, left |-> FileLen] ELSE k.file
    BY <1>2 DEF HandleFacts, Given
  <2>2. k.file # NoFile => k.file.req <= n - 1 /\ k.file.req \in Nat
    BY <1>3, <1>4 DEF ReplyOK, Opened, Buffer, Record, File
  <2>3. k1.file # NoFile => k1.file.req <= n
    <3>1. CASE kind = "file"
      BY <1>4, <2>1, <3>1
    <3>2. CASE kind # "file"
      BY <1>4, <2>1, <2>2, <3>2
    <3> QED BY <3>1, <3>2
  <2> QED BY <1>4, <2>3 DEF Opened
<1>8. ASSUME c \in Patient PROVE Quiet(c)'
  <2>1. Quiet(c) /\ k.recv # <<>>
    BY <1>2, <1>3, <1>8 DEF ReplyOK, Complete, Taking
  <2>2. k.file = NoFile /\ k.send = <<>> /\ inbox[c] = <<>> /\ Len(k.recv) = 1
    BY <1>8, <2>1, RequestRead
  <2>3. k1.recv = <<>>
    <3>1. k1.recv = Rest(k.recv) /\ Head(k.recv).part = "whole"
      BY <1>2, <1>8, <2>1, <2>2, RequestRead DEF HandleFacts, Given
    <3>2. MessageLen(k.recv) = 1
      BY <2>2, <3>1 DEF MessageLen, RequestLen
    <3>3. k1.recv = SubSeq(k.recv, 2, 1)
      BY <2>2, <3>1, <3>2 DEF Rest
    <3>4. SubSeq(k.recv, 2, 1) = <<>>
      BY SubSeqEmpty
    <3> QED BY <3>3, <3>4
  <2>4. Stream(c)' = <<>>
    BY <1>4, <2>2, <2>3 DEF Stream, client
  <2>5. \A i \in 1 .. n : handled'[c][i].how = "read" /\ handled'[c][i].body # "endless"
    <3> TAKE i \in 1 .. n
    <3>1. CASE i = n
      <4>1. x.body = Extent(SubSeq(k.recv, 1, MessageLen(k.recv)))
        BY <1>2, <1>8, <2>1, RequestRead DEF HandleFacts, Given, BodyOf, Endless
      <4>2. x.body # "endless"
        BY <4>1 DEF Extent
      <4> QED BY <1>4, <2>2, <3>1, <4>2
    <3>2. CASE i # n
      <4>1. i \in 1 .. n - 1 /\ i \in 1 .. Len(handled[c])
        BY <1>4, <3>2
      <4> QED BY <1>4, <2>1, <4>1 DEF Quiet
    <3> QED BY <3>1, <3>2
  <2>6. /\ c \notin draining
        /\ draining' = IF kind = "head" THEN draining \cup {c} ELSE draining
        /\ k1.send # <<>>
    BY <1>2, <1>4, <2>1, <2>2 DEF HandleFacts, Given, Quiet
  <2>7. sent'[c][n] = kind /\ cur' = c /\ sent' = sent /\ c \notin closing'
    BY <1>2, <1>4 DEF client, cur
  <2>8. \A i \in 1 .. Len(sent'[c]) : sent'[c][i] # "bad"
    BY <1>4, <2>1 DEF Quiet, client
  <2> QED BY <1>4, <2>3, <2>4, <2>5, <2>6, <2>7, <2>8 DEF Quiet, KindOf
<1>9. \A l \in lost' : LostFor(l)'
  <2> SUFFICES ASSUME NEW l \in lost' PROVE LostFor(l)'
    OBVIOUS
  <2>1. handled'[c] = Append(handled[c], x)
    BY <1>2 DEF HandleFacts, Given
  <2>2. CASE l \in lost
    <3>1. l \in Client \X Nat /\ LostFor(l)
      BY <1>3, <2>2 DEF Typed, RInv
    <3>2. handled'[l[1]] \in {handled[l[1]], Append(handled[l[1]], x)}
      BY <1>2, <2>1, <3>1 DEF HandleFacts, Given
    <3> QED BY <1>3, <1>4, <3>1, <3>2, LostStays
  <2>3. CASE l \notin lost
    <3>1. l = <<c, k.file.req>> /\ k.file # NoFile
      BY <1>2, <2>3 DEF HandleFacts, Given
    <3>2. k.file.req <= n - 1 /\ k.file.req \in Nat
      BY <1>3, <1>4, <3>1 DEF ReplyOK, Opened, Buffer, Record, File
    <3>3. /\ n \in 1 .. Len(handled'[c]) /\ handled'[c][n].how = "behind"
          /\ handled'[c][n].req > k.file.req
      BY <1>4, <3>1, <3>2
    <3> QED BY <3>1, <3>3 DEF LostFor
  <2> QED BY <2>2, <2>3
<1> QED BY <1>5, <1>6, <1>7, <1>8, <1>9 DEF RInv, ReplyOK

LEMMA HttpCbReplies == ASSUME IInv, RInv, HttpCb, ~Round PROVE RInv'
<1>1. CASE ~Malformed(cur, conn[cur].recv) /\ Complete(conn[cur].recv)
  BY <1>1, HandleReplies DEF Taking, Round, Spins, HttpCb, Complete
<1>2. CASE ~(~Malformed(cur, conn[cur].recv) /\ Complete(conn[cur].recv))
  <2>1. /\ UNCHANGED <<freeing, conn, draining, handled, lost, peer, sent, inbox, hup, got>>
        /\ closing' = IF Malformed(cur, conn[cur].recv) THEN closing \cup {cur} ELSE closing
    BY <1>2 DEF HttpCb, client
  <2>2. \A d \in Patient : conn[d].recv = <<>>
    BY <1>2, RequestRead
  <2>3. \A d \in Patient : d \in closing' => d \in closing
    BY <2>1, <2>2 DEF Malformed
  <2>4. \A d \in Client : Leaves(d)
    BY <2>1, <2>2, <2>3 DEF Leaves
  <2> QED BY <2>1, <2>4, AllKept
<1> QED BY <1>1, <1>2

LEMMA CloseReplies == IInv /\ RInv /\ Close => RInv'
<1> SUFFICES ASSUME IInv, RInv, Close PROVE RInv'
  OBVIOUS
<1>0. PICK c : c = cur
  OBVIOUS
<1>1. /\ ListOK /\ FlagsOK /\ Typed /\ (\A d \in Client : ClientOK(d)) /\ pc = "close"
      /\ UNCHANGED <<freeing, sent, inbox, hup, got>> /\ closing' = closing \ {c}
  BY <1>0 DEF IInv, Close, client
<1>2. \A d \in Patient : conn[d].recv = <<>>
  BY <1>1, RequestRead
<1>3. CASE c = Listener
  <2>1. /\ peer' = [d \in Client |-> IF peer[d] = "backlog" THEN "closed" ELSE peer[d]]
        /\ UNCHANGED <<conn, draining, handled, lost>>
    BY <1>0, <1>3 DEF Close
  <2>2. \A d \in Client : d # c /\ (peer'[d] # "closed" => peer[d] # "closed")
    BY <1>3, <2>1, ClientAssumption
  <2>3. \A d \in Client : Leaves(d)
    BY <1>1, <1>2, <2>1, <2>2 DEF Leaves
  <2> QED BY <2>1, <2>3, AllKept
<1>4. CASE c # Listener
  <2> DEFINE last == LastMessage(c)
             x == [req |-> Head(last).req, body |-> Extent(last), how |-> "close"]
  <2>1. c \in Client /\ peer[c] = "open" /\ ClientOK(c) /\ ReplyOK(c)
    BY <1>0, <1>1, <1>4, Visited DEF Visiting, RInv
  <2>2. /\ peer' = [peer EXCEPT ![c] = "closed"]
        /\ conn' = [conn EXCEPT ![c] = Fresh]
        /\ draining' = draining \ {c}
        /\ lost' = lost \cup LostAtClose(c, last)
        /\ handled' = IF last = <<>> THEN handled ELSE [handled EXCEPT ![c] = Append(@, x)]
    BY <1>0, <1>4 DEF Close
  <2>3. /\ peer'[c] = "closed" /\ conn'[c] = Fresh /\ handled[c] \in Seq(Handled)
        /\ handled'[c] = (IF last = <<>> THEN handled[c] ELSE Append(handled[c], x))
        /\ \A d \in Client : d # c => peer'[d] = peer[d] /\ conn'[d] = conn[d] /\ handled'[d] = handled[d]
    BY <1>1, <2>1, <2>2 DEF Typed, ListOK
  <2>4. ASSUME last # <<>> PROVE x \in Handled /\ x.req = Head(last).req /\ x.how = "close"
    <3>1. last = conn[c].recv
      BY <2>4 DEF LastMessage
    <3> HIDE DEF last
    <3>2. last \in Seq(Fragment) /\ Head(last) = last[1] /\ 1 \in 1 .. Len(last)
      <4>1. last \in Seq(Fragment)
        BY <1>1, <2>1, <3>1, Known
      <4>2. Len(last) \in Nat /\ Len(last) # 0
        BY <2>4, <4>1, Empties
      <4> QED BY <2>4, <4>1, <4>2, HeadTailProperties
    <3>3. Head(last).req \in Nat
      <4>1. last[1] \in Fragment
        BY <3>2, ElementOfSeq
      <4> QED BY <3>2, <4>1 DEF Fragment
    <3>4. Extent(last) \in {"whole", "cut", "swollen", "overlong", "endless"}
      BY DEF Extent
    <3> QED BY <3>3, <3>4 DEF Handled
  <2> HIDE DEF last, x
  <2>5. ASSUME NEW d \in Client, d # c PROVE ReplyOK(d)'
    <3>1. Leaves(d)
      BY <1>1, <1>2, <2>2, <2>3, <2>5 DEF Leaves
    <3> QED BY <3>1, ReplyKept
  <2>6. Replied(c)'
    <3>1. CASE Behind(c)
      <4>1. PICK i \in 1 .. Len(handled[c]) : handled[c][i].how = "behind"
        BY <3>1 DEF Behind
      <4>2. i \in 1 .. Len(handled'[c]) /\ handled'[c][i] = handled[c][i]
        <5>1. CASE last = <<>>
          BY <2>3, <4>1, <5>1
        <5>2. CASE last # <<>>
          <6>1. handled'[c] = Append(handled[c], x) /\ x \in Handled
            BY <2>3, <2>4, <5>2
          <6>2. Len(handled[c]) \in Nat
            BY <2>3, LenProperties
          <6> QED BY <2>3, <4>1, <6>1, <6>2, AppendProperties
        <5> QED BY <5>1, <5>2
      <4> QED BY <4>1, <4>2 DEF Replied, Behind
    <3>2. CASE ~Behind(c)
      <4>1. IsPrefix(got[c], Replies(sent[c]))
        BY <1>1, <2>1, <3>2, Received DEF ReplyOK
      <4> QED BY <1>1, <2>3, <4>1 DEF Replied
    <3> QED BY <3>1, <3>2
  <2>7. Fresh.file = NoFile /\ Fresh.recv = <<>> /\ Fresh.send = <<>>
    BY DEF Fresh
  <2>8. Opened(c)'
    BY <2>3, <2>7 DEF Opened
  <2>9. ASSUME c \in Patient PROVE Quiet(c)'
    <3>1. last = <<>>
      BY <1>2, <2>9 DEF LastMessage, last
    <3>2. handled'[c] = handled[c] /\ c \notin draining' /\ c \notin closing' /\ Quiet(c)
      BY <1>1, <2>1, <2>2, <2>3, <2>9, <3>1 DEF ReplyOK
    <3> QED BY <1>1, <2>3, <2>7, <3>2 DEF Quiet
  <2>10. \A l \in lost' : LostFor(l)'
    <3> SUFFICES ASSUME NEW l \in lost' PROVE LostFor(l)'
      OBVIOUS
    <3>1. CASE last = <<>>
      <4>1. lost' = lost /\ handled' = handled
        BY <2>2, <3>1 DEF LostAtClose
      <4> QED BY <4>1 DEF RInv, LostFor
    <3>2. CASE last # <<>> /\ l \in lost
      <4>1. l \in Client \X Nat /\ LostFor(l)
        BY <1>1, <3>2 DEF Typed, RInv
      <4>2. x \in Handled /\ handled'[l[1]] \in {handled[l[1]], Append(handled[l[1]], x)}
        BY <2>3, <2>4, <3>2, <4>1
      <4> QED BY <1>1, <4>1, <4>2, LostStays
    <3>3. CASE last # <<>> /\ l \notin lost
      <4>1. l = <<c, Head(last).req>>
        BY <2>2, <3>3 DEF LostAtClose
      <4>2. handled'[c] = Append(handled[c], x) /\ x \in Handled /\ x.how = "close" /\ x.req = Head(last).req
        BY <2>3, <2>4, <3>3
      <4>3. Len(handled'[c]) \in 1 .. Len(handled'[c]) /\ handled'[c][Len(handled'[c])] = x
        <5> DEFINE h == handled[c]
        <5>1. h \in Seq(Handled) /\ Len(h) \in Nat
          BY <2>3, LenProperties
        <5> HIDE DEF h
        <5>2. Len(Append(h, x)) = Len(h) + 1 /\ Append(h, x)[Len(h) + 1] = x
          BY <4>2, <5>1, AppendProperties
        <5>3. Len(h) + 1 \in 1 .. Len(h) + 1
          BY <5>1
        <5> QED BY <4>2, <5>2, <5>3 DEF h
      <4> QED BY <4>1, <4>2, <4>3 DEF LostFor
    <3> QED BY <3>1, <3>2, <3>3
  <2> QED BY <2>5, <2>6, <2>8, <2>9, <2>10 DEF RInv, ReplyOK
<1> QED BY <1>3, <1>4

LEMMA RInit == Init => RInv
<1> SUFFICES ASSUME Init PROVE RInv
  OBVIOUS
<1>1. Fresh.recv = <<>> /\ Fresh.send = <<>> /\ Fresh.file = NoFile
  BY DEF Fresh
<1>2. ASSUME NEW c \in Client PROVE ReplyOK(c)
  <2>1. /\ conn[c] = Fresh /\ sent[c] = <<>> /\ inbox[c] = <<>> /\ got[c] = <<>> /\ handled[c] = <<>>
        /\ draining = {} /\ closing = {}
    BY <1>2 DEF Init
  <2>2. <<>> \o <<>> = <<>> /\ Len(<<>>) = 0 /\ SubSeq(<<>>, 1, 0) = <<>>
    BY ConcatEmptySeq, EmptySeq, SubSeqEmpty
  <2>3. got[c] \o Coming(conn[c]) = <<>> /\ First(sent[c], Len(handled[c])) = <<>>
    BY <1>1, <2>1, <2>2, NoReplies DEF Coming, First
  <2>4. peer[c] = "away"
    BY <1>2 DEF Init
  <2>5. Replied(c)
    BY <2>3, <2>4 DEF Replied
  <2>6. Stream(c) = <<>>
    BY <1>1, <2>1, <2>2 DEF Stream
  <2> QED BY <1>1, <2>1, <2>2, <2>5, <2>6 DEF ReplyOK, Opened, Quiet
<1>3. lost = {}
  BY DEF Init
<1> QED BY <1>2, <1>3 DEF RInv

LEMMA ReplyStep == ASSUME IInv, RInv, [Next]_vars, ~(HttpCb /\ Round) PROVE RInv'
<1>1. CASE UNCHANGED vars
  <2>1. \A c \in Client : Leaves(c)
    BY <1>1, RequestRead DEF vars, flags, client, Leaves, cur
  <2> QED BY <1>1, <2>1, AllKept DEF vars
<1>2. CASE Server
  BY <1>2, StartReplies, PollReplies, FreeManagerReplies, AcceptReplies, PassReplies, ReadReplies,
     HttpCbReplies, WriteReplies, WriteFailsReplies, CloseReplies DEF Server
<1>3. CASE Clients
  BY <1>3, ConnectReplies, HangUpReplies, SendReplies, SendBodyReplies DEF Clients
<1> QED BY <1>1, <1>2, <1>3 DEF Next, Gone, Spin

\* What has been received so far is the beginning of what is owed.
Begun == \A c \in Patient : IsPrefix(got[c], Replies(sent[c]))

LEMMA HasBegun == IInv /\ RInv => Begun
<1> SUFFICES ASSUME IInv, RInv, NEW c \in Patient PROVE IsPrefix(got[c], Replies(sent[c]))
  BY DEF Begun
<1>1. c \in Client /\ Typed /\ ClientOK(c) /\ Replied(c) /\ Quiet(c)
  BY ClientAssumption DEF IInv, RInv, ReplyOK
<1>2. ~Behind(c)
  BY <1>1 DEF Quiet, Behind
<1> QED BY <1>1, <1>2, Received

\* The client whose message has no length is one that does not wait.
Owing(c) == Behind(c) \/ IsPrefix(got[c], Replies(sent[c]))
RTurned ==
  /\ Turned /\ Begun
  /\ \A c \in Client : Owing(c)
  /\ \A l \in lost : LostFor(l) /\ l[1] \notin Patient
  /\ \A c \in Client, n \in Nat : Turning(c, n) =>
       c \notin Patient /\ (conn[c].file # NoFile => conn[c].file.req <= n)

LEMMA ReplyTurnBegins == ASSUME IInv, RInv, Round PROVE RTurned
<1>1. ListOK /\ FlagsOK /\ Typed /\ (\A c \in Client : ClientOK(c) /\ ReplyOK(c))
  BY DEF IInv, RInv
<1>2. Turned /\ Begun
  BY TurnBegins, HasBegun
<1>3. \A c \in Client : Owing(c)
  BY <1>1, Received DEF Owing, ReplyOK
<1>4. ASSUME NEW l \in lost PROVE LostFor(l) /\ l[1] \notin Patient
  BY <1>1 DEF Typed, RInv, ReplyOK, LostFor, Quiet
<1>5. ASSUME NEW c \in Client, NEW n \in Nat, Turning(c, n)
      PROVE  c \notin Patient /\ (conn[c].file # NoFile => conn[c].file.req <= n)
  <2>1. c \notin Patient
    BY <1>5, RequestRead DEF Turning
  <2>2. peer[c] = "open"
    BY <1>1, <1>5, ClientAssumption, Visited DEF Turning, Visiting
  <2>3. Turning(c, n) /\ ClientOK(c) /\ ReplyOK(c)
    BY <1>1, <1>5
  <2>4. Len(handled[c]) \in Nat /\ conn[c].recv \in Seq(Fragment) /\ conn[c].recv # <<>>
        /\ (conn[c].file # NoFile => conn[c].file.req \in Nat)
    BY <1>1, <2>3, Known, LenProperties DEF Typed, Turning, Connection, ClientOK, Buffer, Record, File
  <2>5. n = Len(handled[c]) + 1
    <3> DEFINE r == conn[c].recv
    <3>1. Orderly(Stream(c), Len(handled[c]), Len(sent[c]))
      BY <2>2, <2>3 DEF ClientOK, InOrder
    <3>2. /\ \A i \in 1 .. Len(r) : Stream(c)[i] = r[i]
          /\ Len(Stream(c)) = Len(r) + Len(inbox[c]) /\ inbox[c] \in Seq(Fragment)
      BY <1>1, <2>3, Known
    <3>3. r \in Seq(Fragment) /\ r # <<>>
      BY <2>4
    <3>4. Head(r).req = n
      BY <2>3 DEF Turning
    <3> HIDE DEF r
    <3>5. Len(r) \in Nat /\ Len(r) # 0 /\ Head(r) = r[1] /\ Len(inbox[c]) \in Nat
      BY <3>2, <3>3, Empties, HeadTailProperties, LenProperties
    <3>6. Len(Stream(c)) # 0 /\ Len(<<>>) = 0 /\ Stream(c)[1] = r[1]
      BY <3>2, <3>5
    <3> QED BY <3>1, <3>4, <3>5, <3>6 DEF Orderly
  <2>6. conn[c].file # NoFile => conn[c].file.req <= Len(handled[c])
    BY <2>3 DEF ReplyOK, Opened
  <2> QED BY <2>1, <2>4, <2>5, <2>6
<1> QED BY <1>2, <1>3, <1>4, <1>5 DEF RTurned

LEMMA ReplyTurnStep == ASSUME RTurned, HttpCb PROVE RTurned'
<1>1. PICK c, n, x : TurnFacts(c, n, x)
  BY OneTurn DEF RTurned
<1> DEFINE m == Len(handled[c])
           k == conn[c]
           kind == KindOf(c, n)
<1>2. /\ Turned /\ Begun /\ Typed /\ Connection(c) /\ Turning(c, n) /\ (\A d \in Client : Owing(d))
      /\ c \in Client /\ n \in Nat \ {0} /\ c \notin Patient /\ m \in Nat
      /\ (k.file # NoFile => k.file.req <= n)
      /\ UNCHANGED <<peer, sent, inbox, hup, got>> /\ Given(c, n, kind, x)
      /\ x.body = "endless" /\ x.req = n /\ x \in Handled
  BY <1>1 DEF RTurned, Turned, TurnFacts, client, Given
<1>3. /\ Len(handled'[c]) = m + 1 /\ handled'[c][m + 1] = x
      /\ \A i \in 1 .. m : handled'[c][i] = handled[c][i]
  BY <1>1 DEF TurnFacts
<1> HIDE DEF m, kind
<1>4. Turned'
  BY <1>2, TurnStep
<1>5. Begun'
  BY <1>2 DEF Begun
<1>6. ASSUME NEW d \in Client PROVE Owing(d)'
  <2>1. Behind(d) => Behind(d)'
    <3>1. CASE d = c
      <4>1. \A i \in 1 .. m : i \in 1 .. m + 1
        BY <1>2
      <4> QED BY <1>3, <3>1, <4>1 DEF Behind, m
    <3>2. CASE d # c
      BY <1>2, <3>2 DEF Behind, Given
    <3> QED BY <3>1, <3>2
  <2>2. Owing(d) /\ got' = got /\ sent' = sent
    BY <1>2
  <2> QED BY <2>1, <2>2 DEF Owing
<1>7. ASSUME NEW l \in lost' PROVE LostFor(l)' /\ l[1] \notin Patient
  <2>1. CASE l \in lost
    <3>1. l \in Client \X Nat /\ LostFor(l) /\ l[1] \notin Patient
      BY <1>2, <2>1 DEF Typed, RTurned
    <3>2. handled'[l[1]] \in {handled[l[1]], Append(handled[l[1]], x)}
      BY <1>2, <3>1 DEF Given
    <3> QED BY <1>2, <3>1, <3>2, LostStays
  <2>2. CASE l \notin lost
    <3>1. l = <<c, k.file.req>> /\ k.file # NoFile
      BY <1>2, <2>2 DEF Given
    <3>2. k.file.req <= n /\ k.file.req \in Nat
      BY <1>2, <3>1 DEF Connection, Buffer, Record, File
    <3>3. m + 1 \in 1 .. Len(handled'[c]) /\ x.how = "behind"
      BY <1>2, <1>3, <3>1 DEF Given
    <3>4. \/ handled'[c][m + 1].how = "behind" /\ handled'[c][m + 1].req > k.file.req
          \/ handled'[c][m + 1].body = "endless" /\ handled'[c][m + 1].req = k.file.req
      BY <1>2, <1>3, <3>2, <3>3
    <3>5. LostFor(l)'
      BY <3>1, <3>3, <3>4 DEF LostFor
    <3> QED BY <1>2, <3>1, <3>5
  <2> QED BY <2>1, <2>2
<1>8. ASSUME NEW d \in Client, NEW j \in Nat, Turning(d, j)'
      PROVE  d \notin Patient /\ (conn'[d].file # NoFile => conn'[d].file.req <= j)
  <2>1. d = c /\ j = n
    <3>1. todo' = todo /\ conn'[c].recv = conn[c].recv /\ c = cur /\ Head(conn[c].recv).req = n
      BY <1>1 DEF TurnFacts, Turning
    <3> QED BY <1>8, <3>1 DEF Turning, cur
  <2>2. conn'[c].file # NoFile => conn'[c].file.req <= n
    BY <1>2 DEF Given
  <2> QED BY <1>2, <2>1, <2>2
<1> QED BY <1>4, <1>5, <1>6, <1>7, <1>8 DEF RTurned

\* What a client is owed only grows when it sends something.
LEMMA PrefixGrows ==
  ASSUME NEW ks \in Seq(Kind), NEW kind \in Kind, NEW g, IsPrefix(g, Replies(ks))
  PROVE  IsPrefix(g, Replies(Append(ks, kind)))
<1> DEFINE s == Append(ks, kind)
           n == Len(ks)
           y == First(s, n)
           z == Reply(n + 1, kind)
           t == y \o z
<1>1. /\ n \in Nat /\ s \in Seq(Kind) /\ Len(s) = n + 1 /\ s[n + 1] = kind
      /\ \A i \in 1 .. n : s[i] = ks[i]
  BY AppendProperties, LenProperties
<1>2. SubSeq(s, 1, n) = ks
  <2> DEFINE b == SubSeq(s, 1, n)
  <2> HIDE DEF s
  <2>1. n \in 0 .. Len(s)
    BY <1>1
  <2>2. b \in Seq(Kind) /\ Len(b) = n /\ \A i \in 1 .. n : b[i] = s[i]
    BY <1>1, <2>1, Taken
  <2> HIDE DEF b
  <2>3. b = ks
    BY <1>1, <2>2, SeqEqual
  <2> QED BY <2>3 DEF b
<1>3. y = Replies(ks) /\ y \in Seq(Piece)
  <2> HIDE DEF s
  <2>1. n \in 0 .. Len(s)
    BY <1>1
  <2> QED BY <1>1, <1>2, <2>1, FirstPieces DEF First
<1>4. Replies(s) = t
  <2> HIDE DEF s, n
  <2>1. n \in 0 .. Len(s) - 1 /\ First(s, n) \in Seq(Piece)
    BY <1>1, <1>3
  <2>2. First(s, n + 1) = First(s, n) \o Reply(n + 1, s[n + 1])
    BY <1>1, <2>1, OneMore
  <2>3. SubSeq(s, 1, Len(s)) = s
    BY <1>1, SubSeqFull
  <2>4. First(s, n + 1) = Replies(s)
    BY <1>1, <2>3 DEF First
  <2> QED BY <1>1, <2>2, <2>4
<1>5. z \in Seq(Piece)
  <2>1. n + 1 \in Nat
    BY <1>1
  <2> QED BY <2>1, ReplyPieces
<1> HIDE DEF s, n, y, z
<1>6. /\ t \in Seq(Piece) /\ Len(t) = Len(y) + Len(z) /\ Len(y) \in Nat /\ Len(z) \in Nat
      /\ \A i \in 1 .. Len(y) : t[i] = y[i]
  BY <1>3, <1>5, ConcatProperties, LenProperties
<1>7. Len(g) <= Len(y) /\ SubSeq(g, 1, Len(g)) = SubSeq(y, 1, Len(g))
  BY <1>3 DEF IsPrefix
<1>8. SubSeq(y, 1, Len(g)) = SubSeq(t, 1, Len(g))
  BY <1>6, <1>7
<1> QED BY <1>4, <1>6, <1>7, <1>8 DEF IsPrefix, s

LEMMA ReplyTurnGoesOn == ASSUME RTurned, Meanwhile PROVE RTurned'
<1>1. /\ Turned /\ Typed /\ Begun /\ (\A c \in Client : Owing(c))
      /\ UNCHANGED <<pc, todo, conn, got, handled, lost>>
      /\ \A c \in Client : Extended(c) /\ sent[c] \in Seq(Kind)
  BY DEF RTurned, Turned, Meanwhile, Typed
<1>2. \A c \in Client : IsPrefix(got[c], Replies(sent[c])) => IsPrefix(got[c], Replies(sent'[c]))
  BY <1>1, PrefixGrows DEF Extended
<1>3. Turned'
  BY <1>1, TurnGoesOn
<1>4. Begun'
  BY <1>1, <1>2, ClientAssumption DEF Begun
<1>5. \A c \in Client : Owing(c)'
  BY <1>1, <1>2 DEF Owing, Behind
<1>6. \A l \in lost' : LostFor(l)' /\ l[1] \notin Patient
  BY <1>1 DEF RTurned, LostFor
<1>7. ASSUME NEW c \in Client, NEW n \in Nat, Turning(c, n)'
      PROVE  c \notin Patient /\ (conn'[c].file # NoFile => conn'[c].file.req <= n)
  <2>1. PICK d \in Client, j \in Nat : Turning(d, j)
    BY <1>1 DEF Turned
  <2>2. d = c /\ j = n
    BY <1>1, <1>7, <2>1 DEF Turning, cur
  <2> QED BY <1>1, <2>1, <2>2 DEF RTurned
<1> QED BY <1>3, <1>4, <1>5, <1>6, <1>7 DEF RTurned

LEMMA ReplyTurnedStep == RTurned /\ [Next]_vars => RTurned'
<1> SUFFICES ASSUME RTurned, [Next]_vars PROVE RTurned'
  OBVIOUS
<1>1. Turned /\ ListOK /\ Typed
  BY DEF RTurned, Turned
<1> QED BY <1>1, OnlyTurns, ReplyTurnStep, Bystanders, ReplyTurnGoesOn

LEMMA ReplyInvariance == Spec => []((IInv /\ RInv) \/ RTurned)
<1>1. Init => IInv /\ RInv
  BY InitInv, RInit
<1>2. IInv /\ RInv /\ [Next]_vars => (IInv /\ RInv)' \/ RTurned'
  BY InvStep, ReplyStep, ReplyTurnBegins, ReplyTurnStep
<1>3. RTurned /\ [Next]_vars => RTurned'
  BY ReplyTurnedStep
<1> QED BY <1>1, <1>2, <1>3, PTL DEF Spec

\* A client that does not send behind the request of a static file receives a
\* prefix of the replies to its requests, in their order, each file whole before
\* the next reply: nothing is lost, doubled or swapped between the handler's
\* reply, the file read piece by piece, the send buffer and the socket.
THEOREM Delivery == Spec => []RepliesInOrder
<1>1. (IInv /\ RInv) \/ RTurned => Typed /\ \A c \in Client : Owing(c)
  BY Received DEF IInv, RInv, ReplyOK, RTurned, Turned, Owing
<1>2. Typed /\ (\A c \in Client : Owing(c)) => RepliesInOrder
  <2> SUFFICES ASSUME Typed, NEW c \in Client, Owing(c), ~IsPrefix(got[c], Replies(sent[c]))
               PROVE  \E i \in DOMAIN handled[c] : handled[c][i].how = "behind"
    BY DEF RepliesInOrder
  <2>1. DOMAIN handled[c] = 1 .. Len(handled[c])
    BY LenProperties DEF Typed
  <2> QED BY <2>1 DEF Owing, Behind
<1> QED BY ReplyInvariance, <1>1, <1>2, PTL

\* A file that nobody closes was opened by a client that did not wait: it was
\* replaced by that of a later request, its own request was handled while the
\* connection was being closed, or it was replaced by itself, its request
\* being handed over again and again.
THEOREM Leaks == Spec => []LostOnlyByHaste
<1>1. (IInv /\ RInv) \/ RTurned => Typed /\ \A l \in lost : LostFor(l) /\ l[1] \notin Patient
  <2>1. RTurned => Typed /\ \A l \in lost : LostFor(l) /\ l[1] \notin Patient
    BY DEF RTurned, Turned
  <2>2. ASSUME IInv, RInv, NEW l \in lost PROVE LostFor(l) /\ l[1] \notin Patient
    BY <2>2 DEF IInv, Typed, RInv, ReplyOK, LostFor, Quiet
  <2> QED BY <2>1, <2>2 DEF IInv
<1>2. ASSUME Typed, \A l \in lost : LostFor(l) /\ l[1] \notin Patient PROVE LostOnlyByHaste
  <2> SUFFICES ASSUME NEW l \in lost
               PROVE  \E i \in DOMAIN handled[l[1]] :
                        \/ handled[l[1]][i].how = "behind" /\ handled[l[1]][i].req > l[2]
                        \/ handled[l[1]][i].how = "close" /\ handled[l[1]][i].req = l[2]
                        \/ handled[l[1]][i].body = "endless" /\ handled[l[1]][i].req = l[2]
    BY <1>2 DEF LostOnlyByHaste
  <2>1. LostFor(l) /\ l \in Client \X Nat
    BY <1>2 DEF Typed
  <2>2. DOMAIN handled[l[1]] = 1 .. Len(handled[l[1]])
    BY <1>2, <2>1, LenProperties DEF Typed
  <2> QED BY <2>1, <2>2 DEF LostFor
<1> QED BY ReplyInvariance, <1>1, <1>2, PTL

-----------------------------------------------------------------------------
(* The server does what Exchange promises the clients that wait *)

LEMMA SameReplies == \A ks : Promise!Replies(ks) = Replies(ks)
BY DEF Promise!Replies, Replies, FlattenSeq, Promise!FlattenSeq

LEMMA PromiseInit == Init => Promise!Init
BY ClientAssumption DEF Init, Promise!Init, Of

\* A step that no client that waits can see.
LEMMA Unseen ==
  ASSUME \A c \in Patient : /\ peer'[c] = peer[c] /\ sent'[c] = sent[c]
                            /\ got'[c] = got[c] /\ hup'[c] = hup[c],
         running \in BOOLEAN, running' \in BOOLEAN, running' => running
  PROVE  [Promise!Next]_(Promise!vars)
<1>1. Of(peer)' = Of(peer) /\ Of(sent)' = Of(sent) /\ Of(got)' = Of(got) /\ Of(hup)' = Of(hup)
  BY DEF Of
<1>2. CASE running' = running
  BY <1>1, <1>2 DEF Promise!vars
<1>3. CASE running' # running
  <2>1. running /\ running' = FALSE
    BY <1>3
  <2>2. Promise!Stop
    BY <1>1, <2>1 DEF Promise!Stop
  <2> QED BY <2>2 DEF Promise!Next
<1> QED BY <1>2, <1>3

LEMMA ConnectSeen == ASSUME ListOK, NEW c \in Client, Connect(c) PROVE [Promise!Next]_(Promise!vars)
<1>1. /\ peer[c] = "away" /\ peer' = [peer EXCEPT ![c] = "backlog"]
      /\ UNCHANGED <<running, sent, got, hup>> /\ running \in BOOLEAN
      /\ peer \in [Client -> {"away", "backlog", "open", "closed"}]
  BY DEF Connect, client, ListOK
<1>2. CASE c \in Patient
  <2>1. Of(peer)[c] = "away" /\ Of(peer)' = [Of(peer) EXCEPT ![c] = "backlog"]
    BY <1>1, <1>2, ClientAssumption DEF Of
  <2>2. UNCHANGED <<Of(sent), Of(got), Of(hup), running>>
    BY <1>1 DEF Of
  <2>3. Promise!Connect(c)
    BY <2>1, <2>2 DEF Promise!Connect
  <2> QED BY <1>2, <2>3 DEF Promise!Next
<1>3. CASE c \notin Patient
  BY <1>1, <1>3, Unseen
<1> QED BY <1>2, <1>3

LEMMA HangUpSeen == ASSUME ListOK, Typed, NEW c \in Client, HangUp(c) PROVE [Promise!Next]_(Promise!vars)
<1>1. /\ peer[c] \in {"backlog", "open"} /\ hup' = [hup EXCEPT ![c] = TRUE]
      /\ UNCHANGED <<running, peer, sent, got>> /\ running \in BOOLEAN
      /\ hup \in [Client -> BOOLEAN]
  BY DEF HangUp, ListOK, Typed
<1>2. CASE c \in Patient
  <2>1. Of(peer)[c] = peer[c] /\ Of(hup)' = [Of(hup) EXCEPT ![c] = TRUE]
    BY <1>1, <1>2, ClientAssumption DEF Of
  <2>2. UNCHANGED <<Of(peer), Of(sent), Of(got), running>>
    BY <1>1 DEF Of
  <2>3. Promise!HangUp(c)
    BY <1>1, <2>1, <2>2 DEF Promise!HangUp
  <2> QED BY <1>2, <2>3 DEF Promise!Next
<1>3. CASE c \notin Patient
  <2>1. \A d \in Patient : hup'[d] = hup[d]
    BY <1>1, <1>3, ClientAssumption
  <2> QED BY <1>1, <2>1, Unseen
<1> QED BY <1>2, <1>3

LEMMA SendSeen ==
  ASSUME ListOK, Typed, NEW c \in Client, NEW kind \in Kind, NEW part, Send(c, kind, part)
  PROVE  [Promise!Next]_(Promise!vars)
<1>1. /\ peer[c] \in {"backlog", "open"} /\ ~hup[c] /\ sent' = [sent EXCEPT ![c] = Append(@, kind)]
      /\ c \in Patient => kind # "bad" /\ got[c] = Replies(sent[c])
      /\ Len(sent[c]) < MaxRequests[c]
      /\ UNCHANGED <<running, peer, got, hup>> /\ running \in BOOLEAN
      /\ sent \in [Client -> Seq(Kind)]
  BY DEF Send, ListOK, Typed
<1>2. CASE c \in Patient
  <2>1. /\ Of(peer)[c] = peer[c] /\ Of(hup)[c] = hup[c] /\ Of(sent)[c] = sent[c] /\ Of(got)[c] = got[c]
    BY <1>2 DEF Of
  <2>2. Of(sent)' = [Of(sent) EXCEPT ![c] = Append(@, kind)]
    <3>1. sent'[c] = Append(sent[c], kind) /\ \A d \in Client : d # c => sent'[d] = sent[d]
      BY <1>1
    <3> QED BY <1>2, <3>1, ClientAssumption DEF Of
  <2>3. UNCHANGED <<Of(peer), Of(got), Of(hup), running>>
    BY <1>1 DEF Of
  <2>4. Of(got)[c] = Promise!Owed(c)
    BY <1>1, <1>2, <2>1, SameReplies DEF Promise!Owed
  <2>5. Promise!Send(c, kind)
    BY <1>1, <2>1, <2>2, <2>3, <2>4 DEF Promise!Send
  <2> QED BY <1>1, <1>2, <2>5 DEF Promise!Next
<1>3. CASE c \notin Patient
  <2>1. \A d \in Patient : sent'[d] = sent[d]
    BY <1>1, <1>3, ClientAssumption
  <2> QED BY <1>1, <2>1, Unseen
<1> QED BY <1>2, <1>3

\* A connection is dropped, or all that have not been accepted.
LEMMA DropSeen ==
  ASSUME NEW gone \in SUBSET Patient, UNCHANGED <<running, sent, got, hup>>,
         \A c \in gone : peer[c] \in {"backlog", "open"} /\ peer'[c] = "closed",
         \A c \in Patient \ gone : peer'[c] = peer[c],
         \A c \in gone : \/ hup[c] \/ ~running \/ peer[c] = "backlog"
                         \/ \E n \in DOMAIN sent[c] :
                              sent[c][n] = "head" /\ got[c] = Replies(SubSeq(sent[c], 1, n))
  PROVE  [Promise!Next]_(Promise!vars)
<1>1. \A c \in Patient : /\ Of(peer)[c] = peer[c] /\ Of(hup)[c] = hup[c]
                         /\ Of(sent)[c] = sent[c] /\ Of(got)[c] = got[c]
  BY DEF Of
<1>2. UNCHANGED <<Of(sent), Of(got), Of(hup), running>>
  BY DEF Of
<1>3. Of(peer)' = [c \in Patient |-> IF c \in gone THEN "closed" ELSE Of(peer)[c]]
  BY <1>1 DEF Of
<1>4. ASSUME NEW c \in gone PROVE Of(peer)[c] \in {"backlog", "open"} /\ Promise!MayDrop(c)
  <2>1. c \in Patient
    OBVIOUS
  <2>2. CASE hup[c] \/ ~running \/ peer[c] = "backlog"
    BY <1>1, <2>1, <2>2 DEF Promise!MayDrop
  <2>3. CASE \E n \in DOMAIN sent[c] : sent[c][n] = "head" /\ got[c] = Replies(SubSeq(sent[c], 1, n))
    BY <1>1, <2>1, <2>3, SameReplies DEF Promise!MayDrop
  <2> QED BY <1>1, <2>1, <2>2, <2>3
<1>5. Promise!Drop(gone)
  BY <1>2, <1>3, <1>4 DEF Promise!Drop
<1> QED BY <1>5 DEF Promise!Next

LEMMA AcceptSeen == ASSUME IInv, NEW c \in Client, Accept(c) PROVE [Promise!Next]_(Promise!vars)
<1>1. /\ UNCHANGED <<running, sent, got, hup>> /\ running \in BOOLEAN /\ peer[c] = "backlog"
      /\ peer \in [Client -> {"away", "backlog", "open", "closed"}]
      /\ \/ peer' = peer
         \/ peer' = [peer EXCEPT ![c] = "closed"]
         \/ peer' = [peer EXCEPT ![c] = "open"]
  BY DEF Accept, client, IInv, ListOK
<1>2. CASE c \notin Patient \/ peer' = peer
  <2>1. \A d \in Patient : peer'[d] = peer[d]
    BY <1>1, <1>2, ClientAssumption
  <2> QED BY <1>1, <2>1, Unseen
<1>3. CASE c \in Patient /\ peer' = [peer EXCEPT ![c] = "closed"]
  <2> DEFINE gone == {c}
  <2>1. /\ gone \in SUBSET Patient
        /\ \A d \in gone : peer[d] = "backlog" /\ peer'[d] = "closed"
        /\ \A d \in Patient \ gone : peer'[d] = peer[d]
    BY <1>1, <1>3, ClientAssumption
  <2> HIDE DEF gone
  <2> QED BY <1>1, <2>1, DropSeen
<1>4. CASE c \in Patient /\ peer' = [peer EXCEPT ![c] = "open"]
  <2>1. Of(peer)[c] = "backlog" /\ Of(peer)' = [Of(peer) EXCEPT ![c] = "open"]
    BY <1>1, <1>4, ClientAssumption DEF Of
  <2>2. UNCHANGED <<Of(sent), Of(got), Of(hup), running>>
    BY <1>1 DEF Of
  <2>3. Promise!Accept(c)
    BY <2>1, <2>2 DEF Promise!Accept
  <2> QED BY <1>4, <2>3 DEF Promise!Next
<1> QED BY <1>1, <1>2, <1>3, <1>4

LEMMA WriteSeen == IInv /\ Write /\ Typed' /\ Begun' => [Promise!Next]_(Promise!vars)
<1> SUFFICES ASSUME IInv, Write, Typed', Begun' PROVE [Promise!Next]_(Promise!vars)
  OBVIOUS
<1>0. PICK c : c = cur
  OBVIOUS
<1>1. /\ ListOK /\ FlagsOK /\ Typed /\ (\A d \in Client : ClientOK(d)) /\ pc = "write" /\ c # Listener
      /\ UNCHANGED <<running, peer, sent, hup>> /\ running \in BOOLEAN
      /\ \/ got' = got
         \/ \E n \in 1 .. Len(conn[c].send) : got' = [got EXCEPT ![c] = @ \o SubSeq(conn[c].send, 1, n)]
  BY <1>0 DEF IInv, FlagsOK, ListOK, Write, client
<1>2. c \in Client /\ peer[c] = "open" /\ Buffer(conn[c])
  BY <1>0, <1>1, Visited DEF Visiting, ClientOK, Connection
<1>3. CASE got' = got
  BY <1>1, <1>3, Unseen
<1>4. ASSUME NEW n \in 1 .. Len(conn[c].send),
             got' = [got EXCEPT ![c] = @ \o SubSeq(conn[c].send, 1, n)]
      PROVE  [Promise!Next]_(Promise!vars)
  <2>1. /\ got'[c] = got[c] \o SubSeq(conn[c].send, 1, n) /\ got[c] \in Seq(Piece)
        /\ \A d \in Client : d # c => got'[d] = got[d]
    BY <1>1, <1>2, <1>4 DEF Typed
  <2>2. CASE c \notin Patient
    <3>1. \A d \in Patient : got'[d] = got[d]
      BY <2>1, <2>2, ClientAssumption
    <3> QED BY <1>1, <3>1, Unseen
  <2>3. CASE c \in Patient
    <3> DEFINE g == got[c]
               s == conn[c].send
               a == SubSeq(s, 1, n)
               g1 == got'[c]
               all == Replies(sent[c])
    <3>1. g \in Seq(Piece) /\ s \in Seq(Piece) /\ n \in 1 .. Len(s) /\ g1 = g \o a /\ g1 \in Seq(Piece)
          /\ IsPrefix(g1, all)
      BY <1>1, <1>2, <1>4, <2>1, <2>3 DEF Buffer, Record, Typed, Begun
    <3>2. Of(peer)[c] = "open" /\ Of(got)[c] = g /\ Of(sent)[c] = sent[c]
      BY <1>2, <2>3 DEF Of
    <3>3. Of(got)' = [Of(got) EXCEPT ![c] = g1]
      BY <2>1, <2>3, ClientAssumption DEF Of
    <3>4. Promise!Owed(c) = all
      BY <3>2, SameReplies DEF Promise!Owed
    <3> HIDE DEF g, s, g1, all
    <3>5. n \in 0 .. Len(s) /\ Len(g) \in Nat /\ Len(g1) \in Nat
      BY <3>1, LenProperties
    <3>6. a \in Seq(Piece) /\ Len(a) = n
      BY <3>1, <3>5, Taken
    <3>7. Len(g1) = Len(g) + n
      <4> HIDE DEF a
      <4> QED BY <3>1, <3>6, ConcatProperties
    <3>8. Len(g1) <= Len(all) /\ g1 = SubSeq(all, 1, Len(g1))
      BY <3>1, SubSeqFull DEF IsPrefix
    <3> DEFINE m == Len(g1)
    <3>9. m \in Nat /\ m >= Len(g) + 1 /\ m <= Len(all) /\ Len(all) \in Nat
      <4>1. Len(all) \in Nat
        <5>1. sent[c] \in Seq(Kind) /\ Len(sent[c]) \in 0 .. Len(sent[c])
          BY <1>1, <1>2, LenProperties DEF Typed
        <5>2. First(sent[c], Len(sent[c])) \in Seq(Piece)
          BY <5>1, FirstPieces
        <5>3. First(sent[c], Len(sent[c])) = all
          BY <5>1, SubSeqFull DEF First, all
        <5> QED BY <5>2, <5>3, LenProperties
      <4> QED BY <3>5, <3>7, <3>8, <4>1
    <3>10. m \in Len(g) + 1 .. Len(all) /\ g1 = SubSeq(all, 1, m)
      BY <3>5, <3>8, <3>9
    <3> HIDE DEF m
    <3>11. UNCHANGED <<Of(peer), Of(sent), Of(hup), running>>
      BY <1>1 DEF Of
    <3>12. Promise!Receive(c)
      BY <3>2, <3>3, <3>4, <3>10, <3>11 DEF Promise!Receive
    <3> QED BY <2>3, <3>12 DEF Promise!Next
  <2> QED BY <2>2, <2>3
<1> QED BY <1>1, <1>3, <1>4

LEMMA CloseSeen == IInv /\ RInv /\ Close => [Promise!Next]_(Promise!vars)
<1> SUFFICES ASSUME IInv, RInv, Close PROVE [Promise!Next]_(Promise!vars)
  OBVIOUS
<1>0. PICK c : c = cur
  OBVIOUS
<1>1. /\ ListOK /\ FlagsOK /\ Typed /\ (\A d \in Client : ClientOK(d)) /\ pc = "close" /\ c \in closing
      /\ UNCHANGED <<sent, hup, got>> /\ running \in BOOLEAN
      /\ peer \in [Client -> {"away", "backlog", "open", "closed"}]
  BY <1>0 DEF IInv, Close, client, FlagsOK, ListOK
<1>2. CASE c = Listener
  <2> DEFINE gone == {d \in Patient : peer[d] = "backlog"}
  <2>1. /\ peer' = [d \in Client |-> IF peer[d] = "backlog" THEN "closed" ELSE peer[d]]
        /\ running' = running
    BY <1>0, <1>2 DEF Close
  <2>2. /\ gone \in SUBSET Patient
        /\ \A d \in gone : peer[d] = "backlog" /\ peer'[d] = "closed"
        /\ \A d \in Patient \ gone : peer'[d] = peer[d]
    BY <2>1, ClientAssumption
  <2> HIDE DEF gone
  <2> QED BY <1>1, <2>1, <2>2, DropSeen
<1>3. CASE c # Listener
  <2>1. c \in Client /\ peer[c] = "open" /\ ClientOK(c) /\ ReplyOK(c)
    BY <1>0, <1>1, <1>3, Visited DEF Visiting, RInv
  <2>2. /\ peer' = [peer EXCEPT ![c] = "closed"]
        /\ LET last == LastMessage(c)
           IN running' = (running /\ (last # <<>> => KindOf(c, Head(last).req) # "stop"))
    BY <1>0, <1>3 DEF Close
  <2>3. CASE c \notin Patient
    <3>1. \A d \in Patient : peer'[d] = peer[d]
      BY <1>1, <2>1, <2>2, <2>3, ClientAssumption
    <3>2. running' \in BOOLEAN /\ (running' => running)
      BY <1>1, <2>2
    <3> QED BY <1>1, <3>1, <3>2, Unseen
  <2>4. CASE c \in Patient
    <3> DEFINE gone == {c}
    <3>1. conn[c].recv = <<>>
      BY <1>1, <2>4, RequestRead
    <3>2. LastMessage(c) = <<>>
      BY <3>1 DEF LastMessage
    <3>3. running' = running
      BY <1>1, <2>2, <3>2
    <3>4. /\ gone \in SUBSET Patient
          /\ \A d \in gone : peer[d] = "open" /\ peer'[d] = "closed"
          /\ \A d \in Patient \ gone : peer'[d] = peer[d]
      BY <1>1, <2>1, <2>2, <2>4, ClientAssumption
    <3>5. Quiet(c) /\ Replied(c) /\ ~Behind(c) /\ Connection(c)
      BY <2>1, <2>4 DEF ReplyOK, Quiet, Behind, ClientOK
    <3>6. \/ hup[c] \/ ~running
          \/ \E n \in DOMAIN sent[c] : sent[c][n] = "head" /\ got[c] = Replies(SubSeq(sent[c], 1, n))
      <4>1. CASE hup[c] \/ freeing
        BY <1>1, <4>1 DEF FlagsOK
      <4>2. CASE c \in draining /\ conn[c].send = <<>>
        <5> DEFINE n == Len(handled[c])
        <5>1. handled[c] # <<>> /\ sent[c][n] = "head"
          BY <3>5, <4>2 DEF Quiet, KindOf
        <5>2. n \in DOMAIN sent[c]
          <6>1. handled[c] \in Seq(Handled) /\ sent[c] \in Seq(Kind) /\ n <= Len(sent[c])
            BY <1>1, <2>1 DEF Typed, ClientOK, InOrder
          <6>2. n \in Nat /\ n # 0 /\ Len(sent[c]) \in Nat /\ DOMAIN sent[c] = 1 .. Len(sent[c])
            BY <5>1, <6>1, Empties, LenProperties
          <6> QED BY <6>1, <6>2
        <5>3. got[c] = First(sent[c], n)
          <6>1. got[c] \o Coming(conn[c]) = First(sent[c], n)
            BY <2>1, <3>5 DEF Replied
          <6>2. conn[c].file = NoFile
            BY <3>5, <4>2 DEF Connection
          <6>3. Coming(conn[c]) = <<>>
            <7>1. <<>> \o <<>> = <<>>
              BY EmptySeq, ConcatEmptySeq
            <7> QED BY <4>2, <6>2, <7>1 DEF Coming
          <6>4. got[c] \in Seq(Piece)
            BY <1>1, <2>1 DEF Typed
          <6> QED BY <6>1, <6>3, <6>4, ConcatEmptySeq
        <5> QED BY <5>1, <5>2, <5>3 DEF First
      <4> QED BY <1>1, <3>5, <4>1, <4>2 DEF Quiet
    <3>7. \A d \in gone : \/ hup[d] \/ ~running
                          \/ \E n \in DOMAIN sent[d] :
                               sent[d][n] = "head" /\ got[d] = Replies(SubSeq(sent[d], 1, n))
      BY <3>6
    <3> HIDE DEF gone
    <3> QED BY <1>1, <3>3, <3>4, <3>7, DropSeen
  <2> QED BY <2>3, <2>4
<1> QED BY <1>2, <1>3

LEMMA HttpCbSeen == ASSUME ListOK, HttpCb PROVE [Promise!Next]_(Promise!vars)
<1>1. UNCHANGED <<peer, sent, hup, got>> /\ running \in BOOLEAN
  BY DEF HttpCb, client, ListOK
<1>2. running' \in BOOLEAN /\ (running' => running)
  BY <1>1 DEF HttpCb, Handle
<1> QED BY <1>1, <1>2, Unseen

LEMMA StepSeen ==
  ASSUME IInv, RInv, Typed', Begun', [Next]_vars
  PROVE  [Promise!Next]_(Promise!vars)
<1>1. running \in BOOLEAN /\ ListOK /\ Typed
  BY DEF IInv, ListOK
<1>2. ASSUME UNCHANGED <<running, peer, sent, hup, got>> PROVE [Promise!Next]_(Promise!vars)
  BY <1>1, <1>2, Unseen
<1>3. CASE UNCHANGED vars
  BY <1>2, <1>3 DEF vars, client
<1>4. CASE Start \/ (\E room \in SUBSET Pending : Poll(room)) \/ FreeManager \/ Pass \/ Read \/ WriteFails
  BY <1>2, <1>4 DEF Start, Poll, FreeManager, Pass, Read, WriteFails, client
<1>5. CASE Server
  BY <1>1, <1>4, <1>5, AcceptSeen, HttpCbSeen, WriteSeen, CloseSeen DEF Server
<1>6. ASSUME NEW c \in Client, NEW part \in {"rest", "more"}, SendBody(c, part)
      PROVE  [Promise!Next]_(Promise!vars)
  BY <1>2, <1>6 DEF SendBody
<1>7. CASE Clients
  BY <1>1, <1>6, <1>7, ConnectSeen, HangUpSeen, SendSeen DEF Clients
<1> QED BY <1>3, <1>5, <1>7 DEF Next, Gone, Spin

LEMMA TurnSeen == ASSUME RTurned, [Next]_vars PROVE [Promise!Next]_(Promise!vars)
<1>1. Turned /\ ListOK /\ Typed /\ running \in BOOLEAN
  BY DEF RTurned, Turned, ListOK
<1>2. ASSUME UNCHANGED <<running, peer, sent, hup, got>> PROVE [Promise!Next]_(Promise!vars)
  BY <1>1, <1>2, Unseen
<1>3. CASE UNCHANGED vars
  BY <1>2, <1>3 DEF vars, client
<1>4. ASSUME NEW c \in Client, NEW part \in {"rest", "more"}, SendBody(c, part)
      PROVE  [Promise!Next]_(Promise!vars)
  BY <1>2, <1>4 DEF SendBody
<1>5. CASE Clients
  BY <1>1, <1>4, <1>5, ConnectSeen, HangUpSeen, SendSeen DEF Clients
<1> QED BY <1>1, <1>3, <1>5, OnlyTurns, HttpCbSeen

\* Clients that wait for each reply are served as Exchange promises: replies in
\* order, each whole, and no connection dropped but for the reasons it names;
\* whatever clients that do not wait do on their connections.
THEOREM Implements == Spec => ImplementsExchange
<1>1. Init => Promise!Init
  BY PromiseInit
<1>2. (IInv /\ RInv) \/ RTurned => Typed /\ Begun
  BY HasBegun DEF IInv, RTurned, Turned
<1>3. IInv /\ RInv /\ Typed' /\ Begun' /\ [Next]_vars => [Promise!Next]_(Promise!vars)
  BY StepSeen
<1>4. RTurned /\ [Next]_vars => [Promise!Next]_(Promise!vars)
  BY TurnSeen
<1> QED BY <1>1, <1>2, <1>3, <1>4, ReplyInvariance, PTL DEF Spec, ImplementsExchange, Promise!Spec
=============================================================================
