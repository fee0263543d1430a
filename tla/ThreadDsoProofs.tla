-------------------------- MODULE ThreadDsoProofs ---------------------------
(***************************************************************************)
(* Proofs about ThreadDso for any number of worker threads: its types,     *)
(* that a stop which answers leaves neither a worker nor a disturbed mutex *)
(* behind (QuietWhenStopped), that tbuf is exact (TbufListsWorkers), and   *)
(* that the shared counter invents no count (CountNeverExceeds).           *)
(*                                                                         *)
(* None of these is inductive.  Quiet says what is left of the mutex       *)
(* protocol while no worker exists: the server's thread takes and releases *)
(* a mutex nobody else touches.  Sweep says what the loops of start and    *)
(* stop have already done, and Exact is TbufListsWorkers for every state,  *)
(* with what is left of it when a pthread_create failed.                   *)
(* What a worker does, to the mutex too, disturbs none of them: a worker   *)
(* exists only while the flag is up or a join is under way.  Tally bounds  *)
(* the counter and all that was read of it by a sum that only ever grows.  *)
(***************************************************************************)
EXTENDS ThreadDso, Folds, FiniteSetTheorems, BasicLemmas

USE DEF table

Commands == {"start", "stop", "setperiod", "cancel"}

\* While the handler runs, fn is a command.
Commanded == at[Server] \notin {"idle", "gone"} => fn \in Commands

\* The flag is down and no join is under way: the server's thread is alone.
Quiet ==
  ~running /\ at[Server] \notin {"join", "gone"} =>
    /\ \A t \in Slot : at[t] = "none" /\ tbuf[t] = NULL
    /\ at[Server] \in {"idle", "lock", "own", "disown", "release"} \cup Commands
    /\ at[Server] \in {"idle", "lock"} => word = 0
    /\ at[Server] \in {"idle", "lock", "own", "release"} => ~owned

\* start has yet to fill the slots from i on, stop has emptied those before i.
Sweep ==
  /\ at[Server] = "create" => running /\ \A t \in Slot : t >= i => at[t] = "none"
  /\ at[Server] = "join" => ~running /\ \A t \in Slot : t < i => at[t] = "none" /\ tbuf[t] = NULL

\* A slot with another's descriptor has no worker of its own.
Exact ==
  /\ \A t \in Slot : Alive(t) => tbuf[t] = t
  /\ \A t \in Slot : tbuf[t] = NULL \/ tbuf[t] = t \/ at[t] = "none"
  /\ ~failed => \A t \in Slot : tbuf[t] # NULL => tbuf[t] = t /\ Alive(t)
  /\ \A t \in pending : at[t] \notin {"none", "dead"}

Control == Commanded /\ Quiet /\ Sweep /\ Exact
IInv == TypeOK /\ Control

-----------------------------------------------------------------------------
(* The threads and their labels *)

LEMMA Actors ==
  /\ Server \in Actor /\ Server \notin Slot
  /\ \A t \in Slot : t \in Actor /\ t # Server
  /\ \A a \in Actor : a = Server \/ a \in Slot
BY NThreadsAssumption DEF Server, Actor, Slot

\* A label that thread a may be at.
LabelOf(a, label) == IF a = Server THEN label \in ServerLabels ELSE label \in WorkerLabels

\* What Goto does to the labels.
LEMMA Moves ==
  ASSUME AtOK, NEW a \in Actor, NEW label, LabelOf(a, label), Goto(a, label)
  PROVE  /\ at'[a] = label
         /\ \A b \in Actor : b # a => at'[b] = at[b]
         /\ AtOK'
BY Actors DEF AtOK, LabelOf, Goto

\* The same for a step that moves two threads.
BothGoto(a, label, b, other) == at' = [at EXCEPT ![a] = label, ![b] = other]

LEMMA MovesTwo ==
  ASSUME AtOK, NEW a \in Actor, NEW label, LabelOf(a, label),
         NEW b \in Actor, NEW other, LabelOf(b, other), a # b,
         BothGoto(a, label, b, other)
  PROVE  /\ at'[a] = label /\ at'[b] = other
         /\ \A c \in Actor : c # a /\ c # b => at'[c] = at[c]
         /\ AtOK'
BY Actors DEF AtOK, LabelOf, BothGoto

\* A worker exists only while the flag is up or a join is under way.
LEMMA WorkersNeedTheFlag ==
  ASSUME Quiet, NEW t \in Slot, at[t] # "none"
  PROVE  running \/ at[Server] \in {"join", "gone"}
BY DEF Quiet

\* Whatever a worker does that leaves the handler's variables alone.
LEMMA WorkerStep ==
  ASSUME IInv, NEW t \in Slot, at[t] \notin {"none", "dead"},
         NEW label \in WorkerLabels \ {"none", "dead"}, Goto(t, label),
         UNCHANGED <<fn, i, running, table, pending>>
  PROVE  AtOK' /\ Control'
<1>1. /\ at'[t] = label /\ at'[Server] = at[Server] /\ AtOK'
      /\ \A s \in Slot : s # t => at'[s] = at[s]
  BY Moves, Actors DEF IInv, TypeOK, LabelOf
<1>2. running \/ at[Server] \in {"join", "gone"}
  BY WorkersNeedTheFlag DEF IInv, Control
<1>3. Commanded'  BY <1>1 DEF IInv, Control, Commanded
<1>4. Quiet'  BY <1>1, <1>2 DEF Quiet
<1>5. Sweep'  BY <1>1 DEF IInv, Control, Sweep
<1>6. Exact'  BY <1>1 DEF IInv, TypeOK, Control, Exact, Alive
<1> QED BY <1>1, <1>3, <1>4, <1>5, <1>6 DEF Control

\* Whatever moves the server's thread outside the loops of start and stop.
LEMMA ServerStep ==
  ASSUME IInv, NEW label \in ServerLabels \ {"create", "join"}, Goto(Server, label),
         fn' \in Commands \/ label \in {"idle", "gone"}, UNCHANGED <<table, pending>>
  PROVE  /\ AtOK' /\ Commanded' /\ Sweep' /\ Exact'
         /\ at'[Server] = label /\ \A t \in Slot : at'[t] = at[t]
<1>1. /\ at'[Server] = label /\ AtOK'
      /\ \A s \in Slot : at'[s] = at[s]
  BY Moves, Actors DEF IInv, TypeOK, LabelOf
<1>2. Commanded'  BY <1>1 DEF Commanded
<1>3. Sweep'  BY <1>1 DEF Sweep
<1>4. Exact'  BY <1>1 DEF IInv, TypeOK, Control, Exact, Alive
<1> QED BY <1>1, <1>2, <1>3, <1>4

-----------------------------------------------------------------------------
(* The mutex, taken by any thread *)

\* A step of the mutex that moves one thread: only word and owned change.
LEMMA MutexStep ==
  ASSUME IInv, NEW a \in Actor, NEW label \in {"wait", "own", "futex", "asleep", "release"},
         at[a] \in Labels, Goto(a, label), UNCHANGED rest,
         word' \in 0 .. 2, owned' \in BOOLEAN,
         a = Server => Quiet'
  PROVE  IInv'
<1>1. AtOK' /\ Control'
  <2>1. CASE a = Server
    <3>1. label \in ServerLabels \ {"create", "join"}  BY DEF ServerLabels, Labels
    <3>2. fn \in Commands  BY <2>1 DEF IInv, Control, Commanded, Labels
    <3> QED BY <2>1, <3>1, <3>2, ServerStep DEF Control, rest
  <2>2. CASE a \in Slot
    <3>1. label \in WorkerLabels \ {"none", "dead"}  BY DEF WorkerLabels, Labels
    <3>2. at[a] \notin {"none", "dead"}  BY DEF Labels
    <3> QED BY <2>2, <3>1, <3>2, WorkerStep DEF rest
  <2> QED BY <2>1, <2>2, Actors
<1>2. TypeOK'  BY <1>1 DEF IInv, TypeOK, rest
<1> QED BY <1>1, <1>2 DEF IInv

LEMMA TryLockKeeps ==
  ASSUME IInv, NEW a \in Actor, TryLock(a)
  PROVE  IInv'
<1>1. CASE word = 0
  <2>1. word' = 1 /\ Goto(a, "own") /\ UNCHANGED owned  BY <1>1 DEF TryLock
  <2>2. a = Server => Quiet'
    BY <2>1, Moves, Actors DEF IInv, TypeOK, Control, Quiet, LabelOf, ServerLabels, Labels, TryLock, rest
  <2> QED BY <2>1, <2>2, MutexStep DEF TryLock, Labels, IInv, TypeOK
<1>2. CASE word # 0
  <2>1. Goto(a, "wait") /\ UNCHANGED mutex  BY <1>2 DEF TryLock, mutex
  <2>2. a = Server => Quiet'
    BY <1>2, <2>1, Moves, Actors DEF IInv, TypeOK, Control, Quiet, LabelOf, ServerLabels, Labels, TryLock, rest
  <2> QED BY <2>1, <2>2, MutexStep DEF TryLock, Labels, IInv, TypeOK, mutex
<1> QED BY <1>1, <1>2

\* With nobody else about, the server's thread gets the mutex at once.
LEMMA ServerNeverContends ==
  ASSUME IInv, at[Server] \in {"wait", "futex", "asleep"}
  PROVE  running
BY DEF IInv, Control, Quiet, Commands

LEMMA ContendKeeps ==
  ASSUME IInv, NEW a \in Actor, Contend(a)
  PROVE  IInv'
<1> DEFINE label == IF word = 0 THEN "own" ELSE "futex"
<1>1. Goto(a, label) /\ at[a] = "wait" /\ word' = 2 /\ UNCHANGED <<owned, rest>>  BY DEF Contend
<1>2. a = Server => Quiet'  BY <1>1, ServerNeverContends DEF Quiet, rest
<1>3. label \in {"own", "futex"}  OBVIOUS
<1> HIDE DEF label
<1> QED BY <1>1, <1>2, <1>3, MutexStep DEF Labels, IInv, TypeOK

LEMMA FutexWaitKeeps ==
  ASSUME IInv, NEW a \in Actor, FutexWait(a)
  PROVE  IInv'
<1> DEFINE label == IF word = 2 THEN "asleep" ELSE "wait"
<1>1. Goto(a, label) /\ at[a] = "futex" /\ UNCHANGED <<mutex, rest>>  BY DEF FutexWait
<1>2. a = Server => Quiet'  BY <1>1, ServerNeverContends DEF Quiet, rest
<1>3. label \in {"asleep", "wait"}  OBVIOUS
<1> HIDE DEF label
<1> QED BY <1>1, <1>2, <1>3, MutexStep DEF Labels, IInv, TypeOK, mutex

LEMMA OwnKeeps ==
  ASSUME IInv, NEW a \in Actor, Own(a)
  PROVE  IInv'
<1>1. CASE owned
  <2>1. Goto(Server, "gone") /\ UNCHANGED <<mutex, rest>>  BY <1>1 DEF Own, mutex
  <2>2. /\ AtOK' /\ Commanded' /\ Sweep' /\ Exact' /\ at'[Server] = "gone"
    BY <2>1, ServerStep DEF ServerLabels, rest
  <2>3. Quiet'  BY <2>2 DEF Quiet
  <2>4. TypeOK'  BY <2>1, <2>2 DEF IInv, TypeOK, rest, mutex
  <2> QED BY <2>2, <2>3, <2>4 DEF IInv, Control
<1>2. CASE ~owned /\ a \in Slot
  <2>1. Goto(a, "print") /\ owned' = TRUE  BY <1>2, Actors DEF Own, Inside
  <2>2. AtOK' /\ Control'  BY <1>2, <2>1, WorkerStep DEF Own, rest, WorkerLabels
  <2>3. TypeOK'  BY <2>1, <2>2 DEF IInv, TypeOK, Own, rest
  <2> QED BY <2>2, <2>3 DEF IInv
<1>3. CASE ~owned /\ a = Server
  <2>1. Goto(Server, fn) /\ owned' = TRUE /\ UNCHANGED <<word, rest>> /\ at[Server] = "own"
    BY <1>3 DEF Own, Inside
  <2>2. fn \in Commands  BY <2>1 DEF IInv, Control, Commanded
  <2>3. fn \in ServerLabels \ {"create", "join"}  BY <2>2 DEF Commands, ServerLabels
  <2>4. /\ AtOK' /\ Commanded' /\ Sweep' /\ Exact'
        /\ at'[Server] = fn /\ \A t \in Slot : at'[t] = at[t]
    BY <2>1, <2>2, <2>3, ServerStep DEF rest
  <2>5. Quiet'  BY <2>1, <2>2, <2>4 DEF IInv, Control, Quiet, Commands, rest
  <2>6. TypeOK'  BY <2>1, <2>4 DEF IInv, TypeOK, rest
  <2> QED BY <2>4, <2>5, <2>6 DEF IInv, Control
<1> QED BY <1>1, <1>2, <1>3, Actors

LEMMA DisownKeeps ==
  ASSUME IInv, NEW a \in Actor, Disown(a)
  PROVE  IInv'
<1>1. at[a] = "disown" /\ owned' = FALSE /\ Goto(a, "release") /\ UNCHANGED <<word, rest>>
  BY DEF Disown
<1>2. a = Server => Quiet'
  BY <1>1, Moves, Actors DEF IInv, TypeOK, Control, Quiet, LabelOf, ServerLabels, Labels, rest
<1> QED BY <1>1, <1>2, MutexStep DEF Labels, IInv, TypeOK

\* Release without a sleeper to wake.
LEMMA ReleaseAlone ==
  ASSUME IInv, NEW a \in Actor, at[a] = "release", Goto(a, After(a)),
         word' = 0, UNCHANGED <<owned, rest>>
  PROVE  IInv'
<1>1. CASE a \in Slot
  <2>1. Goto(a, "usleep")  BY <1>1, Actors DEF After
  <2>2. AtOK' /\ Control'  BY <1>1, <2>1, WorkerStep DEF rest, WorkerLabels
  <2>3. TypeOK'  BY <2>2 DEF IInv, TypeOK, rest
  <2> QED BY <2>2, <2>3 DEF IInv
<1>2. CASE a = Server
  <2>1. Goto(Server, "idle")  BY <1>2 DEF After
  <2>2. /\ AtOK' /\ Commanded' /\ Sweep' /\ Exact'
        /\ at'[Server] = "idle" /\ \A t \in Slot : at'[t] = at[t]
    BY <2>1, ServerStep DEF rest, ServerLabels
  <2>3. Quiet'  BY <1>2, <2>2 DEF IInv, Control, Quiet, rest
  <2>4. TypeOK'  BY <2>2 DEF IInv, TypeOK, rest
  <2> QED BY <2>2, <2>3, <2>4 DEF IInv, Control
<1> QED BY <1>1, <1>2, Actors

\* Release and wake: one of the two is a worker, so the flag is up or a join
\* is under way, before and after.
LEMMA ReleaseAndWake ==
  ASSUME IInv, NEW a \in Actor, NEW s \in Actor, at[a] = "release", at[s] = "asleep",
         BothGoto(a, After(a), s, "wait"),
         word' = 0, UNCHANGED <<owned, rest>>
  PROVE  IInv'
<1>1. a # s  OBVIOUS
<1>2. LabelOf(a, After(a)) /\ LabelOf(s, "wait")
  BY DEF LabelOf, After, ServerLabels, WorkerLabels, Labels
<1>3. /\ at'[a] = After(a) /\ at'[s] = "wait" /\ AtOK'
      /\ \A c \in Actor : c # a /\ c # s => at'[c] = at[c]
  BY <1>1, <1>2, MovesTwo DEF IInv, TypeOK
<1>4. ASSUME NEW t \in Slot
      PROVE  /\ at[t] \in {"none", "dead"} => at'[t] = at[t]
             /\ at[t] \notin {"none", "dead"} => at'[t] \notin {"none", "dead"}
  <2>1. CASE t = a  BY <2>1, <1>3, Actors DEF After
  <2>2. CASE t = s  BY <2>2, <1>3
  <2>3. CASE t # a /\ t # s  BY <2>3, <1>3, Actors
  <2> QED BY <2>1, <2>2, <2>3
<1>5. /\ at[Server] \in {"join", "gone", "create"} => at'[Server] = at[Server]
      /\ at'[Server] \in {"join", "gone", "create"} => at'[Server] = at[Server]
      /\ at'[Server] = "idle" \/ at[Server] \notin {"idle", "gone"} \/ at'[Server] = at[Server]
  <2>1. CASE Server = a  BY <2>1, <1>3 DEF After
  <2>2. CASE Server = s  BY <2>2, <1>3
  <2>3. CASE Server # a /\ Server # s  BY <2>3, <1>3, Actors
  <2> QED BY <2>1, <2>2, <2>3
<1>6. running \/ at[Server] \in {"join", "gone"}
  <2>1. CASE a \in Slot  BY <2>1, WorkersNeedTheFlag DEF IInv, Control
  <2>2. CASE s \in Slot  BY <2>2, WorkersNeedTheFlag DEF IInv, Control
  <2> QED BY <1>1, <2>1, <2>2, Actors
<1>7. Commanded'  BY <1>5 DEF IInv, Control, Commanded, rest
<1>8. Quiet'  BY <1>5, <1>6 DEF Quiet, rest
<1>9. Sweep'  BY <1>4, <1>5 DEF IInv, Control, Sweep, rest
<1>10. Exact'  BY <1>4 DEF IInv, TypeOK, Control, Exact, Alive, rest
<1>11. TypeOK'  BY <1>3 DEF IInv, TypeOK, rest
<1> QED BY <1>7, <1>8, <1>9, <1>10, <1>11 DEF IInv, Control

LEMMA MutexKeeps ==
  ASSUME IInv, NEW a \in Actor, Mutex(a)
  PROVE  IInv'
<1>1. CASE TryLock(a)  BY <1>1, TryLockKeeps
<1>2. CASE Contend(a)  BY <1>2, ContendKeeps
<1>3. CASE FutexWait(a)  BY <1>3, FutexWaitKeeps
<1>4. CASE Own(a)  BY <1>4, OwnKeeps
<1>5. CASE Disown(a)  BY <1>5, DisownKeeps
<1>6. CASE Release(a)  BY <1>6, ReleaseAlone, ReleaseAndWake DEF Release, Asleep, BothGoto
<1> QED BY <1>1, <1>2, <1>3, <1>4, <1>5, <1>6 DEF Mutex

-----------------------------------------------------------------------------
(* The handler *)

\* The handler goes to Unlock with the mutex still its own.
LEMMA UnlockStep ==
  ASSUME IInv, Unlock, UNCHANGED <<mutex, fn, i, running, table, pending, counts>>,
         at[Server] \in Commands
  PROVE  IInv'
<1>1. fn \in Commands  BY DEF IInv, Control, Commanded, Commands
<1>2. /\ AtOK' /\ Commanded' /\ Sweep' /\ Exact'
      /\ at'[Server] = "disown" /\ \A t \in Slot : at'[t] = at[t]
  BY <1>1, ServerStep DEF Unlock, ServerLabels, Labels
<1>3. Quiet'  BY <1>2 DEF IInv, Control, Quiet, Commands, mutex
<1>4. TypeOK'  BY <1>2 DEF IInv, TypeOK, mutex, counts
<1> QED BY <1>2, <1>3, <1>4 DEF IInv, Control

LEMMA RequestKeeps ==
  ASSUME IInv, NEW f \in Fn, NEW s \in Slot, Request(f, s)
  PROVE  IInv'
<1>1. f \in Commands /\ fn' = f  BY FnAssumption DEF Commands, Request
<1>2. /\ AtOK' /\ Commanded' /\ Sweep' /\ Exact'
      /\ at'[Server] = "lock" /\ \A t \in Slot : at'[t] = at[t]
  BY <1>1, ServerStep DEF Request, ServerLabels, Labels
<1>3. Quiet'  BY <1>2 DEF IInv, Control, Quiet, Request, mutex
<1>4. i' \in Slot  BY NThreadsAssumption DEF Request, Slot
<1>5. TypeOK'  BY <1>1, <1>2, <1>4 DEF IInv, TypeOK, Request, mutex, counts
<1> QED BY <1>2, <1>3, <1>5 DEF IInv, Control

LEMMA StartKeeps ==
  ASSUME IInv, Start
  PROVE  IInv'
<1>1. CASE running
  BY <1>1, UnlockStep DEF Start, Commands
<1>2. CASE ~running
  <2>1. /\ running' = TRUE /\ i' = 1 /\ Goto(Server, "create") /\ at[Server] = "start"
        /\ failed' = FALSE /\ UNCHANGED <<mutex, fn, tbuf, pending, counts>>
    BY <1>2 DEF Start
  <2>2. /\ at'[Server] = "create" /\ AtOK' /\ \A t \in Slot : at'[t] = at[t]
    BY <2>1, Moves, Actors DEF IInv, TypeOK, LabelOf, ServerLabels
  <2>3. Commanded'  BY <2>1, <2>2 DEF IInv, Control, Commanded
  <2>4. Quiet'  BY <2>1 DEF Quiet
  <2>5. Sweep'  BY <1>2, <2>1, <2>2 DEF IInv, Control, Quiet, Sweep
  <2>6. Exact'  BY <1>2, <2>1, <2>2 DEF IInv, TypeOK, Control, Quiet, Exact, Alive
  <2>7. i' \in Slot  BY <2>1, NThreadsAssumption DEF Slot
  <2>8. TypeOK'  BY <2>1, <2>2, <2>7 DEF IInv, TypeOK, mutex, counts
  <2> QED BY <2>3, <2>4, <2>5, <2>6, <2>8 DEF IInv, Control
<1> QED BY <1>1, <1>2

LEMMA StopKeeps ==
  ASSUME IInv, Stop
  PROVE  IInv'
<1>1. CASE ~running
  BY <1>1, UnlockStep DEF Stop, Commands
<1>2. CASE running
  <2>1. /\ running' = FALSE /\ i' = 1 /\ Goto(Server, "join") /\ at[Server] = "stop"
        /\ UNCHANGED <<mutex, fn, table, pending, counts>>
    BY <1>2 DEF Stop
  <2>2. /\ at'[Server] = "join" /\ AtOK' /\ \A t \in Slot : at'[t] = at[t]
    BY <2>1, Moves, Actors DEF IInv, TypeOK, LabelOf, ServerLabels
  <2>3. Commanded'  BY <2>1, <2>2 DEF IInv, Control, Commanded
  <2>4. Quiet'  BY <2>2 DEF Quiet
  <2>5. Sweep'  BY <2>1, <2>2, NThreadsAssumption DEF Sweep, Slot
  <2>6. Exact'  BY <2>1, <2>2 DEF IInv, TypeOK, Control, Exact, Alive
  <2>7. i' \in Slot  BY <2>1, NThreadsAssumption DEF Slot
  <2>8. TypeOK'  BY <2>1, <2>2, <2>7 DEF IInv, TypeOK, mutex, counts
  <2> QED BY <2>3, <2>4, <2>5, <2>6, <2>8 DEF IInv, Control
<1> QED BY <1>1, <1>2

LEMMA SetPeriodKeeps ==
  ASSUME IInv, SetPeriod
  PROVE  IInv'
BY UnlockStep DEF SetPeriod, Commands, rest, counts

LEMMA NullThreadKeeps ==
  ASSUME IInv, NullThread
  PROVE  IInv'
<1>1. /\ AtOK' /\ Commanded' /\ Sweep' /\ Exact' /\ at'[Server] = "gone"
  BY ServerStep DEF NullThread, ServerLabels, rest
<1>2. Quiet'  BY <1>1 DEF Quiet
<1>3. TypeOK'  BY <1>1 DEF IInv, TypeOK, NullThread, mutex, rest
<1> QED BY <1>1, <1>2, <1>3 DEF IInv, Control

LEMMA BadThreadKeeps ==
  ASSUME IInv, BadThread
  PROVE  IInv'
<1>1. /\ AtOK' /\ Commanded' /\ Sweep' /\ Exact' /\ at'[Server] = "gone"
  BY ServerStep DEF BadThread, ServerLabels, rest
<1>2. Quiet'  BY <1>1 DEF Quiet
<1>3. TypeOK'  BY <1>1 DEF IInv, TypeOK, BadThread, mutex, rest
<1> QED BY <1>1, <1>2, <1>3 DEF IInv, Control

\* A worker that is cancelled leaves a slot and is pending in one step.  If it
\* is also in its own slot, a pthread_create has failed.
LEMMA CancelKeeps ==
  ASSUME IInv, Cancel
  PROVE  IInv'
<1> DEFINE w == tbuf[i]
<1>1. /\ at[Server] = "cancel" /\ w # NULL /\ Goto(Server, "disown")
      /\ pending' = IF at[w] \in {"none", "dead"} THEN pending ELSE pending \cup {w}
      /\ tbuf' = [tbuf EXCEPT ![i] = NULL]
      /\ UNCHANGED <<mutex, fn, i, running, failed, counts>>
  BY DEF Cancel, Unlock
<1>2. /\ at'[Server] = "disown" /\ AtOK' /\ \A t \in Slot : at'[t] = at[t]
  BY <1>1, Moves, Actors DEF IInv, TypeOK, LabelOf, ServerLabels, Labels
<1>3. i \in Slot /\ w \in Slot /\ tbuf \in [Slot -> Slot \cup {NULL}]
  BY <1>1 DEF IInv, TypeOK
<1>4. tbuf'[i] = NULL /\ (\A t \in Slot : t # i => tbuf'[t] = tbuf[t])
      /\ tbuf' \in [Slot -> Slot \cup {NULL}]
  BY <1>1, <1>3
<1>5. Commanded'  BY <1>1, <1>2 DEF IInv, Control, Commanded
<1>6. Quiet'  BY <1>1, <1>2, <1>3 DEF IInv, Control, Quiet, mutex
<1>7. Sweep'  BY <1>2 DEF Sweep
<1>8. Exact'
  <2>1. \A t \in Slot : Alive(t)' => Alive(t) /\ t # w
    BY <1>1, <1>2 DEF Alive
  <2>2. \A t \in Slot : Alive(t)' => tbuf'[t] = t
    BY <1>4, <2>1 DEF IInv, Control, Exact
  <2>3. \A t \in Slot : tbuf'[t] = NULL \/ tbuf'[t] = t \/ at'[t] = "none"
    BY <1>2, <1>4 DEF IInv, Control, Exact
  <2>4. ASSUME ~failed', NEW t \in Slot, tbuf'[t] # NULL
        PROVE  tbuf'[t] = t /\ Alive(t)'
    <3>1. ~failed /\ t # i /\ tbuf'[t] = tbuf[t]  BY <1>1, <1>4, <2>4
    <3>2. tbuf[t] = t /\ Alive(t) /\ w = i  BY <1>1, <1>3, <2>4, <3>1 DEF IInv, Control, Exact
    <3> QED BY <1>1, <1>2, <3>1, <3>2 DEF Alive
  <2>5. \A t \in pending' : at'[t] \notin {"none", "dead"}
    BY <1>1, <1>2, <1>3 DEF IInv, TypeOK, Control, Exact
  <2> QED BY <2>2, <2>3, <2>4, <2>5 DEF Exact
<1>9. TypeOK'
  <2>1. pending' \subseteq Slot  BY <1>1, <1>3 DEF IInv, TypeOK
  <2> QED BY <1>1, <1>2, <1>4, <2>1 DEF IInv, TypeOK, mutex, counts
<1> QED BY <1>5, <1>6, <1>7, <1>8, <1>9 DEF IInv, Control

\* What the end of a loop's body does to labels and index.
LEMMA NextSlotMoves ==
  ASSUME TypeOK, NEW w \in Slot, NEW label \in {"new", "none"}, NextSlot(w, label),
         at[Server] \in {"create", "join"}
  PROVE  /\ AtOK' /\ at'[w] = label
         /\ \A t \in Slot : t # w => at'[t] = at[t]
         /\ i' \in Slot
         /\ \/ i' = i + 1 /\ at'[Server] = at[Server]
            \/ i = NTHREADS /\ i' = i /\ at'[Server] = "disown"
<1> DEFINE other == IF i < NTHREADS THEN at[Server] ELSE "disown"
<1>1. w \in Actor /\ w # Server /\ i \in Slot  BY Actors DEF TypeOK
<1>2. BothGoto(w, label, Server, other)  BY <1>1 DEF NextSlot, BothGoto, TypeOK, AtOK
<1>3. LabelOf(w, label) /\ LabelOf(Server, other)
  BY <1>1 DEF LabelOf, ServerLabels, WorkerLabels, Labels
<1> HIDE DEF other
<1>4. /\ at'[w] = label /\ at'[Server] = other /\ AtOK'
      /\ \A c \in Actor : c # w /\ c # Server => at'[c] = at[c]
  BY <1>1, <1>2, <1>3, MovesTwo, Actors DEF TypeOK
<1>5. \/ i < NTHREADS /\ i' = i + 1 /\ other = at[Server]
      \/ i = NTHREADS /\ i' = i /\ other = "disown"
  BY <1>1, NThreadsAssumption DEF NextSlot, Slot, other
<1>6. i' \in Slot  BY <1>1, <1>5, NThreadsAssumption DEF Slot
<1> QED BY <1>4, <1>5, <1>6, Actors

\* A descriptor that is used again was no worker's.
LEMMA CreateKeeps ==
  ASSUME IInv, Create
  PROVE  IInv'
<1>1. /\ at[Server] = "create" /\ NextSlot(i, "new")
      /\ acc' = [acc EXCEPT ![i] = 0]
      /\ UNCHANGED <<mutex, fn, running, failed, pending, reqidxthread, loaded, reported>>
  BY DEF Create
<1>2. /\ AtOK' /\ at'[i] = "new" /\ i' \in Slot /\ i \in Slot
      /\ \A t \in Slot : t # i => at'[t] = at[t]
      /\ \/ i' = i + 1 /\ at'[Server] = "create"
         \/ i = NTHREADS /\ i' = i /\ at'[Server] = "disown"
  BY <1>1, NextSlotMoves DEF IInv, TypeOK
<1>3. running /\ \A t \in Slot : t >= i => at[t] = "none"
  BY <1>1 DEF IInv, Control, Sweep
<1>4. PICK again \in SUBSET Dangling :
        tbuf' = [k \in Slot |-> IF k \in again \cup {i} THEN i ELSE tbuf[k]]
  BY DEF Create
<1>5. /\ \A t \in Slot : tbuf'[t] = IF t \in again \cup {i} THEN i ELSE tbuf[t]
      /\ tbuf' \in [Slot -> Slot \cup {NULL}]
  BY <1>2, <1>4 DEF IInv, TypeOK
<1>6. \A t \in again : t \in Slot /\ tbuf[t] # NULL /\ at[tbuf[t]] = "none"
  BY DEF Dangling
<1>7. Commanded'  BY <1>1 DEF IInv, Control, Commanded
<1>8. Quiet'  BY <1>1, <1>3 DEF Quiet
<1>9. Sweep'  BY <1>1, <1>2, <1>3, NThreadsAssumption DEF Sweep, Slot
<1>10. Exact'
  <2>1. at[i] = "none"  BY <1>2, <1>3 DEF Slot
  <2>2. i \notin pending /\ ~Alive(i)  BY <2>1 DEF IInv, Control, Exact, Alive
  <2>3. \A t \in Slot : t # i => (Alive(t)' <=> Alive(t))  BY <1>1, <1>2 DEF Alive
  <2>4. \A t \in again : at[t] = "none"
    BY <1>6 DEF IInv, Control, Exact
  <2>5. \A t \in Slot : Alive(t)' => tbuf'[t] = t
    BY <1>2, <1>5, <2>3, <2>4 DEF IInv, Control, Exact, Alive
  <2>6. \A t \in Slot : tbuf'[t] = NULL \/ tbuf'[t] = t \/ at'[t] = "none"
    BY <1>2, <1>5, <2>4 DEF IInv, Control, Exact
  <2>7. ASSUME ~failed', NEW t \in Slot, tbuf'[t] # NULL
        PROVE  tbuf'[t] = t /\ Alive(t)'
    <3>1. ~failed  BY <1>1, <2>7
    <3>2. t \notin again  BY <1>6, <2>4, <3>1 DEF IInv, Control, Exact, Alive
    <3>3. CASE t = i  BY <1>1, <1>2, <1>5, <2>2, <3>3 DEF Alive
    <3>4. CASE t # i  BY <1>5, <2>3, <2>7, <3>1, <3>2, <3>4 DEF IInv, Control, Exact
    <3> QED BY <3>3, <3>4
  <2>8. \A t \in pending' : at'[t] \notin {"none", "dead"}
    BY <1>1, <1>2, <2>2 DEF IInv, TypeOK, Control, Exact
  <2> QED BY <2>5, <2>6, <2>7, <2>8 DEF Exact
<1>11. TypeOK'  BY <1>1, <1>2, <1>5 DEF IInv, TypeOK, mutex
<1> QED BY <1>7, <1>8, <1>9, <1>10, <1>11 DEF IInv, Control

LEMMA CreateFailsKeeps ==
  ASSUME IInv, CreateFails
  PROVE  IInv'
<1>1. /\ at[Server] = "create" /\ NextSlot(i, "none") /\ failed' = TRUE
      /\ UNCHANGED <<mutex, fn, running, pending, counts>>
  BY DEF CreateFails
<1>2. /\ AtOK' /\ at'[i] = "none" /\ i' \in Slot /\ i \in Slot
      /\ \A t \in Slot : t # i => at'[t] = at[t]
      /\ \/ i' = i + 1 /\ at'[Server] = "create"
         \/ i = NTHREADS /\ i' = i /\ at'[Server] = "disown"
  BY <1>1, NextSlotMoves DEF IInv, TypeOK
<1>3. running /\ \A t \in Slot : t >= i => at[t] = "none"
  BY <1>1 DEF IInv, Control, Sweep
<1>4. \A t \in Slot : at'[t] = at[t]  BY <1>2, <1>3, NThreadsAssumption DEF Slot
<1>5. /\ \A t \in Slot : tbuf'[t] = tbuf[t] \/ (t = i /\ tbuf'[t] = t)
      /\ tbuf' \in [Slot -> Slot \cup {NULL}]
  BY <1>2 DEF IInv, TypeOK, CreateFails
<1>6. Commanded'  BY <1>1 DEF IInv, Control, Commanded
<1>7. Quiet'  BY <1>1, <1>3 DEF Quiet
<1>8. Sweep'  BY <1>1, <1>2, <1>3, <1>4, NThreadsAssumption DEF Sweep, Slot
<1>9. Exact'
  <2>1. \A t \in Slot : Alive(t)' <=> Alive(t)  BY <1>1, <1>4 DEF Alive
  <2>2. \A t \in pending' : at'[t] \notin {"none", "dead"}
    BY <1>1, <1>4 DEF IInv, TypeOK, Control, Exact
  <2> QED BY <1>1, <1>4, <1>5, <2>1, <2>2 DEF IInv, Control, Exact
<1>10. TypeOK'  BY <1>1, <1>2, <1>5 DEF IInv, TypeOK, mutex, counts
<1> QED BY <1>6, <1>7, <1>8, <1>9, <1>10 DEF IInv, Control

\* One slot of stop's loop: w, whose descriptor slot i had, is no more.
LEMMA Joined ==
  ASSUME IInv, at[Server] = "join", NEW w \in Slot, tbuf[i] = w, NextSlot(w, "none"),
         tbuf' = [tbuf EXCEPT ![i] = NULL],
         pending' = pending \ {w}, UNCHANGED <<mutex, fn, running, failed>>
  PROVE  AtOK' /\ i' \in Slot /\ tbuf' \in [Slot -> Slot \cup {NULL}] /\ Control'
<1>1. /\ AtOK' /\ at'[w] = "none" /\ i' \in Slot /\ i \in Slot
      /\ \A t \in Slot : t # w => at'[t] = at[t]
      /\ \/ i' = i + 1 /\ at'[Server] = "join"
         \/ i = NTHREADS /\ i' = i /\ at'[Server] = "disown"
  BY NextSlotMoves DEF IInv, TypeOK
<1>2. /\ tbuf'[i] = NULL /\ \A t \in Slot : t # i => tbuf'[t] = tbuf[t]
      /\ tbuf' \in [Slot -> Slot \cup {NULL}]
  BY <1>1 DEF IInv, TypeOK
<1>3. ~running /\ \A t \in Slot : t < i => at[t] = "none" /\ tbuf[t] = NULL
  BY DEF IInv, Control, Sweep
<1>4. at'[i] = "none"
  <2>1. w \in Slot /\ w # NULL  BY NThreadsAssumption DEF Slot, NULL
  <2> QED BY <1>1, <2>1 DEF IInv, Control, Exact
<1>5. \A t \in Slot : t <= i => at'[t] = "none" /\ tbuf'[t] = NULL
  BY <1>1, <1>2, <1>3, <1>4 DEF Slot
<1>6. Commanded'  BY <1>1 DEF IInv, Control, Commanded
<1>7. Quiet'  BY <1>1, <1>3, <1>5, NThreadsAssumption DEF Quiet, Slot
<1>8. Sweep'  BY <1>1, <1>3, <1>5, NThreadsAssumption DEF Sweep, Slot
<1>9. Exact'
  <2>1. \A t \in Slot : Alive(t)' => Alive(t) /\ t # w /\ t # i
    BY <1>1, <1>4 DEF Alive
  <2>2. \A t \in Slot : Alive(t)' => tbuf'[t] = t
    BY <1>2, <2>1 DEF IInv, Control, Exact
  <2>3. \A t \in Slot : tbuf'[t] = NULL \/ tbuf'[t] = t \/ at'[t] = "none"
    BY <1>1, <1>2 DEF IInv, Control, Exact
  <2>4. ASSUME ~failed', NEW t \in Slot, tbuf'[t] # NULL
        PROVE  tbuf'[t] = t /\ Alive(t)'
    <3>1. ~failed /\ t # i /\ tbuf'[t] = tbuf[t]  BY <1>2, <2>4
    <3>2. tbuf[t] = t /\ Alive(t)  BY <2>4, <3>1 DEF IInv, Control, Exact
    <3>3. w # NULL  BY NThreadsAssumption DEF Slot, NULL
    <3>4. w = i  BY <1>1, <3>1, <3>3 DEF IInv, Control, Exact
    <3> QED BY <1>1, <3>1, <3>2, <3>4 DEF Alive
  <2>5. \A t \in pending' : at'[t] \notin {"none", "dead"}
    BY <1>1 DEF IInv, TypeOK, Control, Exact
  <2> QED BY <2>2, <2>3, <2>4, <2>5 DEF Exact
<1> QED BY <1>1, <1>2, <1>6, <1>7, <1>8, <1>9 DEF Control

\* After the last join every slot is empty, which is what Quiet asks for.
LEMMA JoinKeeps ==
  ASSUME IInv, Join
  PROVE  IInv'
<1>1. /\ at[Server] = "join" /\ tbuf[i] # NULL /\ tbuf' = [tbuf EXCEPT ![i] = NULL]
      /\ NextSlot(tbuf[i], "none") /\ pending' = pending \ {tbuf[i]}
      /\ acc' = [acc EXCEPT ![tbuf[i]] = 0] /\ reported' = reported + acc[tbuf[i]]
      /\ UNCHANGED <<mutex, fn, running, failed, reqidxthread, loaded>>
  BY DEF Join
<1>2. PICK w \in Slot : w = tbuf[i]
  BY <1>1 DEF IInv, TypeOK
<1>3. AtOK' /\ i' \in Slot /\ tbuf' \in [Slot -> Slot \cup {NULL}] /\ Control'
  BY <1>1, <1>2, Joined
<1>4. acc' \in [Slot -> Nat] /\ reported' \in Nat
  BY <1>1, <1>2 DEF IInv, TypeOK
<1> QED BY <1>1, <1>3, <1>4 DEF IInv, TypeOK, mutex

LEMMA JoinNobodyKeeps ==
  ASSUME IInv, JoinNobody
  PROVE  IInv'
<1>1. /\ at[Server] = "join" /\ i \in Dangling /\ tbuf' = [tbuf EXCEPT ![i] = NULL]
      /\ NextSlot(i, "none") /\ UNCHANGED <<mutex, fn, running, failed, pending, counts>>
  BY DEF JoinNobody
<1>2. PICK w \in Slot : w = tbuf[i]
  BY <1>1 DEF IInv, TypeOK, Dangling
<1>3. at[w] = "none" /\ at[i] = "none" /\ i \in Slot
  BY <1>1, <1>2 DEF IInv, TypeOK, Control, Exact, Dangling
<1>4. NextSlot(w, "none")
  <2>1. [at EXCEPT ![i] = "none", ![Server] = IF i < NTHREADS THEN @ ELSE "disown"]
          = [at EXCEPT ![w] = "none", ![Server] = IF i < NTHREADS THEN @ ELSE "disown"]
    BY <1>2, <1>3, Actors DEF IInv, TypeOK, AtOK
  <2> QED BY <1>1, <2>1 DEF NextSlot
<1>5. pending' = pending \ {w}
  BY <1>1, <1>3 DEF IInv, Control, Exact
<1>6. AtOK' /\ i' \in Slot /\ tbuf' \in [Slot -> Slot \cup {NULL}] /\ Control'
  BY <1>1, <1>2, <1>4, <1>5, Joined
<1> QED BY <1>1, <1>6 DEF IInv, TypeOK, mutex, counts

-----------------------------------------------------------------------------
(* The workers *)

LEMMA WorkerKeeps ==
  ASSUME IInv, NEW t \in Slot, Worker(t), ~Mutex(t)
  PROVE  IInv'
<1>1. CASE Begin(t)
  <2>1. AtOK' /\ Control'  BY <1>1, WorkerStep DEF Begin, rest, WorkerLabels
  <2>2. word' \in 0 .. 2  BY <1>1 DEF Begin
  <2>3. owned' \in BOOLEAN  BY <1>1, Zenon DEF Begin
  <2> QED BY <1>1, <2>1, <2>2, <2>3 DEF IInv, TypeOK, Begin, rest
<1>2. CASE Loop(t)
  <2>1. AtOK' /\ Control'
    <3>1. CASE running  BY <1>2, <3>1, WorkerStep DEF Loop, rest, WorkerLabels, Labels
    <3>2. CASE ~running  BY <1>2, <3>2, WorkerStep DEF Loop, rest, WorkerLabels, Labels
    <3> QED BY <3>1, <3>2
  <2> QED BY <1>2, <2>1 DEF IInv, TypeOK, Loop, rest, mutex
<1>3. CASE PrintAndLoad(t)
  <2>1. AtOK' /\ Control'  BY <1>3, WorkerStep DEF PrintAndLoad, handler, WorkerLabels
  <2> QED BY <1>3, <2>1 DEF IInv, TypeOK, PrintAndLoad, mutex, handler
<1>4. CASE Store(t)
  <2>1. AtOK' /\ Control'  BY <1>4, WorkerStep DEF Store, handler, WorkerLabels, Labels
  <2>2. reqidxthread' \in Nat /\ acc' \in [Slot -> Nat]
    BY <1>4 DEF IInv, TypeOK, Store
  <2> QED BY <1>4, <2>1, <2>2 DEF IInv, TypeOK, Store, mutex, handler
<1>5. CASE Usleep(t)
  <2>1. AtOK' /\ Control'  BY <1>5, WorkerStep DEF Usleep, rest, WorkerLabels
  <2> QED BY <1>5, <2>1 DEF IInv, TypeOK, Usleep, mutex, rest
<1>6. CASE Exit(t)
  <2>1. AtOK' /\ Control'  BY <1>6, WorkerStep DEF Exit, rest, WorkerLabels
  <2> QED BY <1>6, <2>1 DEF IInv, TypeOK, Exit, mutex, rest
<1>7. CASE Die(t)
  <2>1. /\ t \in pending /\ at[t] # "none" /\ pending' = pending \ {t} /\ Goto(t, "dead")
        /\ UNCHANGED <<mutex, handler, running, table, counts>>
    BY <1>7 DEF Die
  <2>2. /\ at'[t] = "dead" /\ at'[Server] = at[Server] /\ AtOK'
        /\ \A s \in Slot : s # t => at'[s] = at[s]
    BY <2>1, Moves, Actors DEF IInv, TypeOK, LabelOf, WorkerLabels
  <2>3. running \/ at[Server] \in {"join", "gone"}
    BY <2>1, WorkersNeedTheFlag DEF IInv, Control
  <2>4. Commanded'  BY <2>1, <2>2 DEF IInv, Control, Commanded, handler
  <2>5. Quiet'  BY <2>1, <2>2, <2>3 DEF Quiet
  <2>6. Sweep'  BY <2>1, <2>2 DEF IInv, Control, Sweep, handler
  <2>7. Exact'  BY <2>1, <2>2 DEF IInv, TypeOK, Control, Exact, Alive
  <2>8. TypeOK'  BY <2>1, <2>2 DEF IInv, TypeOK, mutex, handler, counts
  <2> QED BY <2>4, <2>5, <2>6, <2>7, <2>8 DEF IInv, Control
<1> QED BY <1>1, <1>2, <1>3, <1>4, <1>5, <1>6, <1>7 DEF Worker

-----------------------------------------------------------------------------
(* The specification *)

LEMMA InitHolds == Init => IInv
<1> SUFFICES ASSUME Init PROVE IInv  OBVIOUS
<1>1. AtOK  BY Actors DEF Init, AtOK, ServerLabels, WorkerLabels
<1>2. i \in Slot  BY NThreadsAssumption DEF Init, Slot
<1>3. TypeOK
  <2>1. word \in 0 .. 2  BY DEF Init
  <2>2. owned \in BOOLEAN /\ running \in BOOLEAN  BY Zenon DEF Init
  <2>3. loaded \in [Slot -> Nat] /\ acc \in [Slot -> Nat]  BY DEF Init
  <2>4. /\ fn \in Fn \cup {"refresh"} /\ tbuf \in [Slot -> Slot \cup {NULL}]
        /\ failed \in BOOLEAN /\ pending \subseteq Slot
    BY DEF Init
  <2>5. reqidxthread \in Nat /\ reported \in Nat  BY DEF Init
  <2> QED BY <1>1, <1>2, <2>1, <2>2, <2>3, <2>4, <2>5 DEF TypeOK
<1>4. at[Server] = "idle" /\ \A t \in Slot : at[t] = "none"  BY Actors DEF Init
<1>5. Control  BY <1>4 DEF Init, Control, Commanded, Quiet, Sweep, Exact, Alive
<1> QED BY <1>3, <1>5 DEF IInv

LEMMA NextKeeps == IInv /\ [Next]_vars => IInv'
<1> SUFFICES ASSUME IInv, [Next]_vars PROVE IInv'  OBVIOUS
<1>1. CASE \E f \in Fn, s \in Slot : Request(f, s)  BY <1>1, RequestKeeps
<1>2. CASE Handler
  <2>1. CASE Mutex(Server)  BY <2>1, MutexKeeps, Actors
  <2> QED
    BY <1>2, <2>1, StartKeeps, CreateKeeps, CreateFailsKeeps, StopKeeps, JoinKeeps,
       NullThreadKeeps, BadThreadKeeps, JoinNobodyKeeps, SetPeriodKeeps, CancelKeeps DEF Handler
<1>3. CASE \E t \in Slot : Worker(t)  BY <1>3, MutexKeeps, WorkerKeeps, Actors
<1>4. CASE UNCHANGED vars
  BY <1>4 DEF vars, IInv, TypeOK, AtOK, Control, Commanded, Quiet, Sweep, Exact, Alive
<1> QED BY <1>1, <1>2, <1>3, <1>4 DEF Next

LEMMA Invariance == Spec => []IInv
BY InitHolds, NextKeeps, PTL DEF Spec

\* Every variable keeps its type: no label, index or word outside its range,
\* whatever interleaving of the handler and any number of workers.
THEOREM TypeCorrect == Spec => []TypeOK
<1>1. IInv => TypeOK  BY DEF IInv
<1> QED BY <1>1, Invariance, PTL

\* A stop that has answered leaves no worker behind, and a mutex that is free
\* and has no owner, for any number of workers (a.c:120-135).
THEOREM StopLeavesQuiet == Spec => []QuietWhenStopped
<1>1. IInv => QuietWhenStopped  BY DEF IInv, Control, Quiet, QuietWhenStopped
<1> QED BY <1>1, Invariance, PTL

\* Every worker that runs and was not cancelled is in its own slot of tbuf when
\* the handler is idle or joins, so that stop joins all of them; and unless a
\* pthread_create failed, tbuf holds nothing else, so that stop reads only
\* results that exist, each once.
THEOREM TbufIsExact == Spec => []TbufListsWorkers
<1>1. IInv => TbufListsWorkers  BY DEF IInv, Control, Exact, TbufListsWorkers
<1> QED BY <1>1, Invariance, PTL

-----------------------------------------------------------------------------
(* Sums: what SumFunction is, and how one argument changes it *)

Pick(s) == CHOOSE x \in s : TRUE
FoldOf(g, f, D) == g = [s \in D |-> IF s = {} THEN 0 ELSE f[Pick(s)] + g[s \ {Pick(s)}]]
Total(f) == CHOOSE g : FoldOf(g, f, SUBSET DOMAIN f)

LEMMA SumIs == \A f : SumFunction(f) = Total(f)[DOMAIN f]
BY DEF SumFunction, SumFunctionOnSet, FoldFunctionOnSet, MapThenFoldSet, FoldOf, Total, Pick

\* The subsets of a finite set, by size.
UpTo(S, n) == {s \in SUBSET S : Cardinality(s) <= n}

LEMMA Smaller ==
  ASSUME NEW S, IsFiniteSet(S), NEW s \in SUBSET S
  PROVE  /\ IsFiniteSet(s) /\ Cardinality(s) \in Nat /\ Cardinality(s) <= Cardinality(S)
         /\ \A x \in s : s \ {x} \in SUBSET S /\ Cardinality(s \ {x}) = Cardinality(s) - 1
         /\ Cardinality(s) = 0 <=> s = {}
<1>1. IsFiniteSet(s) /\ Cardinality(s) <= Cardinality(S)
  BY FS_Subset
<1>2. Cardinality(s) \in Nat /\ (Cardinality(s) = 0 <=> s = {})
  BY <1>1, FS_CardinalityType, FS_EmptySet
<1>3. \A x \in s : Cardinality(s \ {x}) = Cardinality(s) - 1
  BY <1>1, FS_RemoveElement
<1> QED BY <1>1, <1>2, <1>3

LEMMA Picked == \A s : s # {} => Pick(s) \in s
BY DEF Pick

LEMMA FoldExists ==
  ASSUME NEW S, IsFiniteSet(S), NEW f
  PROVE  \E g : FoldOf(g, f, SUBSET S)
<1> DEFINE T == {n \in Nat : \E g : FoldOf(g, f, UpTo(S, n))}
<1>1. 0 \in T
  <2> DEFINE g == [s \in UpTo(S, 0) |-> 0]
  <2>1. \A s \in UpTo(S, 0) : s = {}
    BY Smaller DEF UpTo
  <2>2. FoldOf(g, f, UpTo(S, 0))
    BY <2>1 DEF FoldOf
  <2> QED BY <2>2
<1>2. ASSUME NEW n \in T PROVE n + 1 \in T
  <2>1. PICK g : FoldOf(g, f, UpTo(S, n))
    OBVIOUS
  <2> DEFINE Rule(h, s) == IF s = {} THEN 0 ELSE f[Pick(s)] + h[s \ {Pick(s)}]
             h == [s \in UpTo(S, n + 1) |-> Rule(g, s)]
  <2>2. ASSUME NEW s \in UpTo(S, n + 1) PROVE Rule(g, s) = Rule(h, s)
    <3> SUFFICES ASSUME s # {} PROVE g[s \ {Pick(s)}] = h[s \ {Pick(s)}]
      OBVIOUS
    <3> DEFINE r == s \ {Pick(s)}
    <3>1. r \in SUBSET S /\ Cardinality(r) = Cardinality(s) - 1 /\ Cardinality(s) \in Nat
      BY Picked, Smaller DEF UpTo
    <3> HIDE DEF r
    <3>2. r \in UpTo(S, n) /\ r \in UpTo(S, n + 1)
      BY <3>1 DEF UpTo
    <3>3. g[r] = Rule(g, r)
      BY <2>1, <3>2 DEF FoldOf
    <3> QED BY <3>2, <3>3 DEF r
  <2>3. h = [s \in UpTo(S, n + 1) |-> Rule(h, s)]
    BY <2>2
  <2>4. FoldOf(h, f, UpTo(S, n + 1))
    <3> HIDE DEF h
    <3> QED BY <2>3 DEF FoldOf
  <2> HIDE DEF h
  <2> QED BY <2>4
<1>3. T = Nat
  <2> HIDE DEF T
  <2>1. T \in SUBSET Nat
    BY DEF T
  <2> QED BY <1>1, <1>2, <2>1, Induction
<1>4. Cardinality(S) \in Nat /\ UpTo(S, Cardinality(S)) = SUBSET S
  BY Smaller DEF UpTo
<1>5. Cardinality(S) \in T
  BY <1>3, <1>4
<1> QED BY <1>4, <1>5

\* The fold may take the elements in any order.
Sums(g, f, S) ==
  \A s \in SUBSET S : g[s] \in Nat /\ \A x \in s : g[s] = f[x] + g[s \ {x}]
LEMMA AnyOrder ==
  ASSUME NEW S, IsFiniteSet(S), NEW f \in [S -> Nat], NEW g, FoldOf(g, f, SUBSET S)
  PROVE  Sums(g, f, S)
<1> DEFINE Good(s) == g[s] \in Nat /\ \A x \in s : g[s] = f[x] + g[s \ {x}]
           T == {n \in Nat : \A s \in UpTo(S, n) : Good(s)}
<1>0. \A s \in SUBSET S : g[s] = IF s = {} THEN 0 ELSE f[Pick(s)] + g[s \ {Pick(s)}]
  BY DEF FoldOf
<1>1. 0 \in T
  <2>1. \A s \in UpTo(S, 0) : s = {}
    BY Smaller DEF UpTo
  <2>2. {} \in SUBSET S
    OBVIOUS
  <2>3. g[{}] = 0
    BY <1>0, <2>2
  <2>4. Good({})
    BY <2>3
  <2> HIDE DEF Good
  <2> QED BY <2>1, <2>4
<1>2. ASSUME NEW n \in T PROVE n + 1 \in T
  <2> SUFFICES ASSUME NEW s \in UpTo(S, n + 1) PROVE Good(s)
    OBVIOUS
  <2> DEFINE y == Pick(s)
  <2>1. CASE s = {}
    BY <1>0, <2>1
  <2>2. CASE s # {}
    <3>0. n \in Nat
      BY <1>2
    <3>1. \A r \in UpTo(S, n) : Good(r)
      BY <1>2
    <3>2. y \in s /\ s \in SUBSET S
      BY <2>2, Picked DEF UpTo
    <3>3. \A x \in s : s \ {x} \in UpTo(S, n)
      BY <3>2, Smaller DEF UpTo
    <3>4. g[s] = f[y] + g[s \ {y}]
      BY <1>0, <2>2, <3>2
    <3> HIDE DEF y, T
    <3>5. g[s] \in Nat
      BY <3>1, <3>2, <3>3, <3>4
    <3>6. ASSUME NEW x \in s PROVE g[s] = f[x] + g[s \ {x}]
      <4>1. CASE x = y
        BY <3>4, <4>1
      <4>2. CASE x # y
        <5> DEFINE r == s \ {x, y}
        <5>1. (s \ {x}) \ {y} = r /\ (s \ {y}) \ {x} = r
          OBVIOUS
        <5> DEFINE p == s \ {y}
                   q == s \ {x}
        <5>6. p \in UpTo(S, n) /\ x \in p /\ q \in UpTo(S, n) /\ y \in q /\ p \ {x} = r /\ q \ {y} = r
              /\ q \in SUBSET S
          BY <3>2, <3>3, <4>2, <5>1 DEF UpTo
        <5>7. Cardinality(q) \in Nat /\ Cardinality(q \ {y}) = Cardinality(q) - 1
          <6> HIDE DEF p, q, r
          <6>1. IsFiniteSet(q)
            BY <5>6, FS_Subset
          <6>2. Cardinality(q) \in Nat
            BY <6>1, FS_CardinalityType
          <6>3. Cardinality(q \ {y}) = IF y \in q THEN Cardinality(q) - 1 ELSE Cardinality(q)
            BY <6>1, FS_RemoveElement
          <6> QED BY <5>6, <6>2, <6>3
        <5> HIDE DEF p, q, r
        <5>2. g[p] = f[x] + g[r]
          BY <3>1, <5>6
        <5>3. g[q] = f[y] + g[r]
          BY <3>1, <5>6
        <5>4. g[r] \in Nat
          <6>1. r \in UpTo(S, n)
            <7>1. r \in SUBSET S /\ Cardinality(r) = Cardinality(q) - 1 /\ Cardinality(q) <= n
              BY <5>6, <5>7 DEF UpTo
            <7> QED BY <3>0, <5>7, <7>1 DEF UpTo
          <6> QED BY <3>1, <6>1
        <5>8. g[s] = f[y] + g[p]
          BY <3>4 DEF p
        <5>9. g[s] = f[x] + g[q]
          <6>1. f[x] \in Nat /\ f[y] \in Nat
            BY <3>2
          <6> QED BY <5>2, <5>3, <5>4, <5>8, <6>1
        <5> QED BY <5>9 DEF q
      <4> QED BY <4>1, <4>2
    <3> QED BY <3>5, <3>6
  <2> QED BY <2>1, <2>2
<1>3. T = Nat
  <2> HIDE DEF T
  <2>1. T \in SUBSET Nat
    BY DEF T
  <2> QED BY <1>1, <1>2, <2>1, Induction
<1>4. Cardinality(S) \in Nat /\ UpTo(S, Cardinality(S)) = SUBSET S
  BY Smaller DEF UpTo
<1>5. Cardinality(S) \in T
  BY <1>3, <1>4
<1> QED BY <1>4, <1>5 DEF Sums

\* Functions that agree on s have the same sum over it.
Agree(f, e, R) == \A x \in R : f[x] = e[x]
LEMMA SameSum ==
  ASSUME NEW S, IsFiniteSet(S), NEW f, NEW g, FoldOf(g, f, SUBSET S),
         NEW e, NEW h, FoldOf(h, e, SUBSET S), NEW R \in SUBSET S, Agree(f, e, R)
  PROVE  g[R] = h[R]
<1> DEFINE T == {n \in Nat : \A s \in UpTo(R, n) : g[s] = h[s]}
<1>0. \A s \in SUBSET S : /\ g[s] = IF s = {} THEN 0 ELSE f[Pick(s)] + g[s \ {Pick(s)}]
                          /\ h[s] = IF s = {} THEN 0 ELSE e[Pick(s)] + h[s \ {Pick(s)}]
  BY DEF FoldOf
<1>1. IsFiniteSet(R)
  BY Smaller
<1>2. 0 \in T
  <2>1. \A s \in UpTo(R, 0) : s = {}
    BY <1>1, Smaller DEF UpTo
  <2> QED BY <1>0, <2>1
<1>3. ASSUME NEW n \in T PROVE n + 1 \in T
  <2> SUFFICES ASSUME NEW s \in UpTo(R, n + 1) PROVE g[s] = h[s]
    OBVIOUS
  <2>1. CASE s = {}
    BY <1>0, <2>1
  <2>2. CASE s # {}
    <3> DEFINE y == Pick(s)
    <3>1. y \in s /\ s \in SUBSET S /\ s \in SUBSET R
      BY <2>2, Picked DEF UpTo
    <3>2. s \ {y} \in UpTo(R, n)
      BY <1>1, <3>1, Smaller DEF UpTo
    <3>3. g[s \ {y}] = h[s \ {y}]
      BY <1>3, <3>2
    <3>4. g[s] = f[y] + g[s \ {y}] /\ h[s] = e[y] + h[s \ {y}]
      BY <1>0, <2>2, <3>1
    <3> HIDE DEF y
    <3> QED BY <3>1, <3>3, <3>4 DEF Agree
  <2> QED BY <2>1, <2>2
<1>4. T = Nat
  <2> HIDE DEF T
  <2>1. T \in SUBSET Nat
    BY DEF T
  <2> QED BY <1>2, <1>3, <2>1, Induction
<1>5. Cardinality(R) \in Nat /\ R \in UpTo(R, Cardinality(R))
  BY <1>1, Smaller DEF UpTo
<1>6. Cardinality(R) \in T
  BY <1>4, <1>5
<1> QED BY <1>5, <1>6

\* Setting one value changes the sum by the difference.
Differ(f, e, x, v) == /\ SumFunction(f) \in Nat /\ SumFunction(e) \in Nat
                      /\ SumFunction(e) + f[x] = SumFunction(f) + v
LEMMA SumChanges ==
  ASSUME NEW S, IsFiniteSet(S), NEW f \in [S -> Nat], NEW x \in S, NEW v \in Nat,
         NEW e, e = [f EXCEPT ![x] = v]
  PROVE  Differ(f, e, x, v)
<1> DEFINE g == Total(f)
           h == Total(e)
           R == S \ {x}
<1>1. e \in [S -> Nat] /\ e[x] = v /\ DOMAIN e = S /\ DOMAIN f = S /\ Agree(f, e, R)
  BY DEF Agree
<1>2. FoldOf(g, f, SUBSET S)
  <2>1. \E k : FoldOf(k, f, SUBSET S)
    BY FoldExists
  <2> QED BY <1>1, <2>1 DEF Total
<1>3. FoldOf(h, e, SUBSET S)
  <2>1. \E k : FoldOf(k, e, SUBSET S)
    BY FoldExists
  <2> QED BY <1>1, <2>1 DEF Total
<1>4. SumFunction(f) = g[S] /\ SumFunction(e) = h[S]
  BY <1>1, SumIs
<1> HIDE DEF g, h
<1>5. g[S] \in Nat /\ g[S] = f[x] + g[R] /\ g[R] \in Nat
  <2>1. S \in SUBSET S /\ R \in SUBSET S
    OBVIOUS
  <2>2. Sums(g, f, S)
    BY <1>2, AnyOrder
  <2> QED BY <2>1, <2>2 DEF Sums
<1>6. h[S] \in Nat /\ h[S] = v + h[R]
  <2>1. S \in SUBSET S
    OBVIOUS
  <2>2. Sums(h, e, S)
    BY <1>1, <1>3, AnyOrder
  <2> QED BY <1>1, <2>1, <2>2 DEF Sums
<1>7. g[R] = h[R]
  <2>1. R \in SUBSET S
    OBVIOUS
  <2> HIDE DEF R
  <2> QED BY <1>1, <1>2, <1>3, <2>1, SameSum
<1>8. f[x] \in Nat
  OBVIOUS
<1> HIDE DEF R
<1> QED BY <1>4, <1>5, <1>6, <1>7, <1>8 DEF Differ

-----------------------------------------------------------------------------
(* The counter that the workers share, without a lock they can trust *)

\* A slot that is empty has no count, and neither the counter nor a value that
\* a worker has read of it, however long ago, exceeds what was counted.
Tally ==
  /\ \A t \in Slot : at[t] = "none" => acc[t] = 0
  /\ CountNeverExceeds
  /\ \A t \in Slot : loaded[t] <= reported + SumFunction(acc)

LEMMA SlotIsFinite == IsFiniteSet(Slot)
BY NThreadsAssumption, FS_Interval DEF Slot

LEMMA SumOfAcc ==
  ASSUME TypeOK, NEW t \in Slot, NEW v \in Nat, NEW e, e = [acc EXCEPT ![t] = v]
  PROVE  /\ SumFunction(acc) \in Nat /\ SumFunction(e) \in Nat
         /\ SumFunction(e) + acc[t] = SumFunction(acc) + v
<1>1. acc \in [Slot -> Nat]
  BY DEF TypeOK
<1>2. Differ(acc, e, t, v)
  BY <1>1, SlotIsFinite, SumChanges
<1> QED BY <1>2 DEF Differ

LEMMA SumIsNat ==
  ASSUME acc \in [Slot -> Nat]
  PROVE  SumFunction(acc) \in Nat
<1>1. PICK t \in Slot : TRUE
  BY NThreadsAssumption DEF Slot
<1> DEFINE e == [acc EXCEPT ![t] = 0]
<1>2. e = [acc EXCEPT ![t] = 0]
  OBVIOUS
<1> HIDE DEF e
<1>3. Differ(acc, e, t, 0)
  BY <1>2, SlotIsFinite, SumChanges
<1> QED BY <1>3 DEF Differ

\* A step that counts nothing and empties no slot.
LEMMA NothingCounted ==
  ASSUME Tally, UNCHANGED counts, \A t \in Slot : at'[t] = "none" => at[t] = "none"
  PROVE  Tally'
<1>1. acc' = acc /\ reqidxthread' = reqidxthread /\ loaded' = loaded /\ reported' = reported
  BY DEF counts
<1> QED BY <1>1 DEF Tally, CountNeverExceeds

LEMMA GotoFills ==
  ASSUME AtOK, NEW a \in Actor, NEW label, label # "none", Goto(a, label)
  PROVE  \A t \in Slot : at'[t] = "none" => at[t] = "none"
BY Actors DEF AtOK, Goto

LEMMA MutexTallies ==
  ASSUME IInv, Tally, NEW a \in Actor, Mutex(a)
  PROVE  Tally'
<1>1. AtOK /\ UNCHANGED counts
  BY DEF IInv, TypeOK, Mutex, TryLock, Contend, FutexWait, Own, Disown, Release, rest, counts
<1>2. Inside(a) # "none" /\ After(a) # "none"
  BY FnAssumption DEF IInv, TypeOK, Inside, After
<1>3. \A t \in Slot : at'[t] = "none" => at[t] = "none"
  <2>1. CASE \E s \in Asleep : at' = [at EXCEPT ![a] = After(a), ![s] = "wait"]
    BY <1>1, <1>2, <2>1, Actors DEF AtOK, Asleep
  <2>2. CASE \E label, b : b \in Actor /\ label # "none" /\ Goto(b, label)
    BY <1>1, <2>2, GotoFills
  <2> QED BY <1>2, <2>1, <2>2, Actors DEF Mutex, TryLock, Contend, FutexWait, Own, Disown, Release
<1> QED BY <1>1, <1>3, NothingCounted

\* The handler counts nothing until it joins.
LEMMA HandlerTallies ==
  ASSUME IInv, Tally, Handler
  PROVE  Tally'
<1>0. AtOK /\ TypeOK
  BY DEF IInv, TypeOK
<1>1. CASE Mutex(Server)
  BY <1>1, MutexTallies, Actors
<1>2. CASE Start \/ Stop \/ NullThread \/ BadThread \/ SetPeriod \/ Cancel
  <2>1. UNCHANGED counts /\ \E label \in {"create", "join", "disown", "gone"} : Goto(Server, label)
    BY <1>2 DEF Start, Stop, NullThread, BadThread, SetPeriod, Cancel, Unlock, rest, counts
  <2>2. \A t \in Slot : at'[t] = "none" => at[t] = "none"
    BY <1>0, <2>1, GotoFills, Actors
  <2> QED BY <2>1, <2>2, NothingCounted
<1>3. CASE CreateFails \/ JoinNobody
  <2>1. /\ UNCHANGED counts /\ NextSlot(i, "none") /\ i \in Slot
        /\ \/ at[Server] = "create"
           \/ at[Server] = "join" /\ i \in Dangling
    BY <1>0, <1>3 DEF TypeOK, CreateFails, JoinNobody
  <2>2. \A t \in Slot : t # i => at'[t] = at[t]
    BY <1>0, <2>1, NextSlotMoves
  <2>3. at[i] = "none"
    <3>1. CASE at[Server] = "create"
      BY <2>1, <3>1 DEF IInv, Control, Sweep, Slot
    <3>2. CASE i \in Dangling
      BY <2>1, <3>2 DEF IInv, Control, Exact, Dangling
    <3> QED BY <2>1, <3>1, <3>2
  <2> QED BY <2>1, <2>2, <2>3, NothingCounted
<1>4. CASE Create
  <2>1. /\ at[Server] = "create" /\ NextSlot(i, "new") /\ acc' = [acc EXCEPT ![i] = 0]
        /\ UNCHANGED <<reqidxthread, loaded, reported>>
    BY <1>4 DEF Create
  <2>2. /\ i \in Slot /\ at[i] = "none" /\ at'[i] = "new"
        /\ \A t \in Slot : t # i => at'[t] = at[t]
    BY <1>0, <2>1, NextSlotMoves, NThreadsAssumption DEF IInv, TypeOK, Control, Sweep, Slot
  <2>3. acc' = acc
    BY <1>0, <2>1, <2>2 DEF Tally, TypeOK
  <2> QED BY <2>1, <2>2, <2>3, NothingCounted DEF counts
<1>5. CASE Join
  <2>1. /\ at[Server] = "join" /\ tbuf[i] # NULL /\ NextSlot(tbuf[i], "none")
        /\ acc' = [acc EXCEPT ![tbuf[i]] = 0]
        /\ reported' = reported + acc[tbuf[i]] /\ UNCHANGED <<reqidxthread, loaded>>
    BY <1>5 DEF Join
  <2>2. PICK w \in Slot : w = tbuf[i]
    BY <1>0, <2>1 DEF TypeOK
  <2>3. at'[w] = "none" /\ \A t \in Slot : t # w => at'[t] = at[t]
    BY <1>0, <2>1, <2>2, NextSlotMoves
  <2>4. /\ SumFunction(acc) \in Nat /\ SumFunction(acc') \in Nat
        /\ SumFunction(acc') + acc[w] = SumFunction(acc) + 0
    BY <1>0, <2>1, <2>2, SumOfAcc
  <2>5. reported' + SumFunction(acc') = reported + SumFunction(acc)
    BY <1>0, <2>1, <2>2, <2>4 DEF TypeOK
  <2>6. \A t \in Slot : at'[t] = "none" => acc'[t] = 0
    BY <1>0, <2>1, <2>2, <2>3 DEF Tally, TypeOK
  <2> QED BY <2>1, <2>5, <2>6 DEF Tally, CountNeverExceeds
<1> QED BY <1>1, <1>2, <1>3, <1>4, <1>5 DEF Handler

\* A store may undo others' and adds at most the one round it counts.
LEMMA WorkerTallies ==
  ASSUME IInv, Tally, NEW t \in Slot, Worker(t)
  PROVE  Tally'
<1>0. AtOK /\ TypeOK /\ t \in Actor
  BY Actors DEF IInv, TypeOK
<1>1. CASE Mutex(t)
  BY <1>0, <1>1, MutexTallies
<1>2. CASE Begin(t) \/ Loop(t) \/ Usleep(t) \/ Exit(t) \/ Die(t)
  <2>1. UNCHANGED counts /\ \E label \in {"loop", "lock", "exit", "ended", "dead"} : Goto(t, label)
    BY <1>2 DEF Begin, Loop, Usleep, Exit, Die, rest, counts
  <2>2. \A s \in Slot : at'[s] = "none" => at[s] = "none"
    BY <1>0, <2>1, GotoFills
  <2> QED BY <2>1, <2>2, NothingCounted
<1>3. CASE PrintAndLoad(t)
  <2>1. /\ loaded' = [loaded EXCEPT ![t] = reqidxthread] /\ Goto(t, "store")
        /\ UNCHANGED <<reqidxthread, acc, reported>>
    BY <1>3 DEF PrintAndLoad
  <2>2. \A s \in Slot : at'[s] = "none" => at[s] = "none"
    BY <1>0, <2>1, GotoFills
  <2>3. \A s \in Slot : loaded'[s] = IF s = t THEN reqidxthread ELSE loaded[s]
    BY <1>0, <2>1 DEF TypeOK
  <2> QED BY <2>1, <2>2, <2>3 DEF Tally, CountNeverExceeds
<1>4. CASE Store(t)
  <2>1. /\ reqidxthread' = loaded[t] + 1 /\ acc' = [acc EXCEPT ![t] = acc[t] + 1]
        /\ Goto(t, "disown") /\ at[t] = "store" /\ UNCHANGED <<loaded, reported>>
    BY <1>4 DEF Store
  <2>2. acc[t] \in Nat /\ reported \in Nat /\ \A s \in Slot : loaded[s] \in Nat
    BY <1>0 DEF TypeOK
  <2>3. /\ SumFunction(acc) \in Nat /\ SumFunction(acc') \in Nat
        /\ SumFunction(acc') + acc[t] = SumFunction(acc) + (acc[t] + 1)
    <3>1. acc[t] + 1 \in Nat
      BY <2>2
    <3> QED BY <1>0, <2>1, <3>1, SumOfAcc
  <2>4. reported' + SumFunction(acc') = (reported + SumFunction(acc)) + 1
    BY <2>1, <2>2, <2>3
  <2>5. \A s \in Slot : at'[s] = "none" => acc'[s] = 0
    <3>1. \A s \in Slot : at'[s] = "none" => at[s] = "none" /\ s # t
      BY <1>0, <2>1, GotoFills
    <3>2. \A s \in Slot : s # t => acc'[s] = acc[s]
      BY <1>0, <2>1 DEF TypeOK
    <3> QED BY <3>1, <3>2 DEF Tally
  <2>6. \A s \in Slot : loaded[s] <= reported + SumFunction(acc)
    BY DEF Tally
  <2>7. reqidxthread' <= reported' + SumFunction(acc')
    BY <2>1, <2>2, <2>3, <2>4, <2>6
  <2>8. \A s \in Slot : loaded'[s] <= reported' + SumFunction(acc')
    BY <2>1, <2>2, <2>3, <2>4, <2>6
  <2> QED BY <2>5, <2>7, <2>8 DEF Tally, CountNeverExceeds
<1> QED BY <1>1, <1>2, <1>3, <1>4 DEF Worker

\* Increments that race lose counts and invent none: the page's counter never
\* exceeds what the workers counted, for any number of workers.
THEOREM CountsLoseOnly == Spec => []CountNeverExceeds
<1>1. Init => Tally
  <2> SUFFICES ASSUME Init PROVE Tally
    OBVIOUS
  <2>1. /\ acc \in [Slot -> Nat] /\ reqidxthread = 0 /\ reported = 0
        /\ \A t \in Slot : loaded[t] = 0 /\ acc[t] = 0
    BY DEF Init
  <2>2. SumFunction(acc) \in Nat
    BY <2>1, SumIsNat
  <2> QED BY <2>1, <2>2 DEF Tally, CountNeverExceeds
<1>2. IInv /\ Tally /\ [Next]_vars => Tally'
  <2> SUFFICES ASSUME IInv, Tally, [Next]_vars PROVE Tally'
    OBVIOUS
  <2>1. ASSUME NEW f \in Fn, NEW s \in Slot, Request(f, s) PROVE Tally'
    <3>1. UNCHANGED counts /\ Goto(Server, "lock")
      BY <2>1 DEF Request
    <3>2. \A t \in Slot : at'[t] = "none" => at[t] = "none"
      BY <3>1, GotoFills, Actors DEF IInv, TypeOK
    <3> QED BY <3>1, <3>2, NothingCounted
  <2>2. ASSUME UNCHANGED vars PROVE Tally'
    BY <2>2, NothingCounted DEF vars, counts
  <2> QED BY <2>1, <2>2, HandlerTallies, WorkerTallies DEF Next
<1>3. Tally => CountNeverExceeds
  BY DEF Tally
<1> QED BY <1>1, <1>2, <1>3, InitHolds, NextKeeps, PTL DEF Spec
=============================================================================
