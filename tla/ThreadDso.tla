------------------------------ MODULE ThreadDso ------------------------------
(***************************************************************************)
(* libsrc/thread/src/a.c: a handler that starts NTHREADS worker threads,   *)
(* stops them, cancels one of them or sets their period, and the threads,  *)
(* which count under a mutex.  The server's thread runs one handler at a   *)
(* time; the workers interleave with it at every access to shared memory.  *)
(*                                                                         *)
(* Each worker initialises the mutex again (a.c:53), whatever its state:   *)
(* undefined for POSIX.  The mutex is therefore modelled as glibc builds   *)
(* it, a futex word and an owner, and the initialisation by what it does   *)
(* to these two.  A pthread_t is the address of the thread's descriptor: a *)
(* failed pthread_create may leave one in tbuf that is no thread's, or     *)
(* that of a thread created later.                                         *)
(***************************************************************************)
EXTENDS Integers, FiniteSets, Functions

CONSTANTS
  NTHREADS,   (* the slots of tbuf                                         *)
  Fn,         (* the values of fn that clients send                        *)
  MaxRounds,  (* bound: rounds of one worker between a start and a stop    *)
  MaxTotal    (* bound: no start once this many rounds have been reported  *)

Slot == 1 .. NTHREADS
Server == 0
Actor == Slot \cup {Server}
NULL == 0

ASSUME NThreadsAssumption == NTHREADS \in Nat \ {0}
ASSUME FnAssumption == Fn \subseteq {"start", "stop", "setperiod", "cancel"}
ASSUME BoundsAssumption == MaxRounds \in Nat /\ MaxTotal \in Nat

VARIABLES
  word,         (* the mutex: 0 free, 1 taken, 2 taken and perhaps awaited *)
  owned,        (* the mutex: its owner is not 0                           *)
  at,           (* where each thread is                                    *)
  fn,           (* the handler's command                                   *)
  i,            (* the handler's loop index, or the slot it cancels        *)
  running,      (* the static flag the workers poll                        *)
  tbuf,         (* the descriptor in each slot, named by the slot that it  *)
                (* was made for and, once taken again, by the last such    *)
  failed,       (* history: a pthread_create of this start failed          *)
  pending,      (* the workers with a cancellation they have not acted on  *)
  reqidxthread, (* the counter the workers share                           *)
  loaded,       (* what each worker read of it                             *)
  acc,          (* how many rounds each worker made                        *)
  reported      (* history: the rounds of the workers stop has joined      *)

mutex == <<word, owned>>
handler == <<fn, i>>
table == <<tbuf, failed>>
counts == <<reqidxthread, loaded, acc, reported>>
vars == <<word, owned, at, fn, i, running, tbuf, failed, pending,
          reqidxthread, loaded, acc, reported>>

Goto(a, label) == at' = [at EXCEPT ![a] = label]

\* The process ended: by a signal, or by glibc's abort.
Gone == at[Server] = "gone"

-----------------------------------------------------------------------------
(* pthread_mutex_lock and pthread_mutex_unlock of a normal mutex in glibc *)

rest == <<fn, i, running, tbuf, failed, pending, reqidxthread, loaded, acc, reported>>

\* Where a thread goes on once it holds the mutex, and once it has released it.
Inside(a) == IF a = Server THEN fn ELSE "print"
After(a) == IF a = Server THEN "idle" ELSE "usleep"

\* Compare and exchange 0 by 1.
TryLock(a) ==
  /\ at[a] = "lock"
  /\ IF word = 0 THEN word' = 1 /\ Goto(a, "own") ELSE UNCHANGED word /\ Goto(a, "wait")
  /\ UNCHANGED <<owned, rest>>

\* Exchange the word by 2 until it was 0; sleep while it is 2.
Contend(a) ==
  /\ at[a] = "wait"
  /\ word' = 2
  /\ Goto(a, IF word = 0 THEN "own" ELSE "futex")
  /\ UNCHANGED <<owned, rest>>

FutexWait(a) ==
  /\ at[a] = "futex"
  /\ Goto(a, IF word = 2 THEN "asleep" ELSE "wait")
  /\ UNCHANGED <<mutex, rest>>

\* glibc asserts that there is no owner, and enters itself.
Own(a) ==
  /\ at[a] = "own"
  /\ IF owned THEN UNCHANGED owned /\ Goto(Server, "gone")
     ELSE owned' = TRUE /\ Goto(a, Inside(a))
  /\ UNCHANGED <<word, rest>>

Disown(a) ==
  /\ at[a] = "disown"
  /\ owned' = FALSE
  /\ Goto(a, "release")
  /\ UNCHANGED <<word, rest>>

\* Exchange the word by 0, and wake one sleeper if it was 2.
Asleep == {a \in Actor : at[a] = "asleep"}
Release(a) ==
  /\ at[a] = "release"
  /\ word' = 0
  /\ IF word = 2 /\ Asleep # {}
     THEN \E s \in Asleep : at' = [at EXCEPT ![a] = After(a), ![s] = "wait"]
     ELSE Goto(a, After(a))
  /\ UNCHANGED <<owned, rest>>

Mutex(a) == TryLock(a) \/ Contend(a) \/ FutexWait(a) \/ Own(a) \/ Disown(a) \/ Release(a)

-----------------------------------------------------------------------------
(* entry, in the server's thread: every command runs under the mutex *)

Request(f, s) ==
  /\ at[Server] = "idle"
  /\ f = "start" => reported < MaxTotal
  /\ fn' = f
  /\ i' = IF f = "cancel" THEN s ELSE 1
  /\ Goto(Server, "lock")
  /\ UNCHANGED <<mutex, running, table, pending, counts>>

Unlock == Goto(Server, "disown")

\* Mutant: the loops run one slot too far.
NextSlotOneMore(t, label) ==
  /\ i' = i + 1
  /\ at' = [at EXCEPT ![t] = label, ![Server] = IF i <= NTHREADS THEN @ ELSE "disown"]

\* The end of a loop's body: worker t is now at label, and after the last
\* slot the handler unlocks.
NextSlot(t, label) ==
  /\ i' = IF i < NTHREADS THEN i + 1 ELSE i
  /\ at' = [at EXCEPT ![t] = label, ![Server] = IF i < NTHREADS THEN @ ELSE "disown"]

Start ==
  /\ at[Server] = "start"
  /\ IF running THEN UNCHANGED <<running, i, failed>> /\ Unlock
     ELSE running' = TRUE /\ i' = 1 /\ failed' = FALSE /\ Goto(Server, "create")
  /\ UNCHANGED <<mutex, fn, tbuf, pending, counts>>

\* The slots whose descriptor no thread has.
Dangling == {k \in Slot : tbuf[k] # NULL /\ at[tbuf[k]] = "none"}

\* pthread_create stores the descriptor in tbuf before the thread runs.  It may
\* be one that a failed call has left in other slots and given back.
Create ==
  /\ at[Server] = "create"
  /\ \E again \in SUBSET Dangling :
       tbuf' = [k \in Slot |-> IF k \in again \cup {i} THEN i ELSE tbuf[k]]
  /\ acc' = [acc EXCEPT ![i] = 0]
  /\ NextSlot(i, "new")
  /\ UNCHANGED <<mutex, fn, running, failed, pending, reqidxthread, loaded, reported>>

\* The result is not checked.  tbuf[i] is as it was when there is no memory for
\* a descriptor, and holds one without a thread when clone fails.
CreateFails ==
  /\ at[Server] = "create"
  /\ failed' = TRUE
  /\ tbuf' = tbuf \/ tbuf' = [tbuf EXCEPT ![i] = i]
  /\ NextSlot(i, "none")
  /\ UNCHANGED <<mutex, fn, running, pending, counts>>

\* Mutant: stop clears the flag and does not wait for the workers.
StopUnjoined ==
  /\ at[Server] = "stop"
  /\ running' = FALSE /\ Unlock
  /\ UNCHANGED <<mutex, fn, i, table, pending, counts>>

Stop ==
  /\ at[Server] = "stop"
  /\ IF ~running THEN UNCHANGED <<running, i>> /\ Unlock
     ELSE running' = FALSE /\ i' = 1 /\ Goto(Server, "join")
  /\ UNCHANGED <<mutex, fn, table, pending, counts>>

\* pthread_join returns when the worker has ended.
Join ==
  /\ at[Server] = "join"
  /\ tbuf[i] # NULL /\ at[tbuf[i]] = "ended"
  /\ LET t == tbuf[i]
     IN  /\ pending' = pending \ {t}
         /\ reported' = reported + acc[t]
         /\ acc' = [acc EXCEPT ![t] = 0]
         /\ NextSlot(t, "none")
  /\ tbuf' = [tbuf EXCEPT ![i] = NULL]
  /\ UNCHANGED <<mutex, fn, running, failed, reqidxthread, loaded>>

\* pthread_join and pthread_cancel read through the NULL they are given.
NullThread ==
  /\ at[Server] \in {"join", "cancel"}
  /\ tbuf[i] = NULL
  /\ Goto(Server, "gone")
  /\ UNCHANGED <<mutex, rest>>

\* The descriptor's memory is unmapped, or its result is no address: NULL, or
\* PTHREAD_CANCELED when the worker was cancelled.
BadThread ==
  /\ \/ at[Server] = "join" /\ tbuf[i] # NULL /\ at[tbuf[i]] \in {"none", "dead"}
     \/ at[Server] = "cancel" /\ i \in Dangling
  /\ Goto(Server, "gone")
  /\ UNCHANGED <<mutex, rest>>

\* Or the result is still that of an earlier worker, freed since, and the reply
\* has a number that nobody counted.
JoinNobody ==
  /\ at[Server] = "join"
  /\ i \in Dangling
  /\ tbuf' = [tbuf EXCEPT ![i] = NULL]
  /\ NextSlot(i, "none")
  /\ UNCHANGED <<mutex, fn, running, failed, pending, counts>>

\* The period is the length of usleep, which takes any time here.
SetPeriod ==
  /\ at[Server] = "setperiod"
  /\ Unlock
  /\ UNCHANGED <<mutex, rest>>

\* Mutant: the slot of the cancelled worker is kept.
CancelKeepsSlot ==
  /\ at[Server] = "cancel"
  /\ tbuf[i] # NULL
  /\ pending' = pending \cup {tbuf[i]}
  /\ Unlock
  /\ UNCHANGED <<mutex, fn, i, running, table, counts>>

\* pthread_cancel of a thread that has ended does nothing.
Cancel ==
  /\ at[Server] = "cancel"
  /\ tbuf[i] # NULL
  /\ pending' = IF at[tbuf[i]] \in {"none", "dead"} THEN pending ELSE pending \cup {tbuf[i]}
  /\ tbuf' = [tbuf EXCEPT ![i] = NULL]
  /\ Unlock
  /\ UNCHANGED <<mutex, fn, i, running, failed, counts>>

Handler == \/ Mutex(Server)
           \/ Start \/ Create \/ CreateFails \/ Stop \/ SetPeriod \/ Cancel
           \/ Join \/ NullThread \/ BadThread \/ JoinNobody

-----------------------------------------------------------------------------
(* tf0, in each worker t *)

Begin(t) ==
  /\ at[t] = "new"
  /\ word' = 0 /\ owned' = FALSE               \* pthread_mutex_init
  /\ Goto(t, "loop")
  /\ UNCHANGED rest

Loop(t) ==
  /\ at[t] = "loop"
  /\ Goto(t, IF running THEN "lock" ELSE "exit")
  /\ UNCHANGED <<mutex, rest>>

PrintAndLoad(t) ==
  /\ at[t] = "print"
  /\ loaded' = [loaded EXCEPT ![t] = reqidxthread]
  /\ Goto(t, "store")
  /\ UNCHANGED <<mutex, handler, running, table, pending, reqidxthread, acc, reported>>

\* Mutant: a worker does not count the round that the stop interrupts.
StoreUncounted(t) ==
  /\ at[t] = "store"
  /\ reqidxthread' = loaded[t] + 1
  /\ acc' = [acc EXCEPT ![t] = IF running THEN @ + 1 ELSE @]
  /\ Goto(t, "disown")
  /\ UNCHANGED <<mutex, handler, running, table, pending, loaded, reported>>

Store(t) ==
  /\ at[t] = "store"
  /\ reqidxthread' = loaded[t] + 1
  /\ acc' = [acc EXCEPT ![t] = @ + 1]
  /\ Goto(t, "disown")
  /\ UNCHANGED <<mutex, handler, running, table, pending, loaded, reported>>

Usleep(t) ==
  /\ at[t] = "usleep"
  /\ t \notin pending
  /\ running => acc[t] < MaxRounds
  /\ Goto(t, "loop")
  /\ UNCHANGED <<mutex, rest>>

Exit(t) ==
  /\ at[t] = "exit"
  /\ Goto(t, "ended")
  /\ UNCHANGED <<mutex, rest>>

\* A cancelled worker dies at its next cancellation point: usleep, or a
\* printf that writes, also the one inside the critical section.
Die(t) ==
  /\ t \in pending
  /\ at[t] \in {"new", "print", "usleep", "exit"}
  /\ pending' = pending \ {t}
  /\ Goto(t, "dead")
  /\ UNCHANGED <<mutex, handler, running, table, counts>>

Worker(t) == \/ Mutex(t)
             \/ Begin(t) \/ Loop(t) \/ PrintAndLoad(t) \/ Store(t) \/ Usleep(t) \/ Exit(t) \/ Die(t)

-----------------------------------------------------------------------------
Init ==
  /\ word = 0 /\ owned = FALSE
  /\ at = [a \in Actor |-> IF a = Server THEN "idle" ELSE "none"]
  /\ fn = "refresh" /\ i = 1
  /\ running = FALSE /\ tbuf = [t \in Slot |-> NULL] /\ failed = FALSE /\ pending = {}
  /\ reqidxthread = 0 /\ loaded = [t \in Slot |-> 0] /\ acc = [t \in Slot |-> 0]
  /\ reported = 0

Next ==
  /\ ~Gone
  /\ \/ \E f \in Fn, s \in Slot : Request(f, s)
     \/ Handler
     \/ \E t \in Slot : Worker(t)

\* The kernel schedules every thread that can run.
Fairness == WF_vars(~Gone /\ Handler) /\ \A t \in Slot : WF_vars(~Gone /\ Worker(t))

Spec == Init /\ [][Next]_vars /\ Fairness

-----------------------------------------------------------------------------
(* Properties *)

Labels == {"lock", "wait", "futex", "asleep", "own", "disown", "release"}
ServerLabels == Labels \cup {"idle", "gone", "create", "join"}
                  \cup {"start", "stop", "setperiod", "cancel"}
WorkerLabels == Labels \cup {"none", "new", "loop", "print", "store", "usleep",
                            "exit", "ended", "dead"}

AtOK == /\ at \in [Actor -> ServerLabels \cup WorkerLabels]
        /\ at[Server] \in ServerLabels /\ \A t \in Slot : at[t] \in WorkerLabels

TypeOK ==
  /\ AtOK
  /\ word \in 0 .. 2 /\ owned \in BOOLEAN
  /\ fn \in Fn \cup {"refresh"} /\ i \in Slot
  /\ running \in BOOLEAN /\ failed \in BOOLEAN
  /\ tbuf \in [Slot -> Slot \cup {NULL}] /\ pending \subseteq Slot
  /\ reqidxthread \in Nat /\ loaded \in [Slot -> Nat] /\ acc \in [Slot -> Nat]
  /\ reported \in Nat

\* Once stop has answered (and before the first start), no worker is left and
\* the mutex is as it was initialised: whatever the workers did to it, the
\* next start finds it free, without owner and with nobody asleep on it.
QuietWhenStopped ==
  at[Server] = "idle" /\ ~running =>
    /\ \A t \in Slot : at[t] = "none"
    /\ word = 0 /\ ~owned

\* Whenever the handler is idle or joins, every worker that runs and was not
\* cancelled is in its own slot of tbuf, so that stop waits for it and the page
\* offers to cancel it, pthread_create failed or not.  The other way round only
\* if it did not fail: then tbuf holds nothing else, every worker it lists has a
\* result for stop to read, and no two slots are the same worker's.
Alive(t) == at[t] \notin {"none", "dead"} /\ t \notin pending
TbufListsWorkers ==
  /\ at[Server] \in {"idle", "join"} => \A t \in Slot : Alive(t) => tbuf[t] = t
  /\ ~failed => \A t \in Slot : tbuf[t] # NULL => tbuf[t] = t /\ Alive(t)

\* Unsynchronised increments lose counts but never invent them: the page's
\* counter is at most what the workers counted for themselves.
CountNeverExceeds ==
  reqidxthread <= reported + SumFunction(acc)

\* The page offers stop at any time (a.c:84) and promises each thread's
\* return value (a.c:128); here only where every pthread_create succeeded.
StopAnswers ==
  (fn = "stop" /\ at[Server] = "lock" /\ ~failed) ~> (at[Server] \in {"idle", "gone"})
=============================================================================
