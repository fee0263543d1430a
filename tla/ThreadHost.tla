----------------------------- MODULE ThreadHost -----------------------------
(***************************************************************************)
(* libsrc/thread/src/a.c inside the server: a handler whose code goes on   *)
(* running after its entry has returned.  ThreadDso is about the workers   *)
(* and their mutex; here a command takes one step, and the question is     *)
(* when DsoCache unmaps the code under the workers, each build of the DSO  *)
(* having its own `running` and `tbuf`.  pthread_create succeeds here, and *)
(* stop, when it joins threads, gets them (ThreadDso has both).            *)
(***************************************************************************)
EXTENDS DsoCache

CONSTANTS
  ThreadFile,  (* the file of the thread DSO *)
  Slot         (* the indices of tbuf        *)

ASSUME SlotAssumption == IsFiniteSet(Slot) /\ Slot # {}

ThreadImages == {i \in Image : i.file = ThreadFile /\ i.kind = "handler"}

VARIABLES
  on,        (* `running` of each build of the DSO                          *)
  tbuf,      (* the slots of tbuf that are not NULL                         *)
  crew,      (* how many workers run the code of each build                 *)
  orphans,   (* workers that have lost their code sleep in usleep           *)
  dead,      (* the process died of a signal                                *)
  flushed, cancelled (* history: thread was flushed, a worker was cancelled *)

crews == <<on, tbuf, crew>>
hostVars == <<vars, crews, orphans, dead, flushed, cancelled>>

\* Workers that were cancelled live on until they reach a cancellation point.
Doomed(i) == crew[i] - Cardinality(tbuf[i])

StartCrew(i) ==
  IF on[i] THEN UNCHANGED crews
  ELSE /\ on' = [on EXCEPT ![i] = TRUE]
       /\ tbuf' = [tbuf EXCEPT ![i] = Slot]
       /\ crew' = [crew EXCEPT ![i] = @ + Cardinality(Slot)]

\* Mutant: tbuf keeps the workers that were joined.
StopCrewKeepsTbuf(i) ==
  /\ on[i] => tbuf[i] = Slot
  /\ on' = [on EXCEPT ![i] = FALSE]
  /\ crew' = [crew EXCEPT ![i] = IF on[i] THEN Doomed(i) ELSE @]
  /\ UNCHANGED tbuf

\* Every slot is joined; one that is NULL is the end of the process (Die).
StopCrew(i) ==
  /\ on[i] => tbuf[i] = Slot
  /\ on' = [on EXCEPT ![i] = FALSE]
  /\ tbuf' = [tbuf EXCEPT ![i] = IF on[i] THEN {} ELSE @]
  /\ crew' = [crew EXCEPT ![i] = IF on[i] THEN Doomed(i) ELSE @]

CancelWorker(i, s) ==
  /\ s \in tbuf[i]
  /\ tbuf' = [tbuf EXCEPT ![i] = @ \ {s}]
  /\ UNCHANGED <<on, crew>>

\* entry: fn=start, fn=stop, fn=cancel, or a command that moves no worker.
ThreadEntry(i) ==
  \/ /\ StartCrew(i) \/ StopCrew(i) \/ UNCHANGED crews
     /\ UNCHANGED <<dead, cancelled>>
  \/ \E s \in Slot : CancelWorker(i, s) /\ cancelled' = TRUE /\ UNCHANGED dead
  \/ /\ tbuf[i] # Slot /\ dead' = TRUE /\ cancelled' = TRUE
     /\ UNCHANGED crews     \* pthread_cancel(NULL); after a cancel, pthread_join(NULL)

\* A cancelled worker reaches the printf in tf0's loop, or usleep.
Reap(i) == /\ ~dead /\ Doomed(i) > 0
           /\ crew' = [crew EXCEPT ![i] = @ - 1]
           /\ UNCHANGED <<vars, on, tbuf, orphans, dead, flushed, cancelled>>

\* When an image is unmapped its variables are gone; its workers are not.
Unmaps(i) == refs[i] > 0 /\ refs'[i] = 0
Settle ==
  /\ on' = [i \in ThreadImages |-> on[i] /\ ~Unmaps(i)]
  /\ tbuf' = [i \in ThreadImages |-> IF Unmaps(i) THEN {} ELSE tbuf[i]]
  /\ crew' = [i \in ThreadImages |-> IF Unmaps(i) THEN 0 ELSE crew[i]]
  /\ orphans' = (orphans \/ \E i \in ThreadImages : Unmaps(i) /\ crew[i] > 0)

HandlerRuns == pc = "call" /\ pc' # "call"

\* A step of DsoCache; its CallEntry is a command when it calls a thread page.
Serve == /\ ~dead /\ Next
         /\ IF HandlerRuns /\ sym \in ThreadImages
            THEN ThreadEntry(sym) /\ UNCHANGED orphans
            ELSE Settle /\ UNCHANGED <<dead, cancelled>>
         /\ flushed' = (flushed \/ (pc = "flush" /\ FileOf[req.path] = ThreadFile))

\* usleep returns into code that is not there.
WakeOrphan == /\ orphans /\ ~dead /\ pc # "end"
              /\ dead' = TRUE
              /\ UNCHANGED <<vars, crews, orphans, flushed, cancelled>>

Dead == dead /\ UNCHANGED hostVars

HostInit == /\ Init
            /\ on = [i \in ThreadImages |-> FALSE]
            /\ tbuf = [i \in ThreadImages |-> {}]
            /\ crew = [i \in ThreadImages |-> 0]
            /\ orphans = FALSE /\ dead = FALSE
            /\ flushed = FALSE /\ cancelled = FALSE

HostNext == Serve \/ WakeOrphan \/ Dead \/ \E i \in ThreadImages : Reap(i)

HostSpec == HostInit /\ [][HostNext]_hostVars

-----------------------------------------------------------------------------
(* Properties *)

\* An image that is not mapped has no variables and no workers, and tbuf
\* never lists more workers than there are.
HostTypeOK ==
  /\ {orphans, dead, flushed, cancelled} \subseteq BOOLEAN
  /\ \A i \in ThreadImages :
       /\ on[i] \in BOOLEAN /\ tbuf[i] \subseteq Slot
       /\ crew[i] \in Nat /\ Doomed(i) >= 0
       /\ on[i] \/ tbuf[i] = {}
       /\ Mapped(i) \/ (~on[i] /\ crew[i] = 0)

\* While the server runs, workers lose the code they run only by a flush of
\* the thread page, never because of another page, a redeployment, an alias or
\* an error return of exlib; and the process dies of nothing but that, the
\* shutdown, and a cancel.
OrphanedOnlyByFlush ==
  /\ orphans => flushed \/ pc \in {"unload", "end"}
  /\ dead => orphans \/ cancelled

\* A request for p (without flush) runs the entry of i: hdl_dso's access() sees
\* a file, whatever is in it, and the cache or dlopen's lookup by name yields i.
LeadsTo(p, i) == /\ disk[FileOf[p]] # None
                 /\ mloc[p] = i \/ (mloc[p] = None /\ OpenTarget(p) = i)

\* As long as workers run in mapped code and any file is deployed in the place
\* of the page they belong to, some path leads to their build, so that they can
\* be listed and stopped, however often the page was rebuilt, flushed or lost
\* since.  (While the file is removed no request gets past access(); the crew
\* is back in reach with the next build, though that is not its own.)
CrewInReach ==
  \A i \in ThreadImages :
    pc = "poll" /\ crew[i] > 0 /\ disk[i.file] # None => \E p \in Path : LeadsTo(p, i)
=============================================================================
