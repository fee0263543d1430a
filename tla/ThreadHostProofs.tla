-------------------------- MODULE ThreadHostProofs --------------------------
(***************************************************************************)
(* For any set of paths, aliases, files and worker slots: the workers of a *)
(* thread page lose their code only by a flush of that page or at the end, *)
(* and until then some path still leads to the build they belong to.       *)
(***************************************************************************)
EXTENDS ThreadHost, DsoCacheProofs

USE DEF Goto, Return, Lose, world, loader, lists, maps, life, local, vars

\* The crews are functions, and sound in the sense of HostTypeOK.
CrewType == /\ on \in [ThreadImages -> BOOLEAN]
            /\ tbuf \in [ThreadImages -> SUBSET Slot]
            /\ crew \in [ThreadImages -> Nat]

\* While nobody flushed a thread page, the cache holds every build that has
\* workers.  A flushed call starts workers in a build that the cache need not
\* hold, but it began with such a flush.
CrewCached ==
  /\ pc \in Handling \ {"flush"} /\ req.flush /\ FileOf[req.path] = ThreadFile => flushed
  /\ pc \notin {"unload", "end"} /\ ~flushed =>
       /\ ~orphans
       /\ \A i \in ThreadImages : crew[i] > 0 => \E p \in Path : mloc[p] = i
  /\ dead => orphans \/ cancelled

\* Workers were started through a path, and the loader remembers it.
CrewNamed == \A i \in ThreadImages : crew[i] > 0 => \E p \in Path : p \in names[i]

HostInv == IInv /\ Named /\ CrewType /\ HostTypeOK /\ CrewCached /\ CrewNamed

-----------------------------------------------------------------------------
(* The crews of one command or step *)

\* A finite set of workers, and one of them less.
LEMMA Counting ==
  ASSUME NEW T \in SUBSET Slot
  PROVE  /\ Cardinality(T) \in Nat /\ Cardinality({}) = 0
         /\ \A s \in T : Cardinality(T \ {s}) = Cardinality(T) - 1
<1>1. IsFiniteSet(T)
  BY SlotAssumption, FS_Subset
<1> QED BY <1>1, FS_CardinalityType, FS_EmptySet, FS_RemoveElement

\* What HostTypeOK says of one image.
CrewSound(i) == /\ Doomed(i) >= 0
                /\ on[i] \/ tbuf[i] = {}
                /\ Mapped(i) \/ (~on[i] /\ crew[i] = 0)

LEMMA SoundMeansTyped ==
  ASSUME CrewType, {orphans, dead, flushed, cancelled} \subseteq BOOLEAN
  PROVE  HostTypeOK <=> \A i \in ThreadImages : CrewSound(i)
BY DEF CrewType, HostTypeOK, CrewSound

\* A command keeps the crew of the page it runs in sound, and no other changes.
LEMMA CommandCrew ==
  ASSUME CrewType, NEW j \in ThreadImages, ThreadEntry(j), refs' = refs,
         \A i \in ThreadImages : CrewSound(i), Mapped(j)
  PROVE  /\ CrewType'
         /\ \A i \in ThreadImages : CrewSound(i)'
         /\ \A i \in ThreadImages : i # j => crew'[i] = crew[i]
<1>1. /\ Cardinality(tbuf[j]) \in Nat /\ Cardinality(Slot) \in Nat
      /\ Cardinality({}) = 0 /\ crew[j] \in Nat
      /\ \A s \in tbuf[j] : Cardinality(tbuf[j] \ {s}) = Cardinality(tbuf[j]) - 1
      /\ crew[j] - Cardinality(tbuf[j]) >= 0
  BY Counting DEF CrewType, CrewSound, Doomed
<1>2. ASSUME NEW i \in ThreadImages, on'[i] = on[i], tbuf'[i] = tbuf[i], crew'[i] = crew[i]
      PROVE  CrewSound(i)'
  BY <1>2 DEF CrewSound, Doomed, Mapped
<1>3. CASE UNCHANGED crews
  BY <1>2, <1>3 DEF crews, CrewType
<1>4. CASE StartCrew(j) /\ ~on[j]
  <2>1. /\ on' = [on EXCEPT ![j] = TRUE] /\ tbuf' = [tbuf EXCEPT ![j] = Slot]
        /\ crew' = [crew EXCEPT ![j] = @ + Cardinality(Slot)]
    BY <1>4 DEF StartCrew
  <2>2. CrewType'
    BY <1>1, <2>1 DEF CrewType
  <2>3. on'[j] /\ tbuf'[j] = Slot /\ crew'[j] = crew[j] + Cardinality(Slot)
    BY <1>1, <2>1 DEF CrewType
  <2>4. CrewSound(j)'
    BY <1>1, <2>3 DEF CrewSound, Doomed, Mapped
  <2>5. \A i \in ThreadImages : i # j =>
          on'[i] = on[i] /\ tbuf'[i] = tbuf[i] /\ crew'[i] = crew[i]
    BY <2>1 DEF CrewType
  <2> QED BY <1>2, <2>2, <2>4, <2>5
<1>5. CASE StopCrew(j)
  <2>1. /\ on' = [on EXCEPT ![j] = FALSE]
        /\ tbuf' = [tbuf EXCEPT ![j] = IF on[j] THEN {} ELSE @]
        /\ crew' = [crew EXCEPT ![j] = IF on[j] THEN Doomed(j) ELSE @]
    BY <1>5 DEF StopCrew
  <2>2. Doomed(j) \in Nat
    BY <1>1 DEF Doomed
  <2>3. CrewType'
    BY <2>1, <2>2 DEF CrewType
  <2>4. ~on'[j] /\ tbuf'[j] = {} /\ crew'[j] \in Nat
    BY <2>1, <2>2 DEF CrewType, CrewSound
  <2>5. CrewSound(j)'
    BY <1>1, <2>4 DEF CrewSound, Doomed, Mapped
  <2>6. \A i \in ThreadImages : i # j =>
          on'[i] = on[i] /\ tbuf'[i] = tbuf[i] /\ crew'[i] = crew[i]
    BY <2>1 DEF CrewType
  <2> QED BY <1>2, <2>3, <2>5, <2>6
<1>6. ASSUME NEW s \in Slot, CancelWorker(j, s)
      PROVE  /\ CrewType' /\ \A i \in ThreadImages : CrewSound(i)'
             /\ \A i \in ThreadImages : i # j => crew'[i] = crew[i]
  <2>1. s \in tbuf[j] /\ tbuf' = [tbuf EXCEPT ![j] = @ \ {s}] /\ UNCHANGED <<on, crew>>
    BY <1>6 DEF CancelWorker
  <2>2. CrewType' /\ tbuf'[j] = tbuf[j] \ {s}
    BY <2>1 DEF CrewType
  <2>3. Cardinality(tbuf'[j]) = Cardinality(tbuf[j]) - 1
    BY <1>1, <2>1, <2>2
  <2>4. on[j]
    BY <2>1 DEF CrewSound
  <2>5. CrewSound(j)'
    BY <1>1, <2>1, <2>3, <2>4 DEF CrewSound, Doomed, Mapped
  <2>6. \A i \in ThreadImages : i # j => tbuf'[i] = tbuf[i]
    BY <2>1 DEF CrewType
  <2> QED BY <1>2, <2>1, <2>2, <2>5, <2>6
<1> QED BY <1>3, <1>4, <1>5, <1>6 DEF ThreadEntry, StartCrew

\* So does every other step of the server: the crew of an image that is
\* unmapped is forgotten, and no crew grows.
LEMMA SettledCrew ==
  ASSUME CrewType, Settle, TypeOK, TypeOK',
         \A i \in ThreadImages : CrewSound(i)
  PROVE  /\ CrewType'
         /\ \A i \in ThreadImages : CrewSound(i)'
         /\ \A i \in ThreadImages : crew'[i] > 0 => crew'[i] = crew[i] /\ ~Unmaps(i)
<1>1. /\ \A i \in ThreadImages : on'[i] <=> on[i] /\ ~Unmaps(i)
      /\ \A i \in ThreadImages : tbuf'[i] = IF Unmaps(i) THEN {} ELSE tbuf[i]
      /\ \A i \in ThreadImages : crew'[i] = IF Unmaps(i) THEN 0 ELSE crew[i]
  BY DEF Settle
<1>2. CrewType'
  BY <1>1 DEF Settle, CrewType
<1>3. ASSUME NEW i \in ThreadImages PROVE CrewSound(i)'
  <2>1. Cardinality({}) = 0 /\ refs[i] \in Nat /\ refs'[i] \in Nat
    BY Counting DEF TypeOK, ThreadImages
  <2>2. CASE Unmaps(i)
    <3>1. ~on'[i] /\ tbuf'[i] = {} /\ crew'[i] = 0
      BY <1>1, <2>2
    <3> QED BY <2>1, <3>1 DEF CrewSound, Doomed
  <2>3. CASE ~Unmaps(i)
    <3>1. (on'[i] <=> on[i]) /\ tbuf'[i] = tbuf[i] /\ crew'[i] = crew[i]
      BY <1>1, <2>3
    <3>2. Mapped(i) => Mapped(i)'
      BY <2>1, <2>3 DEF Unmaps, Mapped
    <3> QED BY <3>1, <3>2 DEF CrewSound, Doomed
  <2> QED BY <2>2, <2>3
<1> QED BY <1>1, <1>2, <1>3

\* A cancelled worker that ends was one the crew could lose.
LEMMA ReapedCrew ==
  ASSUME CrewType, NEW j \in ThreadImages, Reap(j),
         \A i \in ThreadImages : CrewSound(i)
  PROVE  /\ CrewType'
         /\ \A i \in ThreadImages : CrewSound(i)'
         /\ \A i \in ThreadImages : crew'[i] > 0 => crew[i] > 0
<1>1. Cardinality(tbuf[j]) \in Nat /\ crew[j] \in Nat
  BY Counting DEF CrewType
<1>2. crew' = [crew EXCEPT ![j] = @ - 1] /\ UNCHANGED <<on, tbuf, refs>>
  BY DEF Reap
<1>3. crew[j] - Cardinality(tbuf[j]) > 0
  BY DEF Reap, Doomed
<1>4. CrewType' /\ crew'[j] = crew[j] - 1 /\ \A i \in ThreadImages : i # j => crew'[i] = crew[i]
  BY <1>1, <1>2, <1>3 DEF CrewType
<1>5. CrewSound(j)'
  BY <1>1, <1>2, <1>3, <1>4 DEF CrewSound, Doomed, Mapped
<1>6. \A i \in ThreadImages : i # j => CrewSound(i)'
  BY <1>2, <1>4 DEF CrewSound, Doomed, Mapped
<1> QED BY <1>1, <1>3, <1>4, <1>5, <1>6

-----------------------------------------------------------------------------
(* The invariant is inductive *)

LEMMA HostInitInv == HostInit => HostInv
<1> SUFFICES ASSUME HostInit PROVE HostInv
  OBVIOUS
<1>1. IInv /\ Named
  BY InitInv, NamedInit DEF HostInit
<1>2. CrewType /\ Cardinality({}) = 0
  BY FS_EmptySet DEF HostInit, CrewType
<1>3. HostTypeOK
  <2>1. \A i \in ThreadImages : ~on[i] /\ tbuf[i] = {} /\ crew[i] = 0
    BY DEF HostInit
  <2>2. \A i \in ThreadImages : CrewSound(i)
    BY <1>2, <2>1 DEF CrewSound, Doomed
  <2>3. {orphans, dead, flushed, cancelled} \subseteq BOOLEAN
    BY DEF HostInit
  <2> QED BY <1>2, <2>2, <2>3, SoundMeansTyped
<1>4. CrewCached /\ CrewNamed
  BY DEF HostInit, Init, CrewCached, CrewNamed, Handling
<1> QED BY <1>1, <1>2, <1>3, <1>4 DEF HostInv

\* One step of the server, a command of a thread page or not.
LEMMA ServeStep ==
  ASSUME HostInv, Serve
  PROVE  CrewType' /\ HostTypeOK' /\ CrewCached' /\ CrewNamed'
<1>1. /\ IInv /\ Named /\ CrewType /\ CrewCached /\ CrewNamed /\ TypeOK
      /\ Next /\ IInv' /\ TypeOK' /\ Held'
      /\ {orphans, dead, flushed, cancelled} \subseteq BOOLEAN
  BY InvStep, HeldAfterwards DEF HostInv, Serve, IInv, HostTypeOK
<1>2. \A i \in ThreadImages : CrewSound(i)
  BY <1>1, SoundMeansTyped DEF HostInv
<1>3. flushed' = (flushed \/ (pc = "flush" /\ FileOf[req.path] = ThreadFile)) /\ ~dead
  BY DEF Serve
<1>4. ASSUME pc' \in Handling \ {"flush"}, req'.flush, FileOf[req'.path] = ThreadFile
      PROVE  flushed'
  BY <1>1, <1>3, <1>4, MessageKept DEF CrewCached
<1>5. CASE HandlerRuns /\ sym \in ThreadImages
  <2>1. ThreadEntry(sym) /\ orphans' = orphans
    BY <1>5 DEF Serve
  <2>2. /\ UNCHANGED <<refs, names, mloc>> /\ pc' \in {"dlclose", "poll"}
        /\ Mapped(sym) /\ req.path \in Path
        /\ req.path \in names[sym] /\ sym.file = FileOf[req.path]
        /\ req.flush \/ mloc[req.path] = sym
    BY <1>1, <1>5, HandlerStep DEF HandlerRuns
  <2>3. /\ CrewType' /\ \A i \in ThreadImages : CrewSound(i)'
        /\ \A i \in ThreadImages : i # sym => crew'[i] = crew[i]
    BY <1>1, <1>2, <1>5, <2>1, <2>2, CommandCrew
  <2>4. dead' \in BOOLEAN /\ cancelled' \in BOOLEAN /\ (dead' => cancelled')
    <3>1. CASE UNCHANGED <<dead, cancelled>>
      BY <1>1, <1>3, <3>1
    <3>2. CASE cancelled' = TRUE /\ (UNCHANGED dead \/ dead' = TRUE)
      BY <1>1, <3>2
    <3> QED BY <2>1, <3>1, <3>2 DEF ThreadEntry
  <2>5. HostTypeOK'
    BY <1>1, <1>3, <2>1, <2>3, <2>4 DEF HostTypeOK, CrewType, CrewSound
  <2>6. CrewNamed'
    BY <1>1, <2>2, <2>3 DEF CrewNamed
  <2>7. ASSUME ~flushed'
        PROVE  ~orphans' /\ \A i \in ThreadImages : crew'[i] > 0 => \E p \in Path : mloc'[p] = i
    <3>1. pc = "call" /\ sym.file = ThreadFile
      BY <1>5 DEF HandlerRuns, ThreadImages
    <3>2. mloc[req.path] = sym
      BY <1>1, <1>3, <2>2, <2>7, <3>1 DEF CrewCached, Handling
    <3> QED BY <1>1, <1>3, <2>1, <2>2, <2>3, <2>7, <3>1, <3>2 DEF CrewCached
  <2> QED BY <1>4, <2>3, <2>4, <2>5, <2>6, <2>7 DEF CrewCached
<1>6. CASE ~(HandlerRuns /\ sym \in ThreadImages)
  <2>1. Settle /\ UNCHANGED <<dead, cancelled>>
    BY <1>6 DEF Serve
  <2>2. /\ CrewType' /\ \A i \in ThreadImages : CrewSound(i)'
        /\ \A i \in ThreadImages : crew'[i] > 0 => crew'[i] = crew[i] /\ ~Unmaps(i)
    BY <1>1, <1>2, <2>1, SettledCrew
  <2>3. orphans' \in BOOLEAN
    BY <2>1 DEF Settle
  <2>4. HostTypeOK'
    BY <1>1, <1>3, <2>1, <2>2, <2>3 DEF HostTypeOK, CrewType, CrewSound
  <2>5. ASSUME NEW i \in ThreadImages, crew'[i] > 0
        PROVE  \E p \in Path : p \in names'[i]
    <3>1. Mapped(i)' /\ i \in Image
      BY <2>2, <2>5 DEF CrewSound, ThreadImages, CrewType
    <3>2. names[i] \subseteq names'[i]
      BY <1>1, <3>1, NamesKept
    <3> QED BY <1>1, <2>2, <2>5, <3>2 DEF CrewNamed
  <2>6. ASSUME pc' \notin {"unload", "end"}, ~flushed',
               NEW i \in ThreadImages, crew[i] > 0
        PROVE  /\ ~Unmaps(i)
               /\ \E p \in Path : mloc'[p] = i
    <3>1. PICK p \in Path : mloc[p] = i
      BY <1>1, <1>3, <2>6, ShutdownStep DEF CrewCached
    <3>2. i \in Image /\ mloc[p] # None /\ FileOf[p] = ThreadFile
      BY <1>1, <3>1, NoneAssumption DEF ThreadImages, Named
    <3>3. pc # "unload" /\ ~(pc = "flush" /\ req.path = p)
      BY <1>1, <1>3, <2>6, <3>2, ShutdownStep
    <3>4. mloc'[p] = i
      BY <1>1, <3>1, <3>2, <3>3, EntryKept
    <3>5. Mapped(i)'
      BY <1>1, <3>2, <3>4, NoneAssumption DEF Held
    <3> QED BY <3>4, <3>5 DEF Unmaps, Mapped
  <2>7. ASSUME pc' \notin {"unload", "end"}, ~flushed'
        PROVE  ~orphans' /\ \A i \in ThreadImages : crew'[i] > 0 => \E p \in Path : mloc'[p] = i
    <3>1. ~orphans
      BY <1>1, <1>3, <2>7, ShutdownStep DEF CrewCached
    <3>2. ~orphans'
      BY <2>1, <2>6, <2>7, <3>1 DEF Settle
    <3> QED BY <2>2, <2>6, <2>7, <3>2
  <2>8. dead' => orphans' \/ cancelled'
    BY <1>3, <2>1
  <2> QED BY <1>4, <2>2, <2>4, <2>5, <2>7, <2>8 DEF CrewCached, CrewNamed
<1> QED BY <1>5, <1>6

LEMMA HostStep == HostInv /\ [HostNext]_hostVars => HostInv'
<1> SUFFICES ASSUME HostInv, [HostNext]_hostVars PROVE HostInv'
  OBVIOUS
<1>1. IInv /\ Named /\ CrewType /\ CrewCached /\ CrewNamed /\ HostTypeOK
  BY DEF HostInv
<1>2. [Next]_vars
  BY DEF HostNext, Serve, WakeOrphan, Dead, Reap, hostVars
<1>3. IInv' /\ Named'
  BY <1>1, <1>2, InvStep, NamedStep
<1>4. CASE Serve
  BY <1>3, <1>4, ServeStep DEF HostInv
<1>5. CASE WakeOrphan
  <2>1. UNCHANGED <<vars, on, tbuf, crew, orphans, flushed, cancelled>> /\ dead' = TRUE /\ orphans
    BY <1>5 DEF WakeOrphan, crews
  <2>2. HostTypeOK' /\ CrewType' /\ CrewNamed'
    BY <1>1, <2>1 DEF HostTypeOK, CrewType, CrewNamed, Doomed, Mapped
  <2>3. CrewCached'
    BY <1>1, <2>1 DEF CrewCached
  <2> QED BY <1>3, <2>2, <2>3 DEF HostInv
<1>6. ASSUME NEW j \in ThreadImages, Reap(j) PROVE HostInv'
  <2>1. UNCHANGED <<vars, on, tbuf, orphans, dead, flushed, cancelled>>
    BY <1>6 DEF Reap
  <2>2. \A i \in ThreadImages : CrewSound(i)
    BY <1>1, SoundMeansTyped DEF HostTypeOK
  <2>3. /\ CrewType' /\ \A i \in ThreadImages : CrewSound(i)'
        /\ \A i \in ThreadImages : crew'[i] > 0 => crew[i] > 0
    BY <1>1, <1>6, <2>2, ReapedCrew
  <2>4. HostTypeOK'
    BY <1>1, <2>1, <2>3 DEF HostTypeOK, CrewType, CrewSound
  <2>5. CrewCached' /\ CrewNamed'
    BY <1>1, <2>1, <2>3 DEF CrewCached, CrewNamed
  <2> QED BY <1>3, <2>3, <2>4, <2>5 DEF HostInv
<1>7. CASE UNCHANGED hostVars
  BY <1>1, <1>3, <1>7
  DEF hostVars, crews, HostInv, CrewType, HostTypeOK, CrewCached, CrewNamed, Doomed, Mapped
<1> QED BY <1>4, <1>5, <1>6, <1>7 DEF HostNext, Dead

LEMMA HostInvariance == HostSpec => []HostInv
BY HostInitInv, HostStep, PTL DEF HostSpec

-----------------------------------------------------------------------------
(* The theorems *)

\* tbuf never lists more workers than run, and an image that is not mapped has
\* neither variables nor workers.
THEOREM HostTypeCorrect == HostSpec => []HostTypeOK
<1>1. HostInv => HostTypeOK
  BY DEF HostInv
<1> QED BY HostInvariance, <1>1, PTL

\* Before the shutdown, only a flush of a thread page takes the code of its
\* workers away, and only that or a cancel kills the process.
THEOREM FlushAloneOrphans == HostSpec => []OrphanedOnlyByFlush
<1>1. HostInv => OrphanedOnlyByFlush
  BY DEF HostInv, CrewCached, OrphanedOnlyByFlush
<1> QED BY HostInvariance, <1>1, PTL

\* Workers can be reached, and so stopped, while a file is deployed in the place
\* of their page: the path they were started through passes access(), and their
\* build is cached for it or found by the name under which it is mapped.
THEOREM CrewStaysInReach == HostSpec => []CrewInReach
<1>1. HostInv => CrewInReach
  <2> SUFFICES ASSUME HostInv, NEW i \in ThreadImages, crew[i] > 0, disk[i.file] # None
               PROVE  \E p \in Path : LeadsTo(p, i)
    BY DEF CrewInReach
  <2>1. Named /\ Held /\ i \in Image
    BY HeldIsMapped DEF HostInv, ThreadImages
  <2>2. PICK p \in Path : p \in names[i]
    BY DEF HostInv, CrewNamed
  <2>3. disk[FileOf[p]] # None
    BY <2>1, <2>2 DEF Named
  <2>4. CASE mloc[p] = None
    <3>1. Known(p) = {i}
      BY <2>1, <2>2 DEF Known, Named
    <3> QED BY <2>2, <2>3, <2>4, <3>1 DEF OpenTarget, LeadsTo
  <2>5. CASE mloc[p] # None
    <3>1. mloc[p] = i
      BY <2>1, <2>2, <2>5 DEF Named, Held
    <3> QED BY <2>3, <3>1 DEF LeadsTo
  <2> QED BY <2>4, <2>5
<1> QED BY HostInvariance, <1>1, PTL
=============================================================================
