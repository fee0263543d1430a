---------------------------- MODULE LogCtlProofs ----------------------------
(***************************************************************************)
(* For any set of paths, aliases, files and levels: only a flush of logctl *)
(* takes away the buffer that mongoose reads the log level from.           *)
(***************************************************************************)
EXTENDS LogCtl, DsoCacheProofs

USE DEF Goto, Return, Lose, world, loader, lists, maps, life, local, vars

allVars == <<vars, logVars>>

\* The buffer mongoose points at is in a DSO that the cache holds under some
\* path.  That a flushed call of logctl passes its buffer too, without being
\* cached, is excused: it began with a flush of logctl.
LogCore ==
  /\ pc \in Handling \ {"flush"} /\ req.flush /\ FileOf[req.path] = LogFile => flushed
  /\ pc \notin {"unload", "end"} /\ ~flushed /\ s_spec # Literal =>
       \E p \in Path : mloc[p] = s_spec

LogInv == IInv /\ Named /\ LogTypeOK /\ LogCore

LEMMA LogInitInv == LogInit => LogInv
<1> SUFFICES ASSUME LogInit PROVE LogInv
  OBVIOUS
<1>1. IInv /\ Named
  BY InitInv, NamedInit DEF LogInit
<1>2. LogTypeOK
  BY DEF LogInit, LogTypeOK
<1>3. LogCore
  BY DEF LogInit, Init, LogCore, Handling
<1> QED BY <1>1, <1>2, <1>3 DEF LogInv

LEMMA LogTypeStep == LogInv /\ [LogNext]_allVars => LogTypeOK'
<1> SUFFICES ASSUME LogInv, [LogNext]_allVars PROVE LogTypeOK'
  OBVIOUS
<1>1. CASE LogNext /\ HandlerRuns /\ IsLogctl(sym)
  <2>1. sym \in LogImages
    BY <1>1 DEF LogInv, IInv, Control, HandlerRuns, LogImages
  <2>2. PICK level \in Level \cup {NoLevel} : LogctlEntry(level)
    BY <1>1 DEF LogNext
  <2> QED BY <1>1, <2>1, <2>2 DEF LogctlEntry, LogNext, LogInv, LogTypeOK
<1>2. CASE LogNext /\ ~(HandlerRuns /\ IsLogctl(sym))
  BY <1>2 DEF LogNext, ForgetUnmapped, LogInv, LogTypeOK
<1>3. CASE UNCHANGED allVars
  BY <1>3 DEF allVars, logVars, LogInv, LogTypeOK
<1> QED BY <1>1, <1>2, <1>3

LEMMA LogCoreStep == LogInv /\ [LogNext]_allVars => LogCore'
<1> SUFFICES ASSUME LogInv, [LogNext]_allVars PROVE LogCore'
  OBVIOUS
<1>1. CASE UNCHANGED allVars
  BY <1>1 DEF allVars, logVars, LogInv, LogCore
<1>2. CASE LogNext
  <2>1. IInv /\ Named /\ LogCore /\ LogTypeOK /\ Control /\ Next
    BY <1>2 DEF LogInv, IInv, LogNext
  <2>2. flushed' = (flushed \/ (pc = "flush" /\ FileOf[req.path] = LogFile))
    BY <1>2 DEF LogNext
  <2>3. ASSUME pc' \in Handling \ {"flush"}, req'.flush, FileOf[req'.path] = LogFile
        PROVE  flushed'
    BY <2>1, <2>2, <2>3, MessageKept DEF LogCore
  <2>4. ASSUME pc' \notin {"unload", "end"}, ~flushed', s_spec' # Literal
        PROVE  \E p \in Path : mloc'[p] = s_spec'
    <3>1. pc \notin {"unload", "end"}
      BY <2>1, <2>4, ShutdownStep
    <3>2. CASE s_spec' = s_spec
      <4>1. PICK p \in Path : mloc[p] = s_spec
        BY <2>1, <2>2, <2>4, <3>1, <3>2 DEF LogCore
      <4>2. mloc[p] # None /\ FileOf[p] = LogFile
        BY <2>1, <2>4, <3>2, <4>1, NoneAssumption
        DEF LogTypeOK, LogImages, IsLogctl, Named
      <4>3. ~(pc = "flush" /\ req.path = p)
        BY <2>2, <2>4, <4>2
      <4> QED BY <2>1, <3>1, <3>2, <4>1, <4>2, <4>3, EntryKept
    <3>3. CASE s_spec' # s_spec
      <4>1. pc = "call" /\ pc' # "call" /\ IsLogctl(sym) /\ s_spec' = sym
        BY <1>2, <3>3 DEF LogNext, HandlerRuns, LogctlEntry
      <4>2. /\ mloc' = mloc /\ req.path \in Path /\ sym.file = FileOf[req.path]
            /\ req.flush \/ mloc[req.path] = sym
        BY <2>1, <4>1, HandlerStep
      <4>3. ~req.flush
        BY <2>1, <2>2, <2>4, <4>1, <4>2 DEF LogCore, Handling, IsLogctl
      <4> QED BY <4>1, <4>2, <4>3
    <3> QED BY <3>2, <3>3
  <2> QED BY <2>3, <2>4 DEF LogCore
<1> QED BY <1>1, <1>2

LEMMA LogInvariance == LogSpec => []LogInv
<1>1. LogInv /\ [LogNext]_allVars => LogInv'
  <2> SUFFICES ASSUME LogInv, [LogNext]_allVars PROVE LogInv'
    OBVIOUS
  <2>1. [Next]_vars
    BY DEF LogNext, allVars
  <2> QED BY <2>1, InvStep, NamedStep, LogTypeStep, LogCoreStep DEF LogInv
<1> QED BY LogInitInv, <1>1, PTL DEF LogSpec, allVars

\* mongoose's pointer and the buffers of the logctl DSOs keep their types.
THEOREM LogTypeCorrect == LogSpec => []LogTypeOK
<1>1. LogInv => LogTypeOK
  BY DEF LogInv
<1> QED BY LogInvariance, <1>1, PTL

\* Until logctl is flushed, and before appmain unloads the cache, the level
\* that LOG reads is in a DSO that is mapped.
THEOREM FlushAloneDangles == LogSpec => []DanglesOnlyByFlush
<1>1. LogInv => DanglesOnlyByFlush
  <2> SUFFICES ASSUME LogInv, pc \notin {"unload", "end"}, ~flushed, s_spec # Literal
               PROVE  Mapped(s_spec)
    BY DEF DanglesOnlyByFlush, SpecMapped
  <2>1. PICK p \in Path : mloc[p] = s_spec
    BY DEF LogInv, LogCore
  <2>2. s_spec \in Image
    BY DEF LogInv, LogTypeOK, LogImages
  <2> QED BY <2>1, <2>2, NoneAssumption, HeldIsMapped DEF LogInv, Held
<1> QED BY LogInvariance, <1>1, PTL
=============================================================================
