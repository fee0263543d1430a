------------------------------- MODULE LogCtl -------------------------------
(***************************************************************************)
(* libsrc/logctl/src/a.c inside the server: a handler that makes mongoose  *)
(* keep a pointer into its DSO.  mg_log_set stores the pointer it is given *)
(* (s_spec), logctl gives it its own static buffer, and every LOG reads    *)
(* the level through it, the first one of each request included (cb,       *)
(* a.c:116).  DsoCache decides when that DSO is unmapped.                  *)
(***************************************************************************)
EXTENDS DsoCache

CONSTANTS
  LogFile,  (* the file of the logctl DSO                      *)
  Level,    (* the levels a request can ask for                *)
  Literal   (* the string literal appmain passes to mg_log_set *)

NoLevel == ""
ASSUME LevelAssumption == NoLevel \notin Level /\ Literal \notin Image

VARIABLES
  s_spec,   (* what mongoose's pointer points at: the literal or a DSO     *)
  buf,      (* the static buffer of each logctl DSO, empty when unmapped   *)
  flushed   (* history: a request asked for logctl to be flushed           *)

logVars == <<s_spec, buf, flushed>>

IsLogctl(i) == i.file = LogFile /\ i.kind = "handler"
LogImages == {i \in Image : IsLogctl(i)}

LogInit ==
  /\ Init
  /\ s_spec = Literal
  /\ buf = [i \in LogImages |-> NoLevel]
  /\ flushed = FALSE

\* Mutant: mongoose is given the DSO's path in place of its buffer.
LogctlEntryPassesPath(level) ==
  /\ buf' = [buf EXCEPT ![sym] = level]
  /\ s_spec' = IF level # NoLevel THEN req.path ELSE s_spec

\* mg_http_get_var overwrites the buffer even when the request has no level,
\* and only then does the handler look whether it has one.
LogctlEntry(level) ==
  /\ buf' = [buf EXCEPT ![sym] = level]
  /\ s_spec' = IF level # NoLevel THEN sym ELSE s_spec

\* Loading a DSO again gives it a fresh, empty buffer.
ForgetUnmapped == buf' = [i \in LogImages |-> IF refs'[i] = 0 THEN NoLevel ELSE buf[i]]

HandlerRuns == pc = "call" /\ pc' # "call"

LogNext ==
  /\ Next
  /\ IF HandlerRuns /\ IsLogctl(sym)
     THEN \E level \in Level \cup {NoLevel} : LogctlEntry(level)
     ELSE UNCHANGED s_spec /\ ForgetUnmapped
  /\ flushed' = (flushed \/ (pc = "flush" /\ FileOf[req.path] = LogFile))

LogSpec == LogInit /\ [][LogNext]_<<vars, logVars>>

-----------------------------------------------------------------------------
(* Properties *)

LogTypeOK == /\ s_spec \in LogImages \cup {Literal}
             /\ buf \in [LogImages -> Level \cup {NoLevel}]
             /\ flushed \in BOOLEAN

SpecMapped == s_spec = Literal \/ Mapped(s_spec)

\* Before the next request is logged, the level can be read.  libsrc/logctl/
\* test sets each level and then flushes logctl, and the server is to go on.
LogReadable == pc = "poll" => SpecMapped

\* Nothing but a flush of logctl takes the buffer away while LOG may read it:
\* not the flush of another DSO or of an error, and not the shutdown, which
\* unloads the cache only after the last connection was closed and logged.
DanglesOnlyByFlush == pc \notin {"unload", "end"} /\ ~flushed => SpecMapped
=============================================================================
