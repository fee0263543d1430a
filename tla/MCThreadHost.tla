---------------------------- MODULE MCThreadHost ----------------------------
(* Small instance of ThreadHost: one file, thread's or another handler's by  *)
(* turns, under two names.                                                   *)
EXTENDS ThreadHost

CONSTANTS thread, alias,   (* ./www/thread.so and ./www//thread.so *)
          thread_so        (* the file *)

MCFileOf == [p \in {thread, alias} |-> thread_so]
=============================================================================
