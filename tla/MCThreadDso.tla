---------------------------- MODULE MCThreadDso -----------------------------
(* Small instance of ThreadDso: two workers instead of eight.  With the      *)
(* server's thread they are three that contend for the mutex, enough for one *)
(* to hold it, one to sleep on it and one to initialise it again.            *)
EXTENDS ThreadDso
=============================================================================
