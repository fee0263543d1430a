---------------------------- MODULE MCHttpServer ----------------------------
(* HttpServer for TLC: the clients are model values. *)
EXTENDS HttpServer, TLC

CONSTANTS p, h

TwoPatient == [c \in {p, h} |-> IF c = p THEN 2 ELSE 1]
TwoHasty == [c \in {p, h} |-> IF c = h THEN 2 ELSE 1]

StopOrFile(c) == IF c = p THEN (Kind \ {"bad"}) \X {"whole"}
                 ELSE {"stop", "file"} \X {"whole", "head", "loop"}
FileForPatient(c) ==
  IF c = p THEN {<<"file", "whole">>}
  ELSE (Kind \X {"whole"}) \cup ({"page", "file"} \X {"head"})
       \cup ({"file"} \X {"loop", "front"})
=============================================================================
