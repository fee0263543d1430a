----------------------------- MODULE MCDsoCache -----------------------------
(* Small instance of DsoCache: one DSO that is reached under two names below *)
(* ./www and is linked into ./lib, twice, so that each of the three holders  *)
(* of an old build (an alias, ./lib, a lost handle) occurs, and so that both *)
(* maps grow beyond the one node that hashmap_iterate reaches.               *)
EXTENDS DsoCache

CONSTANTS tpl, alias,  (* ./www/tpl.so, ./www//tpl.so  *)
          lib, link,   (* ./lib/tpl.so, ./lib/link.so  *)
          tpl_so       (* the file they all lead to    *)

MCFileOf == [p \in {tpl, alias, lib, link} |-> tpl_so]
=============================================================================
