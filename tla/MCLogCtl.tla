------------------------------ MODULE MCLogCtl ------------------------------
(* Small instance of LogCtl: logctl under two names, and one other page.     *)
EXTENDS LogCtl

CONSTANTS logctl, alias, tpl,    (* ./www/logctl.so, ./www//logctl.so, ./www/tpl.so *)
          logctl_so, tpl_so      (* the files *)

MCFileOf == [p \in {logctl, alias, tpl} |-> IF p = tpl THEN tpl_so ELSE logctl_so]
=============================================================================
