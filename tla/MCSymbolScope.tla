--------------------------- MODULE MCSymbolScope ----------------------------
(* ex0 and the library it needs, and lst under two names.                    *)
EXTENDS SymbolScope, TLC

CONSTANTS data1, ex0, lst, alias,     (* ./lib/data1.so, ./www/ex0.so, ./www/lst.so, ./www//lst.so *)
          data1_so, ex0_so, lst_so    (* the files *)

MCFileOf == data1 :> data1_so @@ ex0 :> ex0_so @@ lst :> lst_so @@ alias :> lst_so
MCDefines == data1_so :> "acc" @@ ex0_so :> None @@ lst_so :> "ls"
MCNeeds == data1_so :> None @@ ex0_so :> "acc" @@ lst_so :> "ls"
=============================================================================
