---------------------------- MODULE Subsequence ----------------------------
(***************************************************************************)
(* The elements of a sequence that are in a set, in their order: what is   *)
(* left of a list when some of its nodes are skipped or unlinked.          *)
(* (SelectSeq as a recursive function, which can be reasoned about.)       *)
(***************************************************************************)
EXTENDS Integers, Sequences

Only(s, S) ==
  LET only[n \in 0 .. Len(s)] ==
        IF n = 0 THEN <<>>
        ELSE IF s[n] \in S THEN Append(only[n - 1], s[n]) ELSE only[n - 1]
  IN only[Len(s)]
=============================================================================
