----------------------------- MODULE MCHashMap -----------------------------
(* Small instances of HashMap: two pointers to equal bytes and one to other *)
(* bytes, with hashes that collide and wrap around the end of the table.    *)
EXTENDS HashMap

CONSTANTS a1, a2, b

MCPtr == {a1, a2, b}
MCContent == [p \in MCPtr |-> IF p = a2 THEN a1 ELSE p]

\* In a table of 4 both keys start at bucket 3, the next probe wraps to 0; in
\* a table of 8 both start at 3 and nothing wraps.
MCHash == [k \in {a1, b} |-> IF k = b THEN 11 ELSE 3]
=============================================================================
