----------------------------- MODULE OrderedMap -----------------------------
(***************************************************************************)
(* What map.h promises its callers, without buckets: a map that remembers  *)
(* the order in which its keys were added.  Keys are pointers; two         *)
(* pointers are the same key when the bytes they point at are equal        *)
(* (Content).  A client makes a call, and one step later the map has done  *)
(* what was asked and left the outcome in ret.                             *)
(***************************************************************************)
EXTENDS Integers, Sequences

CONSTANTS
  Content,  (* the bytes (and length) each key pointer refers to *)
  Calls,    (* the calls clients make: [op, p, v]                *)
  NoCall    (* no call is being made                             *)

VARIABLES
  entries,  (* the elements, oldest first: [key, value]          *)
  call,     (* the call being made                               *)
  ret       (* the outcome of the last call                      *)

vars == <<entries, call, ret>>

\* The outcome of a call: its return value, its out parameter and the
\* elements that were handed to the caller's callback, in order.
Outcome(found, out, calls) == [found |-> found, out |-> out, calls |-> calls]
NoOutcome == Outcome(FALSE, 0, <<>>)

Positions == {i \in DOMAIN entries : Content[entries[i].key] = Content[call.p]}
Position == CHOOSE i \in Positions : TRUE
Present == Positions # {}

Element == [key |-> call.p, value |-> call.v]
Without(i) == SubSeq(entries, 1, i - 1) \o SubSeq(entries, i + 1, Len(entries))

Init == entries = <<>> /\ call = NoCall /\ ret = NoOutcome

Call == call = NoCall /\ call' \in Calls /\ UNCHANGED <<entries, ret>>

Answers(op) == call.op = op /\ call' = NoCall

\* A key that is already there keeps its place and its old key pointer.
Set ==
  /\ Answers("set")
  /\ entries' = IF Present THEN [entries EXCEPT ![Position].value = call.v]
                ELSE Append(entries, Element)
  /\ ret' = NoOutcome

\* As Set, but the caller sees the old element once and the new pointer
\* replaces the old one, which the caller may have freed.
SetFree ==
  /\ Answers("set_free")
  /\ entries' = IF Present THEN [entries EXCEPT ![Position] = Element]
                ELSE Append(entries, Element)
  /\ ret' = Outcome(FALSE, 0, IF Present THEN <<entries[Position]>> ELSE <<>>)

GetSet ==
  /\ Answers("get_set")
  /\ entries' = IF Present THEN entries ELSE Append(entries, Element)
  /\ ret' = Outcome(Present, IF Present THEN entries[Position].value ELSE call.v, <<>>)

Get ==
  /\ Answers("get")
  /\ ret' = Outcome(Present, IF Present THEN entries[Position].value ELSE 0, <<>>)
  /\ UNCHANGED entries

\* remove_free hands the element that goes to the caller; remove does not.
Remove ==
  /\ Answers("remove") \/ Answers("remove_free")
  /\ entries' = IF Present THEN Without(Position) ELSE entries
  /\ ret' = Outcome(FALSE, 0, IF call.op = "remove_free" /\ Present
                              THEN <<entries[Position]>> ELSE <<>>)

Size == Answers("size") /\ ret' = Outcome(FALSE, Len(entries), <<>>) /\ UNCHANGED entries

\* "calling c on every element ... in the order they were added"
Iterate == Answers("iterate") /\ ret' = Outcome(FALSE, 0, entries) /\ UNCHANGED entries

Next == Call \/ Set \/ SetFree \/ GetSet \/ Get \/ Remove \/ Size \/ Iterate

Spec == Init /\ [][Next]_vars
=============================================================================
