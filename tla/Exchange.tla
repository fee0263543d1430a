------------------------------ MODULE Exchange ------------------------------
(***************************************************************************)
(* What the HTTP server promises a client that waits for each reply before *)
(* it sends the next request: the replies come in the order of the         *)
(* requests, each of them whole, and nothing else comes.  The connection   *)
(* is dropped only when the client hangs up, when the server stops, or     *)
(* after the reply to a HEAD; or it is not accepted in the first place.    *)
(***************************************************************************)
EXTENDS Sequences, SequencesExt, Naturals

CONSTANTS Client,      (* the clients that wait                            *)
          Kind,        (* the kinds of request                             *)
          Reply(_, _), (* the pieces of the reply to the n-th request      *)
          MaxRequests  (* bound: requests of each client                      *)

VARIABLES peer,    (* "away", "backlog", "open" or "closed"                *)
          sent,    (* the kinds of the requests a client has sent          *)
          got,     (* the pieces it has received                           *)
          hup,     (* whether it has hung up                               *)
          running  (* whether the server has been told to stop             *)

vars == <<peer, sent, got, hup, running>>

Replies(kinds) == FlattenSeq([n \in 1 .. Len(kinds) |-> Reply(n, kinds[n])])
Owed(c) == Replies(sent[c])

Init == /\ peer = [c \in Client |-> "away"]
        /\ sent = [c \in Client |-> <<>>] /\ got = [c \in Client |-> <<>>]
        /\ hup = [c \in Client |-> FALSE] /\ running = TRUE

Connect(c) == /\ peer[c] = "away"
              /\ peer' = [peer EXCEPT ![c] = "backlog"]
              /\ UNCHANGED <<sent, got, hup, running>>

Accept(c) == /\ peer[c] = "backlog"
             /\ peer' = [peer EXCEPT ![c] = "open"]
             /\ UNCHANGED <<sent, got, hup, running>>

Send(c, kind) == /\ peer[c] \in {"backlog", "open"} /\ ~hup[c]
                 /\ got[c] = Owed(c) /\ Len(sent[c]) < MaxRequests[c]
                 /\ sent' = [sent EXCEPT ![c] = Append(@, kind)]
                 /\ UNCHANGED <<peer, got, hup, running>>

HangUp(c) == /\ peer[c] \in {"backlog", "open"}
             /\ hup' = [hup EXCEPT ![c] = TRUE]
             /\ UNCHANGED <<peer, sent, got, running>>

\* Some more of what is owed arrives.
Receive(c) == /\ peer[c] = "open"
              /\ \E n \in Len(got[c]) + 1 .. Len(Owed(c)) :
                   got' = [got EXCEPT ![c] = SubSeq(Owed(c), 1, n)]
              /\ UNCHANGED <<peer, sent, hup, running>>

\* Any client may stop the server, those that do not wait included.
Stop == /\ running /\ running' = FALSE
        /\ UNCHANGED <<peer, sent, got, hup>>

\* The server drops some connections; all that it has not accepted at once.
MayDrop(c) == \/ hup[c] \/ ~running \/ peer[c] = "backlog"
              \/ \E n \in DOMAIN sent[c] :
                   sent[c][n] = "head" /\ got[c] = Replies(SubSeq(sent[c], 1, n))
Drop(gone) == /\ \A c \in gone : peer[c] \in {"backlog", "open"} /\ MayDrop(c)
              /\ peer' = [c \in Client |-> IF c \in gone THEN "closed" ELSE peer[c]]
              /\ UNCHANGED <<sent, got, hup, running>>

Next == \/ \E c \in Client : Connect(c) \/ Accept(c) \/ HangUp(c) \/ Receive(c)
        \/ \E c \in Client, kind \in Kind : Send(c, kind)
        \/ Stop
        \/ \E gone \in SUBSET Client : Drop(gone)

Spec == Init /\ [][Next]_vars
=============================================================================
