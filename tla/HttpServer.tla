----------------------------- MODULE HttpServer -----------------------------
(***************************************************************************)
(* appmain's start, its poll loop and its end (libsrc/app/src/a.c), and    *)
(* the part of mongoose they rely on: the list of connections that         *)
(* mg_mgr_poll walks, reading, parsing and writing, http_cb and static_cb  *)
(* taking turns as a connection's protocol handler, and mg_mgr_free.       *)
(*                                                                         *)
(* The server is one thread.  What interleaves with its steps are the      *)
(* clients: they connect, send requests, whole or in parts, with or        *)
(* without waiting for replies, and hang up.  A request is a record of its *)
(* number and of the part of it that was sent; a reply is cut into pieces  *)
(* of which the send buffer holds a limited number.  What a page does is   *)
(* DsoCache's business; here it replies at once.                           *)
(***************************************************************************)
EXTENDS Integers, Sequences, FiniteSets, SequencesExt

CONSTANTS
  Client,       (* connections, each used once                             *)
  Patient,      (* the clients that wait for a reply before the next send  *)
  Listener,     (* mongoose's listening connection                         *)
  MG_IO_SIZE,   (* the step in which buffers grow, in pieces               *)
  FileLen,      (* the length of a static file's body, in pieces           *)
  FD_SETSIZE,   (* how many descriptors select and the process can handle  *)
  NoFile,       (* no static file is being sent                            *)
  MaxRequests,  (* bound: the number of requests of each client            *)
  MaxTurns,     (* bound: the turns of http_cb's loop that are told apart  *)
  Wanted(_)     (* bound: the requests a client sends: the kind of each,
                   and the part of it that is sent first                   *)

ASSUME ClientAssumption == Patient \subseteq Client /\ Listener \notin Client
ASSUME SizeAssumption == /\ MG_IO_SIZE \in Nat \ {0} /\ FileLen \in Nat
                         /\ FD_SETSIZE \in Nat /\ MaxRequests \in [Client -> Nat]
                         /\ MaxTurns \in Nat
ASSUME FileAssumption == NoFile \notin [req : Nat, left : Nat]

\* page: answered at once, by a DSO, a listing or an error.  stop: the page
\* that clears `running`.  file: a static file.  head: HEAD of a static file.
\* bad: what mg_http_parse refuses.
Kind == {"page", "stop", "file", "head", "bad"}

\* A request arrives whole, or first its header and then its body.  "more" is
\* a piece of body that fills the receive buffer and does not complete it.
\* The Content-Length of the last two is negative: with "loop" it takes back
\* all of the header; "front" is the part of a header that it leaves, and the
\* part that it takes back comes next, with a number of its own.
Part == {"whole", "head", "rest", "more", "loop", "front"}
Fragment == [req : Nat, part : Part]
Piece == [req : Nat, part : {"reply", "head", "body"}]

VARIABLES
  argc, libdir,  (* how the process was started: 2 with a port; ./lib there *)
  pc,            (* where the thread is                                     *)
  running,       (* the global flag the stop handler clears                 *)
  freeing,       (* mg_mgr_free is walking the list                         *)
  conns, todo,   (* mgr->conns, and what of it mg_mgr_poll has still to do  *)
  readable, writable, closing, draining, (* the connections with that flag  *)
  conn,          (* buffers and protocol handler of each connection         *)
  peer,          (* a client's connection: away, backlog, open, closed      *)
  sent, inbox, hup, got, (* a client's requests, those still unread, whether
                            it hung up, and what it received                *)
  handled,       (* history: the requests cb was called with                *)
  lost           (* history: static files that were never closed            *)

flags == <<readable, writable, closing, draining>>
client == <<sent, inbox, hup>>
vars == <<argc, libdir, pc, running, freeing, conns, todo, readable, writable,
          closing, draining, conn, peer, sent, inbox, hup, got, handled, lost>>

\* The protocol handler is static_cb while there is a file, and http_cb otherwise.
Fresh == [recv |-> <<>>, send |-> <<>>, size |-> 0, file |-> NoFile]
cur == Head(todo)
KindOf(c, n) == sent[c][n]

-----------------------------------------------------------------------------
(* The send buffer, and static_cb: operators on a connection's record *)

\* mg_iobuf_append, when the buffer is full.
Grown(len) == (len + MG_IO_SIZE) - ((len + MG_IO_SIZE) % MG_IO_SIZE)

\* Mutant: mg_iobuf_append does not make room.
MgSendOverrun(k, piece) == [k EXCEPT !.send = Append(@, piece)]

MgSend(k, piece) ==
  LET len == Len(k.send) + 1
  IN [k EXCEPT !.send = Append(@, piece), !.size = IF len > @ THEN Grown(len) ELSE @]

Body(n, len) == [i \in 1 .. len |-> [req |-> n, part |-> "body"]]

\* restore_http_cb closes the file.
RestoreHttpCb(k) == [k EXCEPT !.file = NoFile]

\* What static_cb reads into a buffer of that size.
FileRead(k, size) ==
  LET room == size - Len(k.send)
      n == IF k.file.left < room THEN k.file.left ELSE room
  IN [k EXCEPT !.size = size, !.send = @ \o Body(k.file.req, n), !.file.left = @ - n]

\* Mutant: a read that fills the buffer is taken to be the last one as well.
StaticCbEndsFull(k) ==
  LET size == IF k.size < 2 * MG_IO_SIZE THEN 2 * MG_IO_SIZE ELSE k.size
  IN CASE k.file = NoFile -> k
       [] k.file # NoFile /\ Len(k.send) >= size -> [k EXCEPT !.size = size]
       [] OTHER -> RestoreHttpCb(FileRead(k, size))

\* static_cb at MG_EV_POLL and MG_EV_WRITE: top up the buffer from the file,
\* and give the connection back when the file did not fill it.
StaticCb(k) ==
  LET size == IF k.size < 2 * MG_IO_SIZE THEN 2 * MG_IO_SIZE ELSE k.size
      read == FileRead(k, size)
  IN CASE k.file = NoFile -> k
       [] k.file # NoFile /\ Len(k.send) >= size -> [k EXCEPT !.size = size]
       [] OTHER -> IF Len(read.send) < size THEN RestoreHttpCb(read) ELSE read

\* write_conn's mg_iobuf_delete; an empty buffer is freed.
Written(k, n) == [k EXCEPT !.send = SubSeq(@, n + 1, Len(@)),
                           !.size = IF n = Len(k.send) THEN 0 ELSE @]

\* How a request changes its connection: cb, then hdl_dso or mg_http_serve_dir.
Served(k, n, kind) ==
  CASE kind \in {"page", "stop"} -> MgSend(k, [req |-> n, part |-> "reply"])
    [] kind = "head" -> MgSend(k, [req |-> n, part |-> "head"])
    [] kind = "file" ->
         [MgSend(k, [req |-> n, part |-> "head"])
            EXCEPT !.file = [req |-> n, left |-> FileLen]]

\* The reply to a request, as a client that does not interfere gets it.
Reply(n, kind) ==
  CASE kind \in {"page", "stop"} -> <<[req |-> n, part |-> "reply"]>>
    [] kind = "head" -> <<[req |-> n, part |-> "head"]>>
    [] kind = "file" -> <<[req |-> n, part |-> "head"]>> \o Body(n, FileLen)
    [] kind = "bad" -> <<>>
Replies(kinds) == FlattenSeq([n \in 1 .. Len(kinds) |-> Reply(n, kinds[n])])

\* mg_http_parse on the receive buffer: an error, or a whole message in front.
\* To http_cb a request with a negative Content-Length is complete as soon as
\* its header is there.
Malformed(c, r) == r # <<>> /\ KindOf(c, Head(r).req) = "bad"
\* Mutant: the header is all it takes.
CompleteHeader(r) == r # <<>> /\ Head(r).part \in {"whole", "head"}
Complete(r) == \/ r # <<>> /\ Head(r).part \in {"whole", "loop"}
               \/ Len(r) > 1 /\ Head(r).part = "front"
               \/ Len(r) > 1 /\ Head(r).part = "head" /\ r[2].part = "rest"

\* The fragments of the request in front, and those that message.len covers,
\* the sum of the header's length and of a Content-Length below zero included.
Endless(r) == Head(r).part \in {"loop", "front"}
RequestLen(r) == IF Head(r).part \in {"head", "front"} /\ Len(r) > 1 THEN 2 ELSE 1
MessageLen(r) == CASE Head(r).part = "loop" -> 0
                   [] Head(r).part = "front" -> 1
                   [] OTHER -> RequestLen(r)
\* Mutant: the message stays in the receive buffer.
RestKept(r) == r
\* mg_iobuf_delete of the message.
Rest(r) == SubSeq(r, MessageLen(r) + 1, Len(r))
Full(r) == \E i \in DOMAIN r : r[i].part = "more"

\* What a handler finds in the message m that it is given at the close, when
\* http_cb sets the length itself, and in the one in front of r.
Extent(m) == CASE Full(m) -> "overlong"
               [] ~Full(m) /\ m = <<[req |-> m[1].req, part |-> "head"]>> -> "cut"
               [] OTHER -> IF Len(m) > RequestLen(m) THEN "swollen" ELSE "whole"
BodyOf(r) == IF Endless(r) THEN "endless" ELSE Extent(SubSeq(r, 1, MessageLen(r)))

\* The descriptors in use: connections, files being sent, and lost ones.
Used == Len(conns) + Cardinality({c \in Client : conn[c].file # NoFile}) + Cardinality(lost)

-----------------------------------------------------------------------------
(* The clients *)

Connect(c) ==
  /\ peer[c] = "away" /\ Listener \in ToSet(conns)
  /\ peer' = [peer EXCEPT ![c] = "backlog"]
  /\ UNCHANGED <<argc, libdir, pc, running, freeing, conns, todo, flags, conn,
                 client, got, handled, lost>>

\* A client that began a request finishes it before the next one.
Unfinished(c) == LET r == conn[c].recv \o inbox[c]
                 IN r # <<>> /\ Last(r).part \in {"head", "more"}

\* What comes next is the end of a header that was split.
Split(c) == LET r == conn[c].recv \o inbox[c] IN r # <<>> /\ Last(r).part = "front"

\* A patient client sends whole requests, each after the reply to the last.
Send(c, kind, part) ==
  /\ peer[c] \in {"backlog", "open"} /\ ~hup[c] /\ ~Unfinished(c)
  /\ c \in Patient => part = "whole" /\ kind # "bad" /\ got[c] = Replies(sent[c])
  /\ Len(sent[c]) < MaxRequests[c] /\ <<kind, part>> \in Wanted(c)
  /\ kind = "bad" \/ Split(c) => part = "whole"
  /\ sent' = [sent EXCEPT ![c] = Append(@, kind)]
  /\ inbox' = [inbox EXCEPT ![c] = Append(@, [req |-> Len(sent[c]) + 1, part |-> part])]
  /\ UNCHANGED <<argc, libdir, pc, running, freeing, conns, todo, flags, conn,
                 peer, hup, got, handled, lost>>

SendBody(c, part) ==
  /\ peer[c] \in {"backlog", "open"} /\ ~hup[c] /\ Unfinished(c)
  /\ part = "more" => Last(conn[c].recv \o inbox[c]).part = "head"
  /\ inbox' = [inbox EXCEPT ![c] = Append(@, [req |-> Len(sent[c]), part |-> part])]
  /\ UNCHANGED <<argc, libdir, pc, running, freeing, conns, todo, flags, conn,
                 peer, sent, hup, got, handled, lost>>

HangUp(c) ==
  /\ peer[c] \in {"backlog", "open"} /\ ~hup[c]
  /\ hup' = [hup EXCEPT ![c] = TRUE]
  /\ UNCHANGED <<argc, libdir, pc, running, freeing, conns, todo, flags, conn,
                 peer, sent, inbox, got, handled, lost>>

-----------------------------------------------------------------------------
(* appmain, and the frame of mg_mgr_poll *)

\* Without ./lib/ readdir gets NULL, and without an argument strlen does.
Start ==
  /\ pc = "start"
  /\ IF argc = 2 /\ libdir
     THEN \/ pc' = "poll" /\ conns' = <<Listener>>
          \/ pc' = "end" /\ UNCHANGED conns           \* mg_http_listen fails
     ELSE pc' = "crashed" /\ UNCHANGED conns
  /\ UNCHANGED <<argc, libdir, running, freeing, todo, flags, conn, peer, client,
                 got, handled, lost>>

Pending == {c \in Client : conn[c].send # <<>>}

\* Mutant: the loop does not look at `running`.
PollForever(room) ==
  /\ pc = "poll"
  /\ pc' = "visit" /\ todo' = conns
  /\ readable' = {c \in ToSet(conns) : IF c = Listener THEN \E d \in Client : peer[d] = "backlog"
                                       ELSE inbox[c] # <<>> \/ hup[c]}
  /\ writable' = room
  /\ UNCHANGED <<argc, libdir, running, freeing, conns, closing, draining, conn,
                 peer, client, got, handled, lost>>

\* mg_iotest: select waits for whatever there is to read, and for room in the
\* sockets that have something to write; it may also time out.
Poll(room) ==
  /\ pc = "poll" /\ running
  /\ pc' = "visit" /\ todo' = conns
  /\ readable' = {c \in ToSet(conns) : IF c = Listener THEN \E d \in Client : peer[d] = "backlog"
                                       ELSE inbox[c] # <<>> \/ hup[c]}
  /\ writable' = room
  /\ UNCHANGED <<argc, libdir, running, freeing, conns, closing, draining, conn,
                 peer, client, got, handled, lost>>

\* mg_mgr_free: every connection is closing when it is polled a last time.
FreeManager ==
  /\ pc = "poll" /\ ~running
  /\ freeing' = TRUE /\ closing' = ToSet(conns)
  /\ pc' = "visit" /\ todo' = conns /\ readable' = {} /\ writable' = {}
  /\ UNCHANGED <<argc, libdir, running, conns, draining, conn, peer, client, got,
                 handled, lost>>

\* The walk goes on with tmp, the next connection.
Advance ==
  /\ todo' = Tail(todo)
  /\ pc' = IF Tail(todo) # <<>> THEN "visit" ELSE IF freeing THEN "end" ELSE "poll"

-----------------------------------------------------------------------------
(* One connection in mg_mgr_poll *)

\* accept_conn.  The new connection goes to the head of the list, behind the
\* back of the walk.  Its descriptor, the lowest that is free, may be too large
\* for select only when that many are in use; or there is none left, accept
\* fails, and the client stays where it is.
Accept(c) ==
  /\ pc = "visit" /\ cur = Listener /\ Listener \in readable
  /\ peer[c] = "backlog"
  /\ \/ /\ Used >= FD_SETSIZE
        /\ peer' \in {peer, [peer EXCEPT ![c] = "closed"]}
        /\ UNCHANGED <<conns, conn>>
     \/ /\ peer' = [peer EXCEPT ![c] = "open"]
        /\ conns' = <<c>> \o conns
        /\ conn' = [conn EXCEPT ![c] = Fresh]
  /\ Advance
  /\ UNCHANGED <<argc, libdir, running, freeing, flags, client, got, handled, lost>>

\* A connection that has nothing to do but to be closed, if it is.
Pass ==
  /\ pc = "visit"
  /\ IF cur \in closing THEN pc' = "close" /\ UNCHANGED todo
     ELSE cur = Listener /\ Listener \notin readable /\ Advance
  /\ conn' = IF cur = Listener THEN conn ELSE [conn EXCEPT ![cur] = StaticCb(@)]
  /\ UNCHANGED <<argc, libdir, running, freeing, conns, flags, peer, client, got,
                 handled, lost>>

\* MG_EV_POLL, then read_conn.  static_cb leaves what was read in the buffer.
\* recv fails when the client is gone, and what it had sent may go with it.
Read ==
  /\ pc = "visit" /\ cur # Listener /\ cur \notin closing
  /\ LET c == cur
         k == StaticCb(conn[c])
     IN \/ /\ c \notin readable
           /\ conn' = [conn EXCEPT ![c] = k]
           /\ pc' = "write" /\ UNCHANGED <<closing, inbox>>
        \/ /\ c \in readable /\ (Full(k.recv) \/ hup[c])
           /\ conn' = [conn EXCEPT ![c] = k]
           /\ closing' = closing \cup {c}
           /\ pc' = "write" /\ UNCHANGED inbox
        \/ /\ c \in readable /\ ~Full(k.recv)
           /\ \E n \in 1 .. Len(inbox[c]) :
                /\ \A i \in 1 .. n - 1 : inbox[c][i].part # "more"
                /\ conn' = [conn EXCEPT ![c] = [k EXCEPT !.recv = @ \o SubSeq(inbox[c], 1, n)]]
                /\ inbox' = [inbox EXCEPT ![c] = SubSeq(@, n + 1, Len(@))]
           /\ pc' = IF k.file = NoFile THEN "http_cb" ELSE "write"
           /\ UNCHANGED closing
  /\ UNCHANGED <<argc, libdir, running, freeing, conns, todo, readable, writable,
                 draining, peer, sent, hup, got, handled, lost>>

\* mg_call(c, MG_EV_HTTP_MSG): the request in front is served, and what is
\* behind its message remains.
\* A file that is still being sent is forgotten when another one takes over.
Handle(c, r) ==
  LET k == conn[c]
      n == Head(r).req
      kind == KindOf(c, n)
  IN /\ conn' = [conn EXCEPT ![c] = [Served(k, n, kind) EXCEPT !.recv = Rest(r)]]
     /\ draining' = IF kind = "head" THEN draining \cup {c} ELSE draining
     /\ running' = (running /\ kind # "stop")
     /\ handled' = [handled EXCEPT ![c] = Append(@, [req |-> n, body |-> BodyOf(r),
                        how |-> IF k.file = NoFile THEN "read" ELSE "behind"])]
     /\ lost' = IF kind = "file" /\ k.file # NoFile THEN lost \cup {<<c, k.file.req>>} ELSE lost

\* Mutant: http_cb handles one message at each MG_EV_READ.
AfterMessageOnce == "write"
AfterMessage == "http_cb"

\* http_cb goes round with a message of length zero, for ever.
Spins == pc = "http_cb" /\ conn[cur].recv # <<>> /\ Head(conn[cur].recv).part = "loop"

\* One turn of the loop in http_cb at MG_EV_READ.  The loop goes on after a
\* message even when the message made static_cb the protocol handler.
HttpCb ==
  /\ pc = "http_cb"
  /\ Spins => Len(handled[cur]) < MaxTurns
  /\ LET c == cur
         r == conn[c].recv
     IN IF ~Malformed(c, r) /\ Complete(r)
        THEN Handle(c, r) /\ pc' = AfterMessage /\ UNCHANGED closing
        ELSE /\ closing' = IF Malformed(c, r) THEN closing \cup {c} ELSE closing
             /\ pc' = "write"
             /\ UNCHANGED <<conn, draining, running, handled, lost>>
  /\ UNCHANGED <<argc, libdir, freeing, conns, todo, readable, writable, peer,
                 client, got>>

\* The turns of the loop beyond the bound are all the same.
Spin == Spins /\ Len(handled[cur]) >= MaxTurns /\ UNCHANGED vars

\* Mutant: a connection that is to be drained is closed at once.
LeaveUndrained(k) ==
  /\ closing' = IF cur \in draining THEN closing \cup {cur} ELSE closing
  /\ IF cur \in draining \cup closing THEN pc' = "close" /\ UNCHANGED todo ELSE Advance

\* The end of a visit: a drained connection is closed like a failed one.
Leave(k) ==
  LET shut == cur \in draining /\ k.send = <<>>
  IN /\ closing' = IF shut THEN closing \cup {cur} ELSE closing
     /\ IF shut \/ cur \in closing THEN pc' = "close" /\ UNCHANGED todo ELSE Advance

\* write_conn, then MG_EV_WRITE.  A connection that is closing still writes.
Write ==
  /\ pc = "write"
  /\ IF cur \notin writable
     THEN Leave(conn[cur]) /\ UNCHANGED <<conn, got>>
     ELSE \E n \in 1 .. Len(conn[cur].send) :
            LET k == StaticCb(Written(conn[cur], n))
            IN /\ conn' = [conn EXCEPT ![cur] = k]
               /\ got' = [got EXCEPT ![cur] = @ \o SubSeq(conn[cur].send, 1, n)]
               /\ Leave(k)
  /\ UNCHANGED <<argc, libdir, running, freeing, conns, readable, writable,
                 draining, peer, client, handled, lost>>

\* The client is gone, and writing to it fails.
WriteFails ==
  /\ pc = "write" /\ cur \in writable /\ hup[cur]
  /\ closing' = closing \cup {cur}
  /\ pc' = "close"
  /\ UNCHANGED <<argc, libdir, running, freeing, conns, todo, readable, writable,
                 draining, conn, peer, client, got, handled, lost>>

\* What http_cb hands over at MG_EV_CLOSE: all of the receive buffer is one
\* message as soon as there is a whole header.  static_cb hands over nothing.
HalfHeader(r) == Len(r) = 1 /\ Head(r).part = "front"
LastMessage(c) ==
  LET k == conn[c]
  IN IF k.file # NoFile \/ Malformed(c, k.recv) \/ HalfHeader(k.recv) THEN <<>> ELSE k.recv

\* Mutant: static_cb does not close its file at MG_EV_CLOSE.
LostAtCloseAlways(c, last) ==
  IF conn[c].file # NoFile THEN {<<c, conn[c].file.req>>} ELSE {}

\* Nobody closes the file that the last message opens.
LostAtClose(c, last) == IF last # <<>> /\ KindOf(c, Head(last).req) = "file"
                        THEN {<<c, Head(last).req>>} ELSE {}

\* close_conn.  Whatever the last message sends is dropped with the connection.
Close ==
  /\ pc = "close"
  /\ conns' = RemoveFirst(conns, cur)
  /\ closing' = closing \ {cur}
  /\ IF cur = Listener
     THEN /\ peer' = [c \in Client |-> IF peer[c] = "backlog" THEN "closed" ELSE peer[c]]
          /\ UNCHANGED <<conn, draining, running, handled, lost>>
     ELSE LET last == LastMessage(cur) IN
          /\ peer' = [peer EXCEPT ![cur] = "closed"]
          /\ conn' = [conn EXCEPT ![cur] = Fresh]
          /\ draining' = draining \ {cur}
          /\ lost' = lost \cup LostAtClose(cur, last)
          /\ running' = (running /\ (last # <<>> => KindOf(cur, Head(last).req) # "stop"))
          /\ handled' = IF last = <<>> THEN handled
                        ELSE [handled EXCEPT ![cur] = Append(@,
                               [req |-> Head(last).req, body |-> Extent(last), how |-> "close"])]
  /\ Advance
  /\ UNCHANGED <<argc, libdir, freeing, readable, writable, client, got>>

-----------------------------------------------------------------------------
Init ==
  /\ argc \in {1, 2} /\ libdir \in BOOLEAN
  /\ pc = "start" /\ running = TRUE /\ freeing = FALSE
  /\ conns = <<>> /\ todo = <<>>
  /\ readable = {} /\ writable = {} /\ closing = {} /\ draining = {}
  /\ conn = [c \in Client |-> Fresh] /\ peer = [c \in Client |-> "away"]
  /\ sent = [c \in Client |-> <<>>] /\ inbox = [c \in Client |-> <<>>]
  /\ hup = [c \in Client |-> FALSE] /\ got = [c \in Client |-> <<>>]
  /\ handled = [c \in Client |-> <<>>] /\ lost = {}

Server == \/ Start
          \/ \E room \in SUBSET Pending : Poll(room)
          \/ FreeManager
          \/ \E c \in Client : Accept(c)
          \/ Pass \/ Read \/ HttpCb \/ Write \/ WriteFails \/ Close

Clients == \/ \E c \in Client : Connect(c) \/ HangUp(c)
           \/ \E c \in Client, kind \in Kind, part \in Part \ {"rest", "more"} :
                Send(c, kind, part)
           \/ \E c \in Client, part \in {"rest", "more"} : SendBody(c, part)

\* The process has ended, one way or the other.
Gone == pc \in {"end", "crashed"} /\ UNCHANGED vars

Next == Server \/ Spin \/ Clients \/ Gone

\* The thread keeps running.  A patient client keeps reading, so select finds
\* room in its socket again and again.  No client has to send or to hang up.
Fairness == /\ WF_vars(Server)
            /\ \A c \in Patient :
                 SF_vars(\E room \in SUBSET Pending : c \in room /\ Poll(room))

Spec == Init /\ [][Next]_vars /\ Fairness

-----------------------------------------------------------------------------
(* Properties *)

TypeOK ==
  /\ argc \in {1, 2} /\ {libdir, running, freeing} \subseteq BOOLEAN
  /\ pc \in {"start", "poll", "visit", "http_cb", "write", "close", "end", "crashed"}
  /\ ToSet(conns) \subseteq Client \cup {Listener} /\ IsInjective(conns)
  /\ IsSuffix(todo, conns) \/ pc \in {"visit", "http_cb", "write", "close"}
  /\ readable \cup writable \cup closing \subseteq Client \cup {Listener}
  /\ draining \subseteq Client /\ lost \subseteq Client \X Nat
  /\ \A c \in Client :
       /\ peer[c] \in {"away", "backlog", "open", "closed"} /\ hup[c] \in BOOLEAN
       /\ sent[c] \in Seq(Kind)
       /\ {inbox[c], conn[c].recv} \subseteq Seq(Fragment)
       /\ {got[c], conn[c].send} \subseteq Seq(Piece)
       /\ Len(conn[c].send) <= conn[c].size
       /\ \/ conn[c].file = NoFile
          \/ conn[c].file \in [req : 1 .. Len(sent[c]), left : 0 .. FileLen]

\* Clients that wait are served as Exchange promises, whatever the other
\* clients do on their connections and whoever stops the server.
Of(f) == [c \in Patient |-> f[c]]
Promise == INSTANCE Exchange WITH
  Client <- Patient, Kind <- Kind \ {"bad"},
  peer <- Of(peer), sent <- Of(sent), got <- Of(got), hup <- Of(hup)
ImplementsExchange == Promise!Spec

\* A client that waits for a reply gets all of it, or the connection ends;
\* unless accept fails for it for ever, for want of descriptors, or the only
\* thread never comes back from another client's request.
Answered ==
  \A c \in Patient :
    \/ []<>(peer[c] = "backlog" /\ Used >= FD_SETSIZE)
    \/ (peer[c] \in {"backlog", "open"} /\ got[c] # Replies(sent[c]))
       ~> (got[c] = Replies(sent[c]) \/ hup[c] \/ peer[c] = "closed" \/ Spins)

\* appmain's loop ends once any request has cleared `running`, no matter what
\* is still unsent, unread or being sent from a file; unless http_cb spins on
\* a request whose Content-Length takes back its header.
ServerEnds == ~running ~> (pc = "end" \/ Spins)

\* http_cb hands the requests to cb in the order in which the client sent them,
\* although it is called again for what it left over, and once more when the
\* connection closes; and every request once, but for one whose message is
\* empty.  (The end of a header that is split counts as a request.)
HandledInOrder ==
  \A c \in Client : \A i, j \in DOMAIN handled[c] :
    i < j => \/ handled[c][i].req < handled[c][j].req
             \/ handled[c][i].req = handled[c][j].req /\ handled[c][i].body = "endless"

\* A client gets the replies in the order of its requests, unless it sent a
\* request behind that of a static file and the two were read together: then
\* the later reply comes between the header and the body of the file.
RepliesInOrder ==
  \A c \in Client : \/ IsPrefix(got[c], Replies(sent[c]))
                    \/ \E i \in DOMAIN handled[c] : handled[c][i].how = "behind"

\* A request that has arrived is handled before select waits again, except
\* when it arrived behind the request of a static file: that one lies in the
\* buffer until the client sends something more or closes.
WaitsOnlyBehindFile ==
  \A c \in Client :
    LET r == conn[c].recv
    IN pc = "poll" /\ conn[c].file = NoFile /\ (Complete(r) \/ Malformed(c, r)) =>
         /\ handled[c] # <<>>
         /\ \/ KindOf(c, Last(handled[c]).req) = "file"
            \/ Last(handled[c]).how = "behind"

\* A static file stays open for ever only when the request of another file
\* was read together with its own, when its own was handled at the close, or
\* when http_cb hands its own over again; none of it happens to a client that
\* waits.
LostOnlyByHaste ==
  \A l \in lost :
    /\ l[1] \notin Patient
    /\ \E i \in DOMAIN handled[l[1]] :
         \/ handled[l[1]][i].how = "behind" /\ handled[l[1]][i].req > l[2]
         \/ handled[l[1]][i].how = "close" /\ handled[l[1]][i].req = l[2]
         \/ handled[l[1]][i].body = "endless" /\ handled[l[1]][i].req = l[2]

\* A handler sees a body that is cut off or has other requests in it only
\* when the client hung up, the server is stopping, or a HEAD came before;
\* or when the body is larger than the receive buffer.  (A body that has no
\* end takes nothing but a Content-Length below zero.)
CutOnlyAtTheEnd ==
  \A c \in Client : \A i \in DOMAIN handled[c] :
    handled[c][i].body \in {"cut", "swollen"} =>
      hup[c] \/ ~running \/ \E j \in 1 .. i - 1 : KindOf(c, handled[c][j].req) = "head"

\* "default port:%s" (a.c:64), and scr/run.sh, which starts without a port.
DefaultPortStarts == argc = 1 /\ libdir => pc # "crashed"
=============================================================================
