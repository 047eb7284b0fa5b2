---------------------------- MODULE RequestBuffer ----------------------------
(***************************************************************************)
(* The receiving side of the TCP connections, tcp.c: do_read collects what *)
(* a socket has in req_buf, parse_client_data decides whether that holds a *)
(* request or an interleaved packet, and handle_request dispatches it.  An *)
(* RTSP-over-HTTP tunnel joins two sockets: the connection of the GET      *)
(* adopts the descriptor of a POST with the same cookie as its second_fd   *)
(* and decodes what it reads from base64.                                  *)
(*                                                                         *)
(* The client sends numbered items.  An item is a few pieces, the unit in  *)
(* which TCP may split it: a request's first piece holds its first line,   *)
(* its last one the empty line that ends it; a packet's first piece holds  *)
(* the '$' and the length.  A "tunnel" item is a request in base64: four   *)
(* characters that decode to three pieces.  A connection is named by the   *)
(* descriptor it was accepted on; all tunnels use one cookie.              *)
(***************************************************************************)
EXTENDS Integers, Sequences, FiniteSets

CONSTANTS Fds,         \* descriptors of accepted sockets
          None,        \* a descriptor that is not there (-1)
          Kinds,       \* Kinds[f]: kinds of items clients send over f
          ReqSize,     \* sizeof(c->req_buf), in pieces
          MaxItems,    \* bound: items sent over a socket
          MaxPending   \* bound: items not yet dispatched, over all sockets

AllKinds == {"rtsp", "http", "bad", "packet", "long", "get", "post", "tunnel"}

ASSUME RequestAssumption ==
    /\ Fds \subseteq Nat /\ None \notin Fds
    /\ Kinds \in [Fds -> SUBSET AllKinds]
    /\ ReqSize \in Nat \ {0} /\ MaxItems \in Nat /\ MaxPending \in Nat

VARIABLES list,      \* conn_list, the newest connection first
          conn,      \* struct conn of each connection
          events,    \* the read events: descriptor, connection, second or not
          opened,    \* descriptors that are open
          wire,      \* wire[f]: pieces in the socket of f
          last,      \* last[f]: the kind the client sent last on f
          polite,    \* clients wait for the answer to each item
          sent,      \* sent[f]: number of items sent over f
          done,      \* done[f]: the last item of f given to a handler
          pending    \* items not dispatched, of sockets still open

vars == <<list, conn, events, opened, wire, last, polite, sent, done,
          pending>>

\* do_accept's connection.
Fresh == [second |-> None, cookie |-> FALSE, base64_count |-> -1,
          buf |-> << >>, proto |-> "start"]

\* A "long" item does not fit the buffer.
Parts(kind) == CASE kind = "long" -> ReqSize [] kind = "tunnel" -> 3 [] OTHER -> 2
Chars == 4

IsFirst(p) == p.part = 1
IsLast(p) == p.part = Parts(p.kind)

Conns == {list[i] : i \in DOMAIN list}

-----------------------------------------------------------------------------
(***************************************************************************)
(* The client.  A polite one waits until its last item was dispatched;     *)
(* packets go over a connection that has seen an RTSP request, base64 over *)
(* one that has sent a POST, and nothing follows a GET.                    *)
(***************************************************************************)
Waits(f) == \E p \in pending : p.fd = f

MaySend(f, kind) ==
    /\ last[f] # "get"
    /\ (kind = "tunnel") = (last[f] \in {"post", "tunnel"})
    /\ kind = "packet" => conn[f].proto = "rtsp" /\ last[f] \in {"rtsp", "packet"}
    /\ polite => ~Waits(f)

ClientSends(f, kind) ==
    /\ f \in opened
    /\ sent[f] < MaxItems
    /\ Cardinality(pending) < MaxPending
    /\ MaySend(f, kind)
    /\ sent' = [sent EXCEPT ![f] = @ + 1]
    /\ last' = [last EXCEPT ![f] = kind]
    /\ wire' = [wire EXCEPT ![f] = @ \o
                  [i \in 1 .. IF kind = "tunnel" THEN Chars ELSE Parts(kind) |->
                      [item |-> sent[f] + 1, kind |-> kind, part |-> i, fd |-> f]]]
    /\ pending' = pending \cup {[item |-> sent[f] + 1, fd |-> f]}
    /\ UNCHANGED <<list, conn, events, opened, polite, done>>

\* do_accept: the kernel gives the lowest descriptor that is not open.
Accept(f) ==
    /\ f \notin opened
    /\ \A g \in Fds \ opened : f <= g
    /\ opened' = opened \cup {f}
    /\ list' = <<f>> \o list
    /\ conn' = [conn EXCEPT ![f] = Fresh]
    /\ events' = events \cup {[fd |-> f, conn |-> f, second |-> FALSE]}
    /\ UNCHANGED <<wire, last, polite, sent, done, pending>>

-----------------------------------------------------------------------------
\* What a turn of do_read on f does to the sockets: n pieces are taken, the
\* descriptors in closed are closed, and the items in served are dispatched.
Sockets(f, n, closed, served) ==
    /\ opened' = opened \ closed
    /\ wire' = [g \in Fds |-> IF g \in closed THEN << >>
                              ELSE IF g = f THEN SubSeq(wire[f], n + 1, Len(wire[f]))
                              ELSE wire[g]]
    /\ pending' = {p \in pending \ served : p.fd \notin closed}
    /\ sent' = [g \in Fds |-> IF g \in closed THEN 0 ELSE sent[g]]
    /\ done' = [g \in Fds |-> IF g \in closed THEN 0
                              ELSE IF \E p \in served : p.fd = g
                                   THEN (CHOOSE p \in served : p.fd = g).item
                              ELSE done[g]]
    /\ last' = [g \in Fds |-> IF g \in closed THEN "none" ELSE last[g]]
    /\ UNCHANGED polite

\* drop_conn: the descriptors it closes, and the events it removes.
FdsOf(c) == {c, conn[c].second} \ {None}
EventsOf(c) == {e \in events : e.conn = c}

Unlinked(c) == LET i == CHOOSE i \in DOMAIN list : list[i] = c
               IN  SubSeq(list, 1, i - 1) \o SubSeq(list, i + 1, Len(list))

Drop(c, f) ==
    /\ list' = Unlinked(c)
    /\ conn' = [conn EXCEPT ![c] = Fresh]
    /\ events' = events \ EventsOf(c)
    /\ Sockets(f, 0, FdsOf(c), {})

\* When the second socket of c ends, what its buffer holds stays there; it is
\* no item of an open socket any more.
Orphaned(c) == [i \in DOMAIN conn[c].buf |-> [conn[c].buf[i] EXCEPT !.fd = None, !.item = 0]]

\* read() of a first socket fails, its client closes it, or conn_write drops
\* the connection; of a second socket only that one is given up, and neither
\* req_len nor base64_count is reset.
SocketEnds(e) ==
    \/ ~e.second /\ Drop(e.conn, e.fd)
    \/ /\ e.second
       /\ conn' = [conn EXCEPT ![e.conn].second = None,
                               ![e.conn].buf = Orphaned(e.conn)]
       /\ events' = events \ {e}
       /\ Sockets(e.fd, 0, {e.fd}, {})
       /\ UNCHANGED list

-----------------------------------------------------------------------------
(***************************************************************************)
(* unbase64 of characters s: every whole group of four decodes to three    *)
(* pieces, those of a request if the group is one, and others if not; the  *)
(* characters of the last, incomplete group stay behind them.              *)
(***************************************************************************)
Aligned(s, g) == \A i \in 1 .. Chars : /\ s[g + i].part = i
                                       /\ s[g + i].item = s[g + 1].item

Junk == [item |-> 0, kind |-> "tunnel", part |-> 2, fd |-> None]

Group(i) == ((i - 1) \div 3) * Chars

Decoded(s) == [i \in 1 .. 3 * (Len(s) \div Chars) |->
                 IF Aligned(s, Group(i))
                 THEN [s[Group(i) + 1] EXCEPT !.part = ((i - 1) % 3) + 1]
                 ELSE Junk]

Remain(s) == Len(s) % Chars

\* (Faulty: the characters left from the last read are decoded again, without
\* taking them off the buffer first.)
KeepLeftover(c) == conn[c].buf
Settled(c) == LET n == Len(conn[c].buf) - conn[c].base64_count
              IN  SubSeq(conn[c].buf, 1, n)

\* The buffer of c and its base64_count when the pieces s have arrived.
Received(c, s) ==
    IF conn[c].base64_count < 0
    THEN [buf |-> conn[c].buf \o s, left |-> -1]
    ELSE LET n == Len(conn[c].buf) - conn[c].base64_count
             t == SubSeq(conn[c].buf, n + 1, Len(conn[c].buf)) \o s
         IN  [buf |-> Settled(c) \o Decoded(t)
                        \o SubSeq(t, Len(t) - Remain(t) + 1, Len(t)),
              left |-> Remain(t)]

(***************************************************************************)
(* parse_client_data on the buffer b of c, which starts with b[1].         *)
(***************************************************************************)
\* CONN_PROTO_START: the first line names the protocol, or does not.
StartProto(c, p) == IF conn[c].proto # "start" THEN conn[c].proto
                    ELSE IF p.kind \in {"http", "get", "post"} THEN "http"
                    ELSE "rtsp"

BadStart(c, b) == conn[c].proto = "start" /\ b[1].kind = "bad"

\* An interleaved packet at the front of an RTSP connection's buffer.
PacketFirst(c, b) == /\ IsFirst(b[1]) /\ b[1].kind = "packet"
                     /\ StartProto(c, b[1]) = "rtsp"

\* The end of the item at the front, or of any request (strstr), is there.
Complete(c, b) == IF PacketFirst(c, b) THEN Len(b) >= Parts("packet")
                  ELSE \E i \in DOMAIN b : IsLast(b[i]) /\ b[i].kind # "packet"

\* c->req_len = 0 deletes the request and whatever follows it.
\* (Faulty: it is forgotten.)
KeptWhole(b) == b
Kept(b) == << >>

Unparsable(b) == b[1].kind = "bad" \/ ~IsFirst(b[1])

\* The item at the front, if it is one: what starts in the middle of an item
\* is refused by parse_pmsg, or dispatched as a request nobody sent.
Front(b) == {[item |-> p.item, fd |-> p.fd] : p \in {q \in {b[1]} : IsFirst(q)}}

\* handle_QT_tunnel, GET: the connection becomes an RTSP one read in base64.
Tunnelled(c, b) == [conn[c] EXCEPT !.cookie = TRUE, !.base64_count = 0,
                                   !.proto = "rtsp", !.buf = Kept(b)]

\* Any other dispatch: http_handle_msg, rtsp_handle_msg, interleave_recv.
Served(c, b, left) == [conn[c] EXCEPT !.buf = Kept(b), !.base64_count = left,
                                      !.proto = StartProto(c, b[1])]

IsTunnel(c, b, kind) == /\ IsFirst(b[1]) /\ b[1].kind = kind
                        /\ StartProto(c, b[1]) = "http"

\* The connection of the GET: the newest that has the cookie.
WithCookie == {i \in DOMAIN list : conn[list[i]].cookie}
TunnelOf == list[CHOOSE i \in WithCookie : \A j \in WithCookie : i <= j]

\* handle_QT_tunnel, POST: cg adopts the descriptor of c in place of the one
\* it had; then handle_POST fails, and drop_conn drops c without it.
\* (Faulty: the second descriptor cg had is not closed.)
KeepOldSecond(cg) == {}
OldSecond(cg) == {conn[cg].second} \ {None}

\* (Faulty: the event of the second descriptor cg had is not removed.)
KeepOldEvent(cg) == {}
OldSecondEvent(cg) == {e \in events : e.conn = cg /\ e.second}

Adopt(c, f, n, b) ==
    LET cg == TunnelOf
    IN  /\ conn' = [conn EXCEPT ![c] = Fresh, ![cg].second = f,
                                ![cg].buf = Orphaned(cg)]
        /\ events' = (events \ (EventsOf(c) \cup OldSecondEvent(cg)))
                       \cup {[fd |-> f, conn |-> cg, second |-> TRUE]}
        /\ list' = Unlinked(c)
        /\ Sockets(f, n, OldSecond(cg), Front(b))

Dispatch(c, f, n, b, left) ==
    IF IsTunnel(c, b, "post") /\ WithCookie # {} THEN Adopt(c, f, n, b)
    ELSE /\ conn' = [conn EXCEPT ![c] = IF IsTunnel(c, b, "get")
                                        THEN Tunnelled(c, b)
                                        ELSE Served(c, b, left)]
         /\ Sockets(f, n, {}, Front(b))
         /\ UNCHANGED <<list, events>>

\* Nothing to dispatch yet, or characters of a group are missing.
Wait(c, f, n, b, left) ==
    /\ conn' = [conn EXCEPT ![c].buf = b, ![c].base64_count = left,
                    ![c].proto = IF left > 0 THEN @ ELSE StartProto(c, b[1])]
    /\ Sockets(f, n, {}, {})
    /\ UNCHANGED <<list, events>>

\* One turn of do_read's loop for the event e: n pieces arrive.
Full(b) == Len(b) = ReqSize - 1

Read(e, n) ==
    LET c == e.conn
        f == e.fd
        r == Received(c, SubSeq(wire[f], 1, n))
        b == r.buf
    IN  /\ n \in 1 .. Len(wire[f])
        /\ Len(conn[c].buf) + n < ReqSize
        /\ \/ /\ \/ Full(b)
                 \/ r.left <= 0 /\ BadStart(c, b)
                 \/ r.left <= 0 /\ Complete(c, b) /\ Unparsable(b)
              /\ Drop(c, f)
           \/ /\ ~Full(b) /\ r.left <= 0 /\ Complete(c, b)
              /\ b[1].kind # "bad"
              /\ Dispatch(c, f, n, b, r.left)
           \/ /\ ~Full(b) /\ (r.left <= 0 => ~Complete(c, b) /\ ~BadStart(c, b))
              /\ Wait(c, f, n, b, r.left)

-----------------------------------------------------------------------------
Init == /\ list = << >> /\ conn = [f \in Fds |-> Fresh]
        /\ events = {} /\ opened = {}
        /\ wire = [f \in Fds |-> << >>] /\ last = [f \in Fds |-> "none"]
        /\ polite \in BOOLEAN
        /\ sent = [f \in Fds |-> 0] /\ done = [f \in Fds |-> 0]
        /\ pending = {}

ReadOn(f) == \E e \in events, n \in 1 .. ReqSize : e.fd = f /\ Read(e, n)

Next == \/ \E f \in Fds : \E kind \in Kinds[f] : ClientSends(f, kind)
        \/ \E f \in Fds : Accept(f) \/ ReadOn(f)
        \/ \E e \in events : SocketEnds(e)

Spec == Init /\ [][Next]_vars

\* The event loop calls do_read for every socket that has something.
FairSpec == Spec /\ \A f \in Fds : WF_vars(ReadOn(f))

-----------------------------------------------------------------------------
Pieces == (UNION {{conn[c].buf[i] : i \in DOMAIN conn[c].buf} : c \in Conns})
            \cup (UNION {{wire[f][i] : i \in DOMAIN wire[f]} : f \in Fds})

\* Nothing is dispatched twice or out of the order it was sent over its
\* socket: an item whose beginning is still in a buffer or in the socket is
\* later than the last one dispatched, however the stream is split, also when
\* parts of it are thrown away with the buffer, and when a tunnel's socket is
\* replaced in the middle of an item (do_read, parse_client_data).
DispatchedInOrder ==
    \A p \in Pieces : IsFirst(p) /\ p.fd \in Fds => p.item > done[p.fd]

\* Every descriptor that is open belongs to exactly one connection of
\* conn_list, as its own or as the second one adopted from a POST, and no
\* connection holds a descriptor that was closed (handle_QT_tunnel and
\* drop_conn).
SocketsOwned ==
    /\ opened = UNION {FdsOf(c) : c \in Conns}
    /\ \A c, d \in Conns : c # d => FdsOf(c) \cap FdsOf(d) = {}
    /\ \A c \in Conns : conn[c].second # c

\* Every open descriptor has one read event, which calls do_read with the
\* connection that owns it, for the right one of its two sockets; no event
\* outlives its connection (handle_QT_tunnel, do_read and drop_conn).
EventsWatchSockets ==
    /\ \A f \in opened : Cardinality({e \in events : e.fd = f}) = 1
    /\ \A e \in events : /\ e.conn \in Conns
                         /\ e.fd = IF e.second THEN conn[e.conn].second ELSE e.conn

HoldsOrphan(c) == \E i \in DOMAIN conn[c].buf : conn[c].buf[i].fd = None

\* Every item of a client that waits for its answers is dispatched, unless the
\* socket is closed, however its pieces arrive and whatever other connections
\* do; a tunnel that still holds part of an item of an ended second socket is
\* excepted (do_read does not reset req_len and base64_count).
ItemDispatched == \A f \in Fds :
    polite /\ Waits(f) ~> ~Waits(f) \/ \E c \in Conns : f \in FdsOf(c) /\ HoldsOrphan(c)

\* The comments of parse_client_data say that only the request (the packet)
\* should be deleted from the buffer: then no item that was not dispatched
\* disappears from it.
OnlyRequestDeleted == \A q \in pending :
    \E p \in Pieces : p.item = q.item /\ p.fd = q.fd
=============================================================================
