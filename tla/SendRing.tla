------------------------------ MODULE SendRing ------------------------------
(***************************************************************************)
(* The sending side of a TCP connection: the ring send_buf of tcp.c, the   *)
(* replies queued by tcp_send_pmsg and send_data, the interleaved packets  *)
(* of rtsp.c's interleave_send, which flushes the ring itself when it is   *)
(* short of room, and conn_write, which drains it when the socket allows.  *)
(*                                                                         *)
(* A callback is one step, except for the two loops around write(): these  *)
(* go round once per step, and meanwhile the event loop does nothing else. *)
(* A write that meets EAGAIN is retried at once (the code spins), which is *)
(* a step that cannot be taken until the client has read something.        *)
(*                                                                         *)
(* A byte is <<m, i>>: byte i of message m, m being reused after a while.  *)
(***************************************************************************)
EXTENDS Integers, Sequences

CONSTANTS Size,      \* sizeof(c->send_buf)
          HeadLen,   \* the 4 bytes in front of an interleaved packet
          Bodies,    \* lengths of packets and reply bodies
          Headers,   \* lengths of reply headers
          Window,    \* bytes the socket takes before the client reads
          Marks      \* message numbers before they are reused

ASSUME RingAssumption ==
    /\ Size \in Nat \ {0} /\ HeadLen \in Nat \ {0}
    /\ Bodies \subseteq Nat \ {0} /\ Headers \subseteq Nat \ {0}
    /\ Window \in Nat \ {0} /\ Marks \in Nat \ {0}

\* A reply fits an empty ring.
ASSUME ReplyAssumption == \A h \in Headers, b \in Bodies \cup {0} : h + b < Size

VARIABLES r, w,       \* send_buf_r and send_buf_w
          buf,        \* send_buf
          armed,      \* write_event is enabled
          dropAfter,  \* drop_after
          open,       \* the connection is in conn_list
          phase,      \* "idle", or the loop around write() being run
          packet,     \* length of the packet interleave_send holds, or 0
          room,       \* bytes the socket still takes
          mark,       \* history: number of the next message
          q           \* history: bytes accepted and not yet written

vars == <<r, w, buf, armed, dropAfter, open, phase, packet, room, mark, q>>
ring == <<r, w, buf, armed>>

Index == 0 .. Size - 1
Byte == (0 .. Marks - 1) \X Nat

\* avail_send_buf.
Avail(wr) == IF r > wr THEN r - wr - 1 ELSE Size - wr + r - 1

\* Bytes from..to of the current message.
Bytes(from, to) == [i \in 1 .. to - from + 1 |-> <<mark, from + i - 1>>]

\* The ring with d stored at w.
Stored(s, d) == [k \in Index |->
                   LET i == (k - s.w + Size) % Size
                   IN  IF i < Len(d) THEN d[i + 1] ELSE s.buf[k]]

\* send_data: all of d or, when it does not fit, none of it.
\* (Faulty: the write event is left as it is.)
SendDataUnarmed(s, d) ==
    IF Avail(s.w) < Len(d) THEN s
    ELSE [w |-> (s.w + Len(d)) % Size, buf |-> Stored(s, d), armed |-> s.armed]
SendData(s, d) ==
    IF Avail(s.w) < Len(d) THEN s
    ELSE [w |-> (s.w + Len(d)) % Size,
          buf |-> Stored(s, d),
          armed |-> TRUE]

Ring == [w |-> w, buf |-> buf, armed |-> armed]

\* A message sent as two pieces.  For the history it was accepted whole.
SendBoth(a, b) ==
    LET s == SendData(SendData(Ring, Bytes(1, a)), Bytes(a + 1, a + b))
    IN  /\ w' = s.w /\ buf' = s.buf /\ armed' = s.armed
        /\ q' = q \o Bytes(1, a + b)
        /\ mark' = (mark + 1) % Marks
        /\ UNCHANGED r

Refused == UNCHANGED <<ring, q, mark>>

Idle == open /\ phase = "idle"

-----------------------------------------------------------------------------
\* tcp_send_pmsg and the body its caller sends after it; a reply that does not
\* fit is dropped.
ReplyFits(h, b) == Avail(w) >= h + b

SendReply(h, b) ==
    /\ Idle
    /\ IF ReplyFits(h, b) THEN SendBoth(h, b) ELSE Refused
    /\ UNCHANGED <<dropAfter, open, phase, packet, room>>

\* http_send_error, handle_QT_tunnel: the connection is to be dropped once the
\* reply is out.
SendLastReply(h, b) ==
    /\ Idle
    /\ dropAfter' = TRUE
    /\ IF ReplyFits(h, b) THEN SendBoth(h, b) ELSE Refused
    /\ UNCHANGED <<open, phase, packet, room>>

\* interleave_send, at once when there is room ...
\* (Faulty: the head is not counted.)
BodyFits(b) == Avail(w) >= b
PacketFits(b) == Avail(w) >= HeadLen + b

InterleaveSend(b) ==
    /\ Idle
    /\ IF PacketFits(b)
         THEN SendBoth(HeadLen, b) /\ UNCHANGED <<phase, packet>>
         ELSE phase' = "flush" /\ packet' = b /\ Refused
    /\ UNCHANGED <<dropAfter, open, room>>

\* ... or after tcp_conn_flush, whose outcome decides: the packet is queued or
\* dropped, and the sender is not told which.
FlushReturns ==
    /\ phase = "flush"
    /\ IF PacketFits(packet) THEN SendBoth(HeadLen, packet) ELSE Refused
    /\ phase' = "idle"
    /\ packet' = 0
    /\ UNCHANGED <<dropAfter, open, room>>

FlushEnds == r = w /\ FlushReturns

\* write() fails, or returns 0.
FlushFails == r # w /\ FlushReturns

-----------------------------------------------------------------------------
\* write() takes 1 to Contiguous bytes, as many as the socket has room for.
Contiguous == IF w < r THEN Size - r ELSE w - r
\* What write() may take.  (Faulty: a partial write is not accepted.)
WholeRest == {Contiguous}
Writable == 1 .. Contiguous

\* (Faulty: r runs over the end of the ring.)
AdvancePastEnd(n) == IF r + n > Size THEN 0 ELSE r + n
Advance(n) == IF r + n = Size THEN 0 ELSE r + n

WriteSome ==
    /\ phase \in {"write", "flush"}
    /\ r # w
    /\ \E n \in Writable :
         /\ n <= room
         /\ r' = Advance(n)
         /\ room' = room - n
         /\ q' = SubSeq(q, n + 1, Len(q))
    /\ UNCHANGED <<w, buf, armed, dropAfter, open, phase, packet, mark>>

\* The event loop calls conn_write.
ConnWrite ==
    /\ Idle
    /\ armed
    /\ phase' = "write"
    /\ UNCHANGED <<ring, dropAfter, open, packet, room, mark, q>>

Closed == /\ open' = FALSE
          /\ phase' = "idle"
          /\ armed' = FALSE
          /\ dropAfter' = FALSE
          /\ r' = 0 /\ w' = 0
          /\ q' = << >>
          /\ packet' = 0
          /\ UNCHANGED <<buf, room, mark>>

\* The ring is empty.  (Faulty: a connection to be dropped waits for another
\* call.)
WriteEndsWaiting ==
    /\ phase = "write"
    /\ r = w
    /\ armed' = dropAfter
    /\ phase' = "idle"
    /\ UNCHANGED <<r, w, buf, dropAfter, open, packet, room, mark, q>>

WriteEnds ==
    /\ phase = "write"
    /\ r = w
    /\ IF dropAfter THEN Closed
       ELSE /\ armed' = FALSE
            /\ phase' = "idle"
            /\ UNCHANGED <<r, w, buf, dropAfter, open, packet, room, mark, q>>

WriteFails == phase = "write" /\ r # w /\ Closed

\* do_read meets an error, the end of the stream or a malformed request.
DropConn == Idle /\ Closed

\* do_accept
Accept ==
    /\ ~open
    /\ open' = TRUE
    /\ r' = 0 /\ w' = 0
    /\ armed' = FALSE
    /\ dropAfter' = FALSE
    /\ room' = Window
    /\ UNCHANGED <<buf, phase, packet, mark, q>>

\* The client reads what the socket holds.
ClientReads == /\ open
               /\ room < Window
               /\ room' = Window
               /\ UNCHANGED <<ring, dropAfter, open, phase, packet, mark, q>>

-----------------------------------------------------------------------------
Init == /\ r = 0 /\ w = 0
        /\ buf = [k \in Index |-> <<0, 0>>]
        /\ armed = FALSE /\ dropAfter = FALSE /\ open = FALSE
        /\ phase = "idle" /\ packet = 0
        /\ room = Window
        /\ mark = 0 /\ q = << >>

Writes == WriteSome \/ WriteEnds \/ FlushEnds

Next == \/ \E h \in Headers, b \in Bodies \cup {0} :
              SendReply(h, b) \/ SendLastReply(h, b)
        \/ \E b \in Bodies : InterleaveSend(b)
        \/ Writes \/ FlushFails \/ WriteFails
        \/ ConnWrite \/ DropConn \/ Accept \/ ClientReads

Spec == Init /\ [][Next]_vars

\* The event loop calls conn_write again and again between other callbacks, the
\* loops around write() go on, and the client keeps reading.
FairSpec == Spec /\ SF_vars(ConnWrite) /\ SF_vars(Writes) /\ WF_vars(ClientReads)

-----------------------------------------------------------------------------
\* The type invariant of the sending side.
TypeOK == /\ r \in Index /\ w \in Index
          /\ buf \in [Index -> Byte]
          /\ armed \in BOOLEAN /\ dropAfter \in BOOLEAN /\ open \in BOOLEAN
          /\ phase \in {"idle", "write", "flush"}
          /\ packet \in Bodies \cup {0}
          /\ room \in 0 .. Window
          /\ mark \in 0 .. Marks - 1
          /\ q \in Seq(Byte)

\* The ring from send_buf_r to send_buf_w.
Content == [i \in 1 .. (w - r + Size) % Size |-> buf[(r + i - 1) % Size]]

\* The ring holds what was accepted and not yet written, in order, each message
\* whole: no reply or packet is torn, overwritten or written twice, wherever the
\* ring wraps and however the writes split it.
RingHoldsQueue == Content = q

\* Whatever waits to be written, or to be dropped afterwards, the event loop is
\* asked to call conn_write.
WriteEventArmed == Idle /\ (q # << >> \/ dropAfter) => armed

\* As long as the client reads, what was queued leaves and the loop around
\* write() lets the event loop go on.
QueueDrains == /\ q # << >> ~> q = << >>
               /\ phase # "idle" ~> phase = "idle"

\* A connection to be dropped is dropped.
DropHappens == dropAfter ~> ~open
=============================================================================
