----------------------------- MODULE RtpPackets ------------------------------
(***************************************************************************)
(* How a frame becomes RTP packets: jpeg_process_frame (rtp-jpeg.c) walks  *)
(* over the markers of a JPEG image and notes what the headers need, the   *)
(* loops of jpeg_send and rawaudio_send (rtp-rawaudio.c) cut the data, and *)
(* send_rtp_packet (rtp.c) numbers the packets.  What the walk has noted   *)
(* is kept from frame to frame.  An interleaved packet that finds no room  *)
(* is dropped without the loop's knowledge; a UDP error ends the loop and  *)
(* the endpoint.                                                           *)
(*                                                                         *)
(* Lengths are small numbers in place of bytes; Main, Restart and Tables   *)
(* stand for the 8, 4 and 132 bytes of the JPEG payload headers.           *)
(***************************************************************************)
EXTENDS Integers, Sequences

CONSTANTS MaxData,     \* ep->max_data_size
          Main,        \* length of the main JPEG header
          Restart,     \* length of the restart marker header
          Tables,      \* length of the quantization table headers
          Align,       \* channels * sampsize of the audio stream
          Lengths,     \* lengths of the data of a frame
          Images,      \* the images the encoder makes: sequences of markers
          SeqCount     \* 2^16

\* The markers, and "junk" where one is expected; "dqt16" is a table of another
\* precision, "sof2" an SOF0 header that parse_SOF refuses (a frame header with
\* another marker, 0xC2 among them, has no case and is skipped).
Markers == {"soi", "dqt", "dqt16", "sof", "sof2", "dht", "dri", "sos", "junk"}

\* The loops make progress only if a packet has room for more than headers.
ASSUME PacketAssumption ==
    /\ Main \in Nat /\ Restart \in Nat /\ Tables \in Nat
    /\ Align \in Nat \ {0} /\ SeqCount \in Nat \ {0, 1}
    /\ MaxData \in Nat /\ MaxData >= Align /\ MaxData > Main + Restart + Tables
    /\ Lengths \subseteq Nat \ {0}
    /\ Images \subseteq Seq(Markers)

\* A frame does not need more packets than there are sequence numbers: the first
\* one has the least room.  (In the code: 2^16 packets of 8192 bytes.)
ASSUME FrameAssumption ==
    \A n \in Lengths : n <= SeqCount * (MaxData - (Main + Restart + Tables))

\* The encoder is a baseline one: a frame header comes before the scan.  The walk
\* does not look for that.
ASSUME ImageAssumption ==
    \A ms \in Images : \A k \in 1 .. Len(ms) :
        ms[k] = "sos" => \E j \in 1 .. k - 1 : ms[j] \in {"sof", "sof2"}

VARIABLES media,     \* "jpeg", "audio", or "none" between frames
          len,       \* scan_data_len or rawaudio_len
          out,       \* struct rtp_jpeg: which frame each of its parts is of
          i,         \* the loop's offset
          hdrLen,    \* hdr_len
          hdrSent,   \* bytes of headers in the iovec (what vcnt stands for)
          seqnum,    \* ep->seqnum
          client,    \* what the client makes of this frame's packets
          size       \* history: payload bytes of the last packet

packetsVars == <<media, len, out, i, hdrLen, hdrSent, seqnum, client, size>>

\* A client expects the number after the last one it saw.  Its packets form a
\* chain when they start at offset 0 and no number is missing; the marker tells
\* it that the frame is complete.
NoPackets == [expect |-> 0, chain |-> FALSE, marked |-> FALSE, bytes |-> 0]

\* Whole samples only.
AudioLengths == {n \in Lengths : n % Align = 0}

-----------------------------------------------------------------------------
(***************************************************************************)
(* jpeg_process_frame.  A part of out is of "this" frame, of an "old" one, *)
(* or "none": bHasDRI = 0, a null pointer in quant.                        *)
(***************************************************************************)
Aged(part) == IF part = "this" THEN "old" ELSE part

\* At the start of a frame.  (Faulty: the tables are not cleared.)
NotCleared(o) == [quant |-> Aged(o.quant), sof |-> Aged(o.sof), dri |-> "none"]
Cleared(o) == [quant |-> "none", sof |-> Aged(o.sof), dri |-> "none"]

\* One turn of the loop.  parse_SOF wants the tables to be there.
Marker(w, m) ==
    IF w.state # "walk" THEN w ELSE
    CASE m = "dqt" -> [w EXCEPT !.out.quant = "this"]
      [] m = "sof" /\ w.out.quant # "none" -> [w EXCEPT !.out.sof = "this"]
      [] m = "dri" -> [w EXCEPT !.out.dri = "this"]
      [] m \in {"soi", "dht"} -> w
      [] m = "sos" -> [w EXCEPT !.state = "scan"]
      [] OTHER -> [w EXCEPT !.state = "refused"]

Walked(o, ms) ==
    LET walk[k \in 0 .. Len(ms)] ==
            IF k = 0 THEN [out |-> Cleared(o), state |-> "walk"]
            ELSE Marker(walk[k - 1], ms[k])
    IN  walk[Len(ms)]

\* next_live_frame gives a frame that was refused, or had no scan, to nobody.
JpegFrame(n, ms) ==
    LET w == Walked(out, ms)
    IN  /\ media = "none"
        /\ out' = w.out
        /\ \/ /\ w.state = "scan"
              /\ media' = "jpeg" /\ len' = n
              /\ i' = 0
              /\ hdrLen' = Main + (IF w.out.dri = "this" THEN Restart ELSE 0) + Tables
              /\ hdrSent' = hdrLen'
              /\ client' = NoPackets /\ size' = 0
           \/ /\ w.state # "scan"
              /\ UNCHANGED <<media, len, i, hdrLen, hdrSent, client, size>>
        /\ UNCHANGED seqnum

AudioFrame(n) ==
    /\ media = "none"
    /\ media' = "audio" /\ len' = n
    /\ i' = 0 /\ hdrLen' = 0 /\ hdrSent' = 0
    /\ client' = NoPackets /\ size' = 0
    /\ UNCHANGED <<seqnum, out>>

\* plen.  (Faulty: everything is cut between samples.)
Room == MaxData - hdrLen
Whole(n) == n - (n % Align)
PlenAligned == IF len - i > Room THEN Whole(Room) ELSE Whole(len - i)
Plen == IF len - i <= Room THEN len - i
        ELSE IF media = "jpeg" THEN Room ELSE Whole(Room)

\* The marker bit: the last packet of a JPEG frame; audio sets none.
LastOfFrame == media = "jpeg" /\ i + Plen = len

\* (seqnum + 1) & 0xFFFF.  (Faulty: it wraps one too early.)
NextSeqShort == (seqnum + 1) % (SeqCount - 1)
NextSeq == (seqnum + 1) % SeqCount

Receive == [expect |-> (seqnum + 1) % SeqCount,
            chain  |-> i = 0 \/ (client.chain /\ seqnum = client.expect),
            marked |-> LastOfFrame,
            bytes  |-> client.bytes + Plen]

\* From the second one on a JPEG packet has the main header, and the restart
\* header if there is one, but hdr_len counts the main header only.
LaterHeaders == IF media = "jpeg" THEN Main + (IF out.dri = "this" THEN Restart ELSE 0) ELSE 0

\* A packet is sent, or lost on the way (or for want of room in the send ring);
\* the loop goes on in either case.
SendPacket(arrives) ==
    /\ media # "none"
    /\ i < len
    /\ seqnum' = NextSeq
    /\ client' = IF arrives THEN Receive ELSE client
    /\ size' = hdrSent + Plen
    /\ i' = i + Plen
    /\ hdrSent' = LaterHeaders
    /\ hdrLen' = IF media = "jpeg" THEN Main ELSE 0
    /\ UNCHANGED <<media, len, out>>

\* The loop ends, or send_rtp_packet fails and the endpoint is gone; another
\* endpoint starts with a number of its own.
EndFrame == /\ media # "none"
            /\ i >= len
            /\ media' = "none"
            /\ UNCHANGED <<len, out, i, hdrLen, hdrSent, seqnum, client, size>>

SendFails == /\ media # "none"
             /\ i < len
             /\ media' = "none"
             /\ seqnum' \in 0 .. SeqCount - 1
             /\ client' = NoPackets /\ size' = 0
             /\ UNCHANGED <<len, out, i, hdrLen, hdrSent>>

-----------------------------------------------------------------------------
PacketsInit == /\ media = "none" /\ len = 0
               /\ out = [quant |-> "none", sof |-> "none", dri |-> "none"]
               /\ i = 0 /\ hdrLen = 0 /\ hdrSent = 0
               /\ seqnum \in 0 .. SeqCount - 1
               /\ client = NoPackets /\ size = 0

Loop == EndFrame \/ \E arrives \in BOOLEAN : SendPacket(arrives)

PacketsNext == \/ \E n \in Lengths, ms \in Images : JpegFrame(n, ms)
               \/ \E n \in AudioLengths : AudioFrame(n)
               \/ Loop \/ SendFails

PacketsSpec == PacketsInit /\ [][PacketsNext]_packetsVars

\* The loops of jpeg_send and rawaudio_send run on.
PacketsFairSpec == PacketsSpec /\ WF_packetsVars(Loop)

-----------------------------------------------------------------------------
\* After the last packet of a JPEG frame the client knows what it has: its
\* packets form a chain up to the marker if and only if they are all the bytes of
\* the frame.  It never takes a damaged frame for a whole one, nor a whole one
\* for a damaged one, whichever packets were lost and wherever seqnum wraps.
LossIsVisible ==
    media = "jpeg" /\ i = len =>
        ((client.chain /\ client.marked) <=> client.bytes = len)

\* The headers of every JPEG packet are made of the tables, the dimensions and
\* the restart interval of the frame whose data it carries, not of what an
\* earlier frame, or one that was refused half-way, has left in the structure:
\* its tables lie in a frame that has been given back (jpeg_process_frame).
HeadersOfThisFrame ==
    media = "jpeg" => /\ out.quant = "this" /\ out.sof = "this"
                      /\ out.dri \in {"this", "none"}

\* Every frame is sent to its end: each turn of the loops makes progress.
LoopEnds == media # "none" ~> media = "none"

\* No packet is larger than max_data_size, which rtp.c calls the maximum.
WithinMaximum == size <= MaxData
=============================================================================
