---------------------------- MODULE LiveSessions ----------------------------
(***************************************************************************)
(* The life of RTSP sessions: the request handlers of rtsp.c, the live     *)
(* source of live.c that implements a session's setup, play and teardown,  *)
(* the RTP endpoints of rtp.c, the interleaved channels a TCP connection   *)
(* lends to endpoints, and the distribution of a frame to the playing      *)
(* sessions (next_live_frame).                                             *)
(*                                                                         *)
(* Everything here runs in the event loop, so a handler is one step; only  *)
(* next_live_frame, whose walk of the session list deletes from that list, *)
(* takes one step per session, during which no other handler runs.         *)
(*                                                                         *)
(* The endpoint of track t of session s is named <<s, t>>.  One live       *)
(* source is modelled, and its tracks are the only destinations of their   *)
(* streams, so dest->waiting is also en->running.                          *)
(***************************************************************************)
EXTENDS Integers, Sequences, FiniteSets, Lists

CONSTANTS Sessions,     \* session objects malloc can return
          Conns,        \* TCP connections
          Tracks,       \* tracks with an rtp_media (rtp # NULL)
          MaxChannels,  \* MAX_INTERLEAVE_CHANNELS
          MaxConnNum,   \* source->u32MaxConnNum
          MaxCount,     \* bound on u32CurConn
          NoSession,    \* a NULL live_session
          NoEp          \* a NULL rtp_endpoint

ASSUME LiveAssumption == /\ MaxChannels \in Nat /\ MaxChannels % 2 = 0
                         /\ MaxConnNum \in Nat /\ MaxCount \in Nat
                         /\ NoSession \notin Sessions

VARIABLES sessList,     \* source->sess_list, newest first
          registered,   \* sessions with an rtsp_session in rtsp.c's sess_list
          playing,      \* sessions with ls->playing set
          ep,           \* ep[s][t]: transport of s->ep[t], or NoEp
          open,         \* connections in conn_list
          chan,         \* chan[c][k]: proto_state->ichan[k], or NoEp
          ready,        \* track->ready
          waiting,      \* track->stream->waiting
          curConn,      \* source->u32CurConn
          walkTrack,    \* next_live_frame: the frame's track ...
          walkAt,       \* ... and the session it visits next
          fed,          \* history: endpoints PLAYed while their track was ready
          owed,         \* history: endpoints the current frame must still reach
          extraPlays,   \* history: PLAYs of sessions that already played
          orphans       \* history: sessions of DESCRIBEs that were not authorised

vars == <<sessList, registered, playing, ep, open, chan, ready, waiting,
          curConn, walkTrack, walkAt, fed, owed, extraPlays, orphans>>
walkVars == <<walkTrack, walkAt, owed>>

Channels == 0 .. MaxChannels - 1
Opened == Elems(sessList)

Udp == [kind |-> "udp"]
Inter(c, k) == [kind |-> "inter", conn |-> c, rtp |-> k]
Transports == {Udp} \cup {Inter(c, k) : c \in Conns, k \in Channels}

\* What an interleaved channel is connected to.
Users == [ep : Sessions \X Tracks, rtcp : BOOLEAN]

ASSUME NamesAssumption == NoEp \notin Transports \cup Users

\* Handlers of the event loop run between two frames, never inside a walk.
Idle == walkAt = NoSession

NextOf(list, s) == LET i == CHOOSE j \in DOMAIN list : list[j] = s
                   IN  IF i = Len(list) THEN NoSession ELSE list[i + 1]

-----------------------------------------------------------------------------
(***************************************************************************)
(* live_teardown of the endpoints D, each followed by track_check_running; *)
(* a session left without endpoints is unlinked everywhere and freed.      *)
(***************************************************************************)
EpAfter(D) == [s \in Sessions |-> [t \in Tracks |->
                 IF <<s, t>> \in D THEN NoEp ELSE ep[s][t]]]

\* (Faulty: one endpoint torn down closes the session.)
Touched(D) == {s \in Opened : \E t \in Tracks : <<s, t>> \in D}

Emptied(D) == {s \in Opened : /\ \E t \in Tracks : <<s, t>> \in D
                              /\ \A t \in Tracks : EpAfter(D)[s][t] = NoEp}

\* track_check_running: somebody still plays track t.
TrackPlayed(e, t) == \E s \in Opened : s \in playing /\ e[s][t] # NoEp

\* (Faulty: the stream stops whoever else plays.)
WaitingStopped(D) == [t \in Tracks |-> waiting[t] /\ \A s \in Sessions : <<s, t>> \notin D]

WaitingAfter(D) == [t \in Tracks |->
    waiting[t] /\ ((\E s \in Sessions : <<s, t>> \in D) => TrackPlayed(EpAfter(D), t))]

\* del_rtp_endpoint: interleave_disconnect clears both channels.
ChanAfter(D) == [c \in Conns |-> [k \in Channels |->
    IF \E d \in D : /\ ep[d[1]][d[2]] # NoEp
                    /\ ep[d[1]][d[2]].kind = "inter"
                    /\ ep[d[1]][d[2]].conn = c
                    /\ k - ep[d[1]][d[2]].rtp \in {0, 1}
    THEN NoEp ELSE chan[c][k]]]

\* The connection count: one less per closed session that played, never below 0.
\* (Faulty: sessions that never played are discounted, with and without a floor.)
CountAllClosed(closed) == LET n == Cardinality(closed)
                          IN  IF curConn > n THEN curConn - n ELSE 0
CountWithoutFloor(closed) == curConn - Cardinality(closed)

CountAfter(closed) ==
    LET n == Cardinality(closed \cap playing)
    IN  IF curConn > n THEN curConn - n ELSE 0

Teardown(D) ==
    LET closed == Emptied(D)
    IN  /\ ep' = EpAfter(D)
        /\ chan' = ChanAfter(D)
        /\ waiting' = WaitingAfter(D)
        /\ curConn' = CountAfter(closed)
        /\ sessList' = Without(sessList, closed)
        /\ registered' = registered \ closed
        /\ playing' = playing \ closed
        /\ fed' = fed \ D

\* live_open refuses when the count has reached the limit; ls goes to the head.
MayOpen == curConn < MaxConnNum
FreshSession(s) == s \in Sessions \ Opened
OpenSession(s) == sessList' = <<s>> \o sessList

-----------------------------------------------------------------------------
\* do_accept
Accept(c) == /\ Idle
             /\ c \notin open
             /\ open' = open \cup {c}
             /\ UNCHANGED <<sessList, registered, playing, ep, chan, ready,
                            waiting, curConn, walkVars, fed, extraPlays, orphans>>

\* handle_DESCRIBE opens a session and tears it down again, which leaves no
\* trace; but a failed authentication returns before the teardown.
DescribeUnauthorized(s) ==
    /\ Idle
    /\ open # {}
    /\ MayOpen
    /\ FreshSession(s)
    /\ OpenSession(s)
    /\ orphans' = orphans \cup {s}
    /\ UNCHANGED <<registered, playing, ep, open, chan, ready, waiting, curConn,
                   walkVars, fed, extraPlays>>

\* rtsp_interleave_setup: the pair the client asks for must be free; a client
\* that asks for none gets the first free even pair, one of these.
\* (Faulty: the RTCP channel is not looked at.)
RtpChannelFree(c, k) == k + 1 \in Channels /\ chan[c][k] = NoEp

PairFree(c, k) == /\ k + 1 \in Channels
                  /\ chan[c][k] = NoEp
                  /\ chan[c][k + 1] = NoEp

\* handle_SETUP of track t, for a session the client names (s registered) or a
\* new one, over transport tr.  new_session and new_rtsp_session go with it.
SessionForSetup(s) == \/ s \in registered
                      \/ FreshSession(s) /\ MayOpen

SetupOver(c, s, t, tr) ==
    /\ Idle
    /\ c \in open
    /\ SessionForSetup(s)
    /\ ep[s][t] = NoEp
    /\ ep' = [ep EXCEPT ![s][t] = tr]
    /\ IF s \in registered THEN UNCHANGED sessList ELSE OpenSession(s)
    /\ registered' = registered \cup {s}
    /\ UNCHANGED <<playing, open, ready, waiting, curConn, walkVars, fed, extraPlays, orphans>>

SetupInterleaved(c, s, t, k) ==
    /\ PairFree(c, k)
    /\ SetupOver(c, s, t, Inter(c, k))
    /\ chan' = [chan EXCEPT ![c][k] = [ep |-> <<s, t>>, rtcp |-> FALSE],
                            ![c][k + 1] = [ep |-> <<s, t>>, rtcp |-> TRUE]]

SetupUdp(c, s, t) == /\ SetupOver(c, s, t, Udp)
                     /\ UNCHANGED chan

\* handle_SETUP whose transport fails: the endpoint made by live_setup is torn
\* down, track_check_running included, and a new session with it.
SetupFails(c, s, t) ==
    /\ Idle
    /\ c \in open
    /\ SessionForSetup(s)
    /\ ep[s][t] = NoEp
    /\ waiting' = [waiting EXCEPT ![t] = @ /\ TrackPlayed(ep, t)]
    /\ UNCHANGED <<sessList, registered, playing, ep, open, chan, ready, curConn,
                   walkVars, fed, extraPlays, orphans>>

\* handle_PLAY and live_play
Play(c, s) ==
    /\ Idle
    /\ c \in open
    /\ s \in registered
    /\ curConn < MaxCount
    /\ playing' = playing \cup {s}
    /\ curConn' = curConn + 1
    /\ waiting' = [t \in Tracks |-> waiting[t] \/ ep[s][t] # NoEp]
    /\ fed' = fed \cup {<<s, t>> : t \in {u \in Tracks : ep[s][u] # NoEp /\ ready[u]}}
    /\ extraPlays' = IF s \in playing THEN extraPlays + 1 ELSE extraPlays
    /\ UNCHANGED <<sessList, registered, ep, open, chan, ready, walkVars, orphans>>

\* handle_TEARDOWN of one track, or of the session: also when the track named
\* has no endpoint, for then the handler passes NULL.
EpsOf(s) == {<<s, t>> : t \in {u \in Tracks : ep[s][u] # NoEp}}

HandleTeardown(c, s) ==
    /\ Idle
    /\ c \in open
    /\ s \in registered
    /\ \/ Teardown(EpsOf(s))
       \/ \E t \in Tracks : ep[s][t] # NoEp /\ Teardown({<<s, t>>})
    /\ UNCHANGED <<open, ready, walkVars, extraPlays, orphans>>

\* udp_rtp_read, udp_rtcp_read and the RTCP timer: an error or a silent client
\* tears down one UDP endpoint.
UdpEndpointDies(s, t) ==
    /\ Idle
    /\ s \in Opened
    /\ ep[s][t] = Udp
    /\ Teardown({<<s, t>>})
    /\ UNCHANGED <<open, ready, walkVars, extraPlays, orphans>>

\* drop_conn and rtsp_conn_disconnect: the endpoints on the connection's RTP
\* channels are torn down, then the connection is freed.
EpsOn(c) == {chan[c][k].ep : k \in {i \in Channels : chan[c][i] # NoEp /\ ~chan[c][i].rtcp}}

DropConn(c) ==
    /\ Idle
    /\ c \in open
    /\ Teardown(EpsOn(c))
    /\ open' = open \ {c}
    /\ UNCHANGED <<ready, walkVars, extraPlays, orphans>>

-----------------------------------------------------------------------------
\* next_live_frame up to its loop, for a frame the track's rtp_media accepts.
\* The first one makes the track ready and stops the encoder.
Receivers(t) == {<<s, t>> : s \in {x \in Opened : x \in playing /\ ep[x][t] # NoEp}}

\* (Faulty: only the first frame of a track is accepted.)
FrameArrivesOnce(t) ==
    /\ ~ready[t]
    /\ Idle
    /\ waiting[t]
    /\ ready' = [ready EXCEPT ![t] = TRUE]
    /\ waiting' = [waiting EXCEPT ![t] = ready[t]]
    /\ walkTrack' = t
    /\ walkAt' = IF sessList = << >> THEN NoSession ELSE Head(sessList)
    /\ owed' = Receivers(t)
    /\ UNCHANGED <<sessList, registered, playing, ep, open, chan, curConn, fed,
                   extraPlays, orphans>>

FrameArrives(t) ==
    /\ Idle
    /\ waiting[t]
    /\ ready' = [ready EXCEPT ![t] = TRUE]
    /\ waiting' = [waiting EXCEPT ![t] = ready[t]]
    /\ walkTrack' = t
    /\ walkAt' = IF sessList = << >> THEN NoSession ELSE Head(sessList)
    /\ owed' = Receivers(t)
    /\ UNCHANGED <<sessList, registered, playing, ep, open, chan, curConn, fed,
                   extraPlays, orphans>>

\* One turn of the loop; ls->next is read before anything is sent.
\* (Faulty: ls->next is read afterwards; the loop ends at the first error.)
VisitNextLate == walkAt' = IF walkAt \in Elems(sessList')
                           THEN NextOf(sessList', walkAt) ELSE walkAt
VisitUntilError == walkAt' = IF sessList' = sessList
                             THEN NextOf(sessList, walkAt) ELSE NoSession
VisitNext == walkAt' = NextOf(sessList, walkAt)

Served == owed' = owed \ {<<walkAt, walkTrack>>}

VisitSends ==
    /\ ~Idle
    /\ UNCHANGED <<sessList, registered, playing, ep, open, chan, ready, waiting,
                   curConn, walkTrack, fed, extraPlays, orphans>>
    /\ Served
    /\ VisitNext

\* send_rtp_packet fails on a UDP endpoint and tears it down; interleave_send
\* never reports an error.
VisitFails ==
    /\ ~Idle
    /\ walkAt \in playing
    /\ ep[walkAt][walkTrack] = Udp
    /\ Teardown({<<walkAt, walkTrack>>})
    /\ UNCHANGED <<open, ready, walkTrack, extraPlays, orphans>>
    /\ Served
    /\ VisitNext

-----------------------------------------------------------------------------
\* set_track leaves every track waiting for its first frame.
Init == /\ sessList = << >>
        /\ registered = {} /\ playing = {} /\ open = {}
        /\ ep = [s \in Sessions |-> [t \in Tracks |-> NoEp]]
        /\ chan = [c \in Conns |-> [k \in Channels |-> NoEp]]
        /\ ready = [t \in Tracks |-> FALSE]
        /\ waiting = [t \in Tracks |-> TRUE]
        /\ curConn = 0
        /\ walkTrack \in Tracks /\ walkAt = NoSession
        /\ fed = {} /\ owed = {} /\ extraPlays = 0 /\ orphans = {}

Next == \/ \E c \in Conns : Accept(c) \/ DropConn(c)
        \/ \E s \in Sessions : DescribeUnauthorized(s)
        \/ \E c \in Conns, s \in Sessions : Play(c, s) \/ HandleTeardown(c, s)
        \/ \E c \in Conns, s \in Sessions, t \in Tracks :
              \/ SetupUdp(c, s, t) \/ SetupFails(c, s, t)
              \/ \E k \in Channels : SetupInterleaved(c, s, t, k)
        \/ \E s \in Sessions, t \in Tracks : UdpEndpointDies(s, t)
        \/ \E t \in Tracks : FrameArrives(t)
        \/ VisitSends \/ VisitFails

Spec == Init /\ [][Next]_vars

\* Encoders keep producing while they run, the event loop serves every readable
\* exchanger in turn (strong fairness: a frame's turn comes between the handlers
\* of other events), and the loop over sessions goes on.
Fairness == /\ \A t \in Tracks : SF_vars(FrameArrives(t))
            /\ WF_vars(VisitSends \/ VisitFails)

FairSpec == Spec /\ Fairness

-----------------------------------------------------------------------------
\* The type invariant of the session layer.
TypeOK == /\ sessList \in Seq(Sessions)
          /\ registered \subseteq Sessions /\ playing \subseteq Sessions
          /\ ep \in [Sessions -> [Tracks -> Transports \cup {NoEp}]]
          /\ open \subseteq Conns
          /\ chan \in [Conns -> [Channels -> Users \cup {NoEp}]]
          /\ ready \in [Tracks -> BOOLEAN] /\ waiting \in [Tracks -> BOOLEAN]
          /\ curConn \in 0 .. MaxCount
          /\ walkTrack \in Tracks /\ walkAt \in Sessions \cup {NoSession}
          /\ fed \subseteq Sessions \X Tracks /\ owed \subseteq Sessions \X Tracks
          /\ extraPlays \in Nat /\ orphans \subseteq Sessions

\* The ichan table of a connection and the transports of the endpoints agree:
\* no channel points to an endpoint that was freed or moved, none is shared,
\* and no endpoint sends on a connection that drop_conn has freed.
ChannelsMatch ==
    /\ \A c \in Conns, k \in Channels : chan[c][k] # NoEp =>
          LET e == chan[c][k].ep
          IN  /\ c \in open
              /\ ep[e[1]][e[2]] = Inter(c, IF chan[c][k].rtcp THEN k - 1 ELSE k)
    /\ \A s \in Sessions, t \in Tracks :
          ep[s][t] # NoEp /\ ep[s][t].kind = "inter" =>
             /\ chan[ep[s][t].conn][ep[s][t].rtp] = [ep |-> <<s, t>>, rtcp |-> FALSE]
             /\ chan[ep[s][t].conn][ep[s][t].rtp + 1] = [ep |-> <<s, t>>, rtcp |-> TRUE]

\* The lists of live.c and rtsp.c agree: a Session header names a session that
\* exists and owns an endpoint, sessions are listed once, and the endpoints and
\* the playing flag belong to sessions a client can still name.  No session
\* outlives its use: all that are listed can be named in a TEARDOWN, but for
\* those that a DESCRIBE without authorisation has left behind.
SessionsConsistent ==
    /\ \A i, j \in DOMAIN sessList : sessList[i] = sessList[j] => i = j
    /\ Opened = registered \cup orphans
    /\ registered \cap orphans = {}
    /\ playing \subseteq registered
    /\ \A s \in Sessions : s \in registered <=> \E t \in Tracks : ep[s][t] # NoEp

\* An encoder runs for those who play, and for nobody else.  Once PLAY was
\* answered for a ready track its encoder keeps running for that session: no
\* other session's TEARDOWN, disconnect, failed SETUP or send error
\* (track_check_running) takes the stream away.  (A PLAY before the first frame
\* has no such guarantee: next_live_frame then calls set_waiting(0).)  And after
\* the first frame an encoder runs only while somebody plays its track.
StreamsFollowPlayers ==
    /\ \A d \in fed : waiting[d[2]]
    /\ \A t \in Tracks : ready[t] /\ waiting[t] => TrackPlayed(ep, t)

\* u32CurConn counts the playing sessions, plus one for ever for each repeated
\* PLAY: live_play counts every PLAY, live_teardown discounts a session once.
CountCoversPlayers == curConn = Cardinality(playing) + extraPlays

\* next_live_frame never follows a pointer to a session that was freed.
WalkSafe == ~Idle => walkAt \in Opened

\* A frame reaches every session that plays its track when the walk starts,
\* whichever endpoints fail and are torn down on the way.
FrameReachesAll == Idle => owed = {}

\* A fed endpoint is sent frames again and again, as long as it lives.
PlayersServed == \A s \in Sessions, t \in Tracks :
    <<s, t>> \in fed ~> (<<s, t>> \in owed \/ <<s, t>> \notin fed)
=============================================================================
