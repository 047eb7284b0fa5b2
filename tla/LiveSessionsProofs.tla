------------------------- MODULE LiveSessionsProofs --------------------------
(***************************************************************************)
(* Proofs about LiveSessions for any number of sessions, connections,      *)
(* tracks and channels.                                                    *)
(***************************************************************************)
EXTENDS LiveSessions, ListsProofs, FiniteSetTheorems, TLAPS

\* An endpoint that exists.
Exists(d) == d \in Sessions \X Tracks /\ ep[d[1]][d[2]] # NoEp

\* The pair of an interleaved transport lies within ichan.
PairsInside == \A s \in Sessions, t \in Tracks :
    ep[s][t] # NoEp /\ ep[s][t].kind = "inter" => ep[s][t].rtp + 1 \in Channels

\* A channel is connected to an endpoint that exists.
UsersExist == \A c \in Conns, k \in Channels : chan[c][k] # NoEp => Exists(chan[c][k].ep)

ChannelInv == ChannelsMatch /\ PairsInside /\ UsersExist

\* An endpoint that is fed exists, its session plays and its track is ready.
FedInv ==
    /\ \A d \in fed : Exists(d) /\ d[1] \in playing /\ ready[d[2]]
    /\ StreamsFollowPlayers

CountInv == IsFiniteSet(playing) /\ CountCoversPlayers

\* What the frame must still reach lies ahead of the walk.
Ahead == ~Idle => \A d \in owed : d[2] = walkTrack /\ d[1] \in From(sessList, walkAt)

WalkInv == WalkSafe /\ FrameReachesAll /\ Ahead

LiveInv == TypeOK /\ ChannelInv /\ SessionsConsistent /\ FedInv /\ CountInv /\ WalkInv

-----------------------------------------------------------------------------
(***************************************************************************)
(* live_teardown of endpoints D that exist.                                *)
(***************************************************************************)
LEMMA TransportKinds ==
    /\ Udp.kind = "udp" /\ Udp # NoEp
    /\ \A c \in Conns, k \in Channels :
          /\ Inter(c, k).kind = "inter" /\ Inter(c, k).conn = c /\ Inter(c, k).rtp = k
          /\ Inter(c, k) # NoEp
<1>1. Udp \in Transports /\ \A c \in Conns, k \in Channels : Inter(c, k) \in Transports
  BY DEF Transports
<1>2. Udp.kind = "udp" /\ \A c, k : /\ Inter(c, k).kind = "inter" /\ Inter(c, k).conn = c
                                    /\ Inter(c, k).rtp = k
  BY DEF Udp, Inter
<1>. QED  BY <1>1, <1>2, NamesAssumption

LEMMA EpType ==
    ASSUME TypeOK, NEW s \in Sessions, NEW t \in Tracks, ep[s][t] # NoEp
    PROVE  \/ ep[s][t] = Udp
           \/ /\ ep[s][t].conn \in Conns /\ ep[s][t].rtp \in Channels /\ ep[s][t].kind = "inter"
              /\ ep[s][t] = Inter(ep[s][t].conn, ep[s][t].rtp)
<1>1. ep[s][t] \in Transports
  BY DEF TypeOK
<1>2. CASE \E c \in Conns, k \in Channels : ep[s][t] = Inter(c, k)
  BY <1>2, TransportKinds
<1>. QED  BY <1>1, <1>2 DEF Transports

\* The sessions that a teardown closes have lost their last endpoint; the others
\* keep one, and none of those left behind by DESCRIBE is touched.
LEMMA EmptiedOnly ==
    ASSUME TypeOK, SessionsConsistent, NEW D, \A d \in D : Exists(d), Teardown(D)
    PROVE  /\ Emptied(D) \subseteq registered
           /\ ep' \in [Sessions -> [Tracks -> Transports \cup {NoEp}]]
           /\ \A s \in Sessions, t \in Tracks : <<s, t>> \in D => ep'[s][t] = NoEp
           /\ \A s \in Sessions, t \in Tracks : <<s, t>> \notin D => ep'[s][t] = ep[s][t]
           /\ \A s \in registered : s \in Emptied(D) <=> \A t \in Tracks : ep'[s][t] = NoEp
<1>1. ep' = EpAfter(D)
  BY DEF Teardown
<1>2. /\ \A s \in Sessions, t \in Tracks : <<s, t>> \in D => ep'[s][t] = NoEp
      /\ \A s \in Sessions, t \in Tracks : <<s, t>> \notin D => ep'[s][t] = ep[s][t]
      /\ ep' \in [Sessions -> [Tracks -> Transports \cup {NoEp}]]
  <2>1. \A s \in Sessions, t \in Tracks : ep[s][t] \in Transports \cup {NoEp}
    BY DEF TypeOK
  <2>. QED  BY <1>1, <2>1 DEF EpAfter
<1>3. Emptied(D) \subseteq registered
  <2>1. ASSUME NEW s, NEW t \in Tracks, <<s, t>> \in D PROVE s \in registered
    <3>1. s \in Sessions /\ ep[s][t] # NoEp
      BY <2>1 DEF Exists
    <3>. QED  BY <3>1 DEF SessionsConsistent
  <2>. QED  BY <2>1 DEF Emptied
<1>4. ASSUME NEW s \in registered
      PROVE  s \in Emptied(D) <=> \A t \in Tracks : ep'[s][t] = NoEp
  <2>1. s \in Sessions /\ s \in Opened /\ \E t \in Tracks : ep[s][t] # NoEp
    BY DEF TypeOK, SessionsConsistent
  <2>2. (\A t \in Tracks : ep'[s][t] = NoEp) => \E t \in Tracks : <<s, t>> \in D
    BY <1>2, <2>1
  <2>. QED  BY <1>1, <2>1, <2>2 DEF Emptied
<1>. QED  BY <1>2, <1>3, <1>4

\* What a teardown does to the list.
LEMMA TeardownList ==
    ASSUME TypeOK, SessionsConsistent, NEW D, Teardown(D)
    PROVE  /\ sessList' \in Seq(Sessions) /\ Distinct(sessList')
           /\ Opened' = Opened \ Emptied(D)
           /\ \A s \in Opened \ Emptied(D) : From(sessList, s) \ Emptied(D) = From(sessList', s)
<1>1. PICK closed : closed = Emptied(D)
  OBVIOUS
<1>2. sessList \in Seq(Sessions) /\ Distinct(sessList)
  BY DEF TypeOK, SessionsConsistent, Distinct
<1>3. PICK u : u = Without(sessList, closed) /\ u = sessList'
  BY <1>1 DEF Teardown
<1>4. /\ u \in Seq(Sessions) /\ Distinct(u)
      /\ Elems(u) = Elems(sessList) \ closed
      /\ \A s \in Elems(sessList) \ closed : From(u, s) = From(sessList, s) \ closed
  <2>1. PICK w : w = sessList
    OBVIOUS
  <2>2. w \in Seq(Sessions) /\ Distinct(w)
    BY <1>2, <2>1
  <2>3. /\ Without(w, closed) \in Seq(Sessions) /\ Distinct(Without(w, closed))
        /\ Elems(Without(w, closed)) = Elems(w) \ closed
        /\ \A s \in Elems(w) \ closed : From(Without(w, closed), s) = From(w, s) \ closed
    BY <2>2, WithoutList
  <2>. QED  BY <1>3, <2>1, <2>3
<1>. QED  BY <1>1, <1>3, <1>4 DEF Opened

LEMMA TeardownSessions ==
    ASSUME TypeOK, SessionsConsistent, NEW D, \A d \in D : Exists(d), Teardown(D),
           UNCHANGED orphans
    PROVE  SessionsConsistent'
<1>1. PICK closed : closed = Emptied(D)
  OBVIOUS
<1>2. registered' = registered \ closed /\ playing' = playing \ closed
  BY <1>1 DEF Teardown
<1>3. closed \subseteq registered
      /\ \A s \in registered : s \in closed <=> \A t \in Tracks : ep'[s][t] = NoEp
  BY <1>1, EmptiedOnly
<1>4. Opened' = Opened \ closed /\ Distinct(sessList')
  BY <1>1, TeardownList
<1>5. Opened' = registered' \cup orphans' /\ registered' \cap orphans' = {}
      /\ playing' \subseteq registered'
  BY <1>2, <1>3, <1>4 DEF SessionsConsistent
<1>6. ASSUME NEW s \in Sessions PROVE s \in registered' <=> \E t \in Tracks : ep'[s][t] # NoEp
  <2>1. CASE s \in registered
    BY <1>2, <1>3, <2>1
  <2>2. CASE s \notin registered
    <3>1. \A t \in Tracks : ep[s][t] = NoEp
      BY <2>2 DEF SessionsConsistent
    <3>2. \A t \in Tracks : ep'[s][t] = NoEp
      BY <3>1, EmptiedOnly
    <3>. QED  BY <1>2, <2>2, <3>2
  <2>. QED  BY <2>1, <2>2
<1>. QED  BY <1>4, <1>5, <1>6 DEF SessionsConsistent, Distinct

\* The count follows the playing sessions.
LEMMA TeardownCount ==
    ASSUME TypeOK, CountInv, NEW D, Teardown(D), UNCHANGED extraPlays
    PROVE  CountInv' /\ curConn' \in 0 .. MaxCount
<1>1. PICK closed : closed = Emptied(D)
  OBVIOUS
<1>2. PICK P, Q : P = playing /\ Q = closed \cap playing
  OBVIOUS
<1>3. IsFiniteSet(P) /\ Q \subseteq P /\ playing' = P \ Q
  BY <1>1, <1>2 DEF CountInv, Teardown
<1>4. /\ IsFiniteSet(P \ Q) /\ IsFiniteSet(Q)
      /\ Cardinality(P \ Q) = Cardinality(P) - Cardinality(P \cap Q)
      /\ P \cap Q = Q
  BY <1>3, FS_Difference, FS_Subset
<1>5. Cardinality(P) \in Nat /\ Cardinality(Q) \in Nat /\ Cardinality(P \ Q) \in Nat
  BY <1>3, <1>4, FS_CardinalityType
<1>6. PICK n, m : n = Cardinality(Q) /\ m = Cardinality(P)
  OBVIOUS
<1>7. curConn = m + extraPlays /\ curConn' = IF curConn > n THEN curConn - n ELSE 0
  BY <1>1, <1>2, <1>6 DEF CountInv, CountCoversPlayers, Teardown, CountAfter
<1>8. n \in Nat /\ m \in Nat /\ m - n \in Nat /\ Cardinality(playing') = m - n
  BY <1>3, <1>4, <1>5, <1>6
<1>9. extraPlays \in Nat /\ curConn \in 0 .. MaxCount /\ MaxCount \in Nat
  BY LiveAssumption DEF TypeOK
<1>10. curConn' = m - n + extraPlays /\ curConn' \in 0 .. MaxCount
  BY <1>7, <1>8, <1>9
<1>. QED  BY <1>3, <1>4, <1>8, <1>10 DEF CountInv, CountCoversPlayers

\* The streams follow those who play.
LEMMA TeardownFed ==
    ASSUME TypeOK, SessionsConsistent, FedInv, NEW D, \A d \in D : Exists(d), Teardown(D),
           UNCHANGED ready
    PROVE  FedInv'
<1>1. PICK closed : closed = Emptied(D)
  OBVIOUS
<1>2. playing' = playing \ closed /\ fed' = fed \ D /\ Opened' = Opened \ closed
  BY <1>1, TeardownList DEF Teardown
<1>3. /\ \A s \in Sessions, t \in Tracks : <<s, t>> \in D => ep'[s][t] = NoEp
      /\ \A s \in Sessions, t \in Tracks : <<s, t>> \notin D => ep'[s][t] = ep[s][t]
  BY EmptiedOnly
<1>4. ASSUME NEW s \in registered, NEW t \in Tracks, ep'[s][t] # NoEp PROVE s \notin closed
  BY <1>1, <1>4, EmptiedOnly
<1>5. playing \subseteq registered /\ registered \subseteq Opened /\ registered \subseteq Sessions
  BY DEF SessionsConsistent, TypeOK
<1>6. \A t \in Tracks : waiting'[t] = (waiting[t] /\ ((\E s \in Sessions : <<s, t>> \in D)
                                                        => TrackPlayed(EpAfter(D), t)))
  BY DEF Teardown, WaitingAfter
<1>7. ep' = EpAfter(D)
  BY DEF Teardown
<1>8. ASSUME NEW s \in playing, NEW t \in Tracks, ep'[s][t] # NoEp
      PROVE  s \in playing' /\ s \in Opened' /\ TrackPlayed(EpAfter(D), t) /\ (TrackPlayed(ep, t))'
  <2>1. s \in playing' /\ s \in Opened'
    BY <1>2, <1>4, <1>5, <1>8
  <2>. QED  BY <1>5, <1>7, <1>8, <2>1 DEF TrackPlayed
<1>9. ASSUME NEW d \in fed'
      PROVE  /\ d \in Sessions \X Tracks /\ ep'[d[1]][d[2]] # NoEp /\ d[1] \in playing'
             /\ ready'[d[2]] /\ waiting'[d[2]]
  <2>1. d \in fed /\ d \notin D
    BY <1>2
  <2>2. PICK s \in Sessions, t \in Tracks : d = <<s, t>>
    BY <2>1 DEF FedInv, Exists
  <2>3. s \in playing /\ ep[s][t] # NoEp /\ ready[t] /\ waiting[t]
    BY <2>1, <2>2 DEF FedInv, Exists, StreamsFollowPlayers
  <2>4. ep'[s][t] # NoEp
    BY <1>3, <2>1, <2>2, <2>3
  <2>5. s \in playing' /\ TrackPlayed(EpAfter(D), t)
    BY <1>8, <2>3, <2>4
  <2>. QED  BY <1>6, <2>2, <2>3, <2>4, <2>5
<1>10. ASSUME NEW t \in Tracks, ready'[t], waiting'[t] PROVE (TrackPlayed(ep, t))'
  <2>1. ready[t] /\ waiting[t]
    BY <1>6, <1>10
  <2>2. CASE \E s \in Sessions : <<s, t>> \in D
    <3>1. TrackPlayed(EpAfter(D), t)
      BY <1>6, <1>10, <2>2
    <3>2. PICK s \in Opened : s \in playing /\ ep'[s][t] # NoEp
      BY <1>7, <3>1 DEF TrackPlayed
    <3>. QED  BY <1>8, <3>2
  <2>3. CASE ~ \E s \in Sessions : <<s, t>> \in D
    <3>1. TrackPlayed(ep, t)
      BY <2>1 DEF FedInv, StreamsFollowPlayers
    <3>2. PICK s \in Opened : s \in playing /\ ep[s][t] # NoEp
      BY <3>1 DEF TrackPlayed
    <3>3. ep'[s][t] # NoEp
      BY <1>3, <1>5, <2>3, <3>2
    <3>. QED  BY <1>8, <3>2, <3>3
  <2>. QED  BY <2>2, <2>3
<1>. QED  BY <1>9, <1>10 DEF FedInv, Exists, StreamsFollowPlayers

\* del_rtp_endpoint and interleave_disconnect: which channels are cleared.
LEMMA ClearedChannels ==
    ASSUME TypeOK, ChannelInv, NEW D, \A d \in D : Exists(d), Teardown(D),
           NEW c \in Conns, NEW k \in Channels
    PROVE  /\ chan' \in [Conns -> [Channels -> Users \cup {NoEp}]]
           /\ chan'[c][k] = IF chan[c][k] # NoEp /\ chan[c][k].ep \in D THEN NoEp
                            ELSE chan[c][k]
<1>. DEFINE Hit == \E d \in D : /\ ep[d[1]][d[2]] # NoEp
                                /\ ep[d[1]][d[2]].kind = "inter"
                                /\ ep[d[1]][d[2]].conn = c
                                /\ k - ep[d[1]][d[2]].rtp \in {0, 1}
<1>1. chan' = ChanAfter(D)
  BY DEF Teardown
<1>2. chan' \in [Conns -> [Channels -> Users \cup {NoEp}]]
  <2>1. \A b \in Conns, i \in Channels : chan[b][i] \in Users \cup {NoEp}
    BY DEF TypeOK
  <2>. QED  BY <1>1, <2>1 DEF ChanAfter
<1>3. chan'[c][k] = IF Hit THEN NoEp ELSE chan[c][k]
  BY <1>1 DEF ChanAfter
<1>4. ASSUME Hit PROVE chan[c][k] # NoEp /\ chan[c][k].ep \in D
  <2>1. PICK d \in D : /\ ep[d[1]][d[2]] # NoEp
                       /\ ep[d[1]][d[2]].kind = "inter"
                       /\ ep[d[1]][d[2]].conn = c
                       /\ k - ep[d[1]][d[2]].rtp \in {0, 1}
    BY <1>4
  <2>2. PICK s \in Sessions, t \in Tracks : d = <<s, t>>
    BY DEF Exists
  <2>3. PICK r \in Channels : r = ep[s][t].rtp
    BY <2>1, <2>2, EpType, TransportKinds
  <2>4. chan[c][r] = [ep |-> d, rtcp |-> FALSE] /\ chan[c][r + 1] = [ep |-> d, rtcp |-> TRUE]
    BY <2>1, <2>2, <2>3 DEF ChannelInv, ChannelsMatch
  <2>5. k = r \/ k = r + 1
    BY <2>1, <2>2, <2>3 DEF Channels
  <2>6. chan[c][k].ep = d /\ chan[c][k] \in Users
    <3>1. d \in Sessions \X Tracks
      BY <2>2
    <3>2. \A b \in BOOLEAN : [ep |-> d, rtcp |-> b].ep = d /\ [ep |-> d, rtcp |-> b] \in Users
      BY <3>1 DEF Users
    <3>3. \E b \in BOOLEAN : chan[c][k] = [ep |-> d, rtcp |-> b]
      BY <2>4, <2>5
    <3>. QED  BY <3>2, <3>3
  <2>. QED  BY <2>6, NamesAssumption
<1>5. ASSUME chan[c][k] # NoEp, chan[c][k].ep \in D PROVE Hit
  <2>1. PICK d \in D : d = chan[c][k].ep
    BY <1>5
  <2>2. chan[c][k] \in Users
    BY <1>5 DEF TypeOK
  <2>3. PICK b \in BOOLEAN : b = chan[c][k].rtcp
    BY <2>2 DEF Users
  <2>4. ep[d[1]][d[2]] = Inter(c, IF b THEN k - 1 ELSE k)
    BY <1>5, <2>1, <2>3 DEF ChannelInv, ChannelsMatch
  <2>5. PICK r : r = IF b THEN k - 1 ELSE k
    OBVIOUS
  <2>6. k - r \in {0, 1}
    <3>1. k \in Int
      BY DEF Channels
    <3>2. CASE b
      <4>1. r = k - 1
        BY <2>5, <3>2
      <4>. QED  BY <3>1, <4>1
    <3>3. CASE ~b
      <4>1. r = k
        BY <2>5, <3>3
      <4>. QED  BY <3>1, <4>1
    <3>. QED  BY <3>2, <3>3
  <2>7. /\ ep[d[1]][d[2]].kind = "inter" /\ ep[d[1]][d[2]].conn = c
        /\ ep[d[1]][d[2]].rtp = r
    BY <2>4, <2>5 DEF Inter
  <2>8. ep[d[1]][d[2]] # NoEp
    BY DEF Exists
  <2>. QED  BY <2>6, <2>7, <2>8
<1>. HIDE DEF Hit
<1>. QED  BY <1>2, <1>3, <1>4, <1>5

\* No channel is left to an endpoint that is gone, nor an endpoint without its
\* channels; a connection may go when the endpoints on its channels do.
LEMMA TeardownChannels ==
    ASSUME TypeOK, ChannelInv, SessionsConsistent, NEW D, \A d \in D : Exists(d), Teardown(D),
           \A c \in open \ open' : EpsOn(c) \subseteq D
    PROVE  ChannelInv'
<1>1. /\ \A s \in Sessions, t \in Tracks : <<s, t>> \in D => ep'[s][t] = NoEp
      /\ \A s \in Sessions, t \in Tracks : <<s, t>> \notin D => ep'[s][t] = ep[s][t]
  BY EmptiedOnly
<1>2. ASSUME NEW c \in Conns, NEW k \in Channels, chan'[c][k] # NoEp
      PROVE  LET e == chan'[c][k].ep
             IN  /\ c \in open'
                 /\ ep'[e[1]][e[2]] = Inter(c, IF chan'[c][k].rtcp THEN k - 1 ELSE k)
  <2>1. chan'[c][k] = chan[c][k] /\ chan[c][k] # NoEp /\ chan[c][k].ep \notin D
    BY <1>2, ClearedChannels
  <2>2. chan[c][k] \in Users
    BY <2>1 DEF TypeOK
  <2>3. PICK s \in Sessions, t \in Tracks : chan[c][k].ep = <<s, t>>
    BY <2>2 DEF Users
  <2>4. /\ c \in open
        /\ ep[s][t] = Inter(c, IF chan[c][k].rtcp THEN k - 1 ELSE k)
    BY <2>1, <2>3 DEF ChannelInv, ChannelsMatch
  <2>5. ep'[s][t] = ep[s][t]
    BY <1>1, <2>1, <2>3
  <2>6. c \in open'
    <3>. SUFFICES ASSUME c \notin open' PROVE FALSE
      OBVIOUS
    <3>1. chan[c][k].ep \notin EpsOn(c)
      BY <2>1, <2>4
    <3>2. CASE ~chan[c][k].rtcp
      BY <2>1, <3>1, <3>2 DEF EpsOn
    <3>3. CASE chan[c][k].rtcp
      <4>1. ep[s][t] = Inter(c, k - 1)
        BY <2>4, <3>3
      <4>2. /\ ep[s][t].kind = "inter" /\ ep[s][t].conn = c /\ ep[s][t].rtp = k - 1
            /\ ep[s][t] # NoEp
        <5>1. /\ ep[s][t].kind = "inter" /\ ep[s][t].conn = c /\ ep[s][t].rtp = k - 1
          BY <4>1 DEF Inter
        <5>3. ep[s][t] # NoEp
          BY <2>1, <2>3 DEF ChannelInv, UsersExist, Exists
        <5>. QED  BY <5>1, <5>3
      <4>3. chan[c][k - 1] = [ep |-> <<s, t>>, rtcp |-> FALSE]
        BY <4>2 DEF ChannelInv, ChannelsMatch
      <4>4. k - 1 \in Channels
        BY <4>2, EpType, TransportKinds
      <4>5. chan[c][k - 1] # NoEp /\ chan[c][k - 1].ep = <<s, t>> /\ ~chan[c][k - 1].rtcp
        <5>1. [ep |-> <<s, t>>, rtcp |-> FALSE] \in Users
          BY DEF Users
        <5>2. chan[c][k - 1] # NoEp
          BY <4>3, <5>1, NamesAssumption
        <5>3. chan[c][k - 1].ep = <<s, t>> /\ chan[c][k - 1].rtcp = FALSE
          BY <4>3
        <5>. QED  BY <5>2, <5>3
      <4>. QED  BY <2>3, <3>1, <4>4, <4>5 DEF EpsOn
    <3>. QED  BY <3>2, <3>3
  <2>. QED  BY <2>1, <2>3, <2>4, <2>5, <2>6
<1>3. ASSUME NEW s \in Sessions, NEW t \in Tracks, ep'[s][t] # NoEp, ep'[s][t].kind = "inter"
      PROVE  /\ chan'[ep'[s][t].conn][ep'[s][t].rtp] = [ep |-> <<s, t>>, rtcp |-> FALSE]
             /\ chan'[ep'[s][t].conn][ep'[s][t].rtp + 1] = [ep |-> <<s, t>>, rtcp |-> TRUE]
             /\ ep'[s][t].rtp + 1 \in Channels
  <2>1. <<s, t>> \notin D /\ ep'[s][t] = ep[s][t]
    BY <1>1, <1>3
  <2>2. PICK c \in Conns, r \in Channels : c = ep[s][t].conn /\ r = ep[s][t].rtp
    BY <1>3, <2>1, EpType, TransportKinds
  <2>3. /\ chan[c][r] = [ep |-> <<s, t>>, rtcp |-> FALSE]
        /\ chan[c][r + 1] = [ep |-> <<s, t>>, rtcp |-> TRUE]
        /\ r + 1 \in Channels
    BY <1>3, <2>1, <2>2 DEF ChannelInv, ChannelsMatch, PairsInside
  <2>4. chan[c][r].ep = <<s, t>> /\ chan[c][r + 1].ep = <<s, t>>
    BY <2>3
  <2>5. chan'[c][r] = chan[c][r] /\ chan'[c][r + 1] = chan[c][r + 1]
    <3>1. PICK q \in Channels : q = r + 1
      BY <2>3
    <3>2. chan[c][q].ep = <<s, t>>
      BY <2>4, <3>1
    <3>3. chan'[c][r] = chan[c][r]
      BY <2>1, <2>4, ClearedChannels
    <3>4. chan'[c][q] = chan[c][q]
      <4>1. chan'[c][q] = IF chan[c][q] # NoEp /\ chan[c][q].ep \in D THEN NoEp ELSE chan[c][q]
        BY ClearedChannels
      <4>. QED  BY <2>1, <3>2, <4>1
    <3>. QED  BY <3>1, <3>3, <3>4
  <2>. QED  BY <2>1, <2>2, <2>3, <2>5
<1>4. ASSUME NEW c \in Conns, NEW k \in Channels, chan'[c][k] # NoEp
      PROVE  Exists(chan[c][k].ep)'
  <2>1. chan'[c][k] = chan[c][k] /\ chan[c][k] # NoEp /\ chan[c][k].ep \notin D
    BY <1>4, ClearedChannels
  <2>2. PICK s \in Sessions, t \in Tracks : chan[c][k].ep = <<s, t>> /\ ep[s][t] # NoEp
    BY <2>1 DEF ChannelInv, UsersExist, Exists
  <2>. QED  BY <1>1, <2>1, <2>2 DEF Exists
<1>5. UsersExist'
  BY <1>4 DEF UsersExist
<1>6. ChannelsMatch' /\ PairsInside'
  BY <1>2, <1>3 DEF ChannelsMatch, PairsInside
<1>. QED  BY <1>5, <1>6 DEF ChannelInv

\* The type invariant, of what a teardown changes.
LEMMA TeardownType ==
    ASSUME TypeOK, ChannelInv, SessionsConsistent, CountInv, NEW D, \A d \in D : Exists(d),
           Teardown(D), UNCHANGED <<ready, walkTrack, extraPlays, orphans>>,
           open' \subseteq Conns, walkAt' \in Sessions \cup {NoSession}, owed' \subseteq owed
    PROVE  TypeOK'
<1>1. sessList' \in Seq(Sessions)
  BY TeardownList
<1>2. registered' \subseteq Sessions /\ playing' \subseteq Sessions /\ fed' \subseteq Sessions \X Tracks
  BY DEF Teardown, TypeOK
<1>3. ep' \in [Sessions -> [Tracks -> Transports \cup {NoEp}]]
  BY EmptiedOnly
<1>4. chan' \in [Conns -> [Channels -> Users \cup {NoEp}]]
  <2>1. \A c \in Conns, k \in Channels : chan[c][k] \in Users \cup {NoEp}
    BY DEF TypeOK
  <2>. QED  BY <2>1 DEF Teardown, ChanAfter
<1>5. waiting' \in [Tracks -> BOOLEAN]
  BY DEF Teardown, WaitingAfter
<1>6. curConn' \in 0 .. MaxCount
  BY TeardownCount
<1>. QED  BY <1>1, <1>2, <1>3, <1>4, <1>5, <1>6 DEF TypeOK

\* Between two frames nothing is owed, whatever the handlers do.
LEMMA IdleWalk == ASSUME WalkInv, Idle, UNCHANGED walkVars PROVE WalkInv'
  BY DEF WalkInv, Idle, walkVars, WalkSafe, FrameReachesAll, Ahead

\* A handler that tears endpoints down.
LEMMA TeardownStep ==
    ASSUME LiveInv, Idle, NEW D, \A d \in D : Exists(d), Teardown(D),
           UNCHANGED <<ready, walkVars, extraPlays, orphans>>,
           open' \subseteq Conns, \A c \in open \ open' : EpsOn(c) \subseteq D
    PROVE  LiveInv'
<1>. USE DEF LiveInv
<1>1. TypeOK'
  <2>1. walkAt' \in Sessions \cup {NoSession} /\ owed' \subseteq owed /\ walkTrack' = walkTrack
    BY DEF walkVars, TypeOK
  <2>. QED  BY <2>1, TeardownType
<1>2. ChannelInv' /\ SessionsConsistent' /\ FedInv' /\ CountInv'
  BY TeardownChannels, TeardownSessions, TeardownFed, TeardownCount
<1>3. WalkInv'
  BY IdleWalk
<1>. QED  BY <1>1, <1>2, <1>3

LEMMA HandleTeardownInv ==
    ASSUME LiveInv, NEW c \in Conns, NEW s \in Sessions, HandleTeardown(c, s) PROVE LiveInv'
<1>1. Idle /\ UNCHANGED <<open, ready, walkVars, extraPlays, orphans>> /\ open' \subseteq Conns
  BY DEF HandleTeardown, LiveInv, TypeOK
<1>2. CASE Teardown(EpsOf(s))
  <2>1. \A d \in EpsOf(s) : Exists(d)
    BY DEF EpsOf, Exists
  <2>. QED  BY <1>1, <1>2, <2>1, TeardownStep
<1>3. ASSUME NEW t \in Tracks, ep[s][t] # NoEp, Teardown({<<s, t>>}) PROVE LiveInv'
  <2>1. \A d \in {<<s, t>>} : Exists(d)
    BY <1>3 DEF Exists
  <2>. QED  BY <1>1, <1>3, <2>1, TeardownStep
<1>. QED  BY <1>2, <1>3 DEF HandleTeardown

LEMMA UdpEndpointDiesInv ==
    ASSUME LiveInv, NEW s \in Sessions, NEW t \in Tracks, UdpEndpointDies(s, t) PROVE LiveInv'
<1>1. Idle /\ UNCHANGED <<open, ready, walkVars, extraPlays, orphans>> /\ open' \subseteq Conns
      /\ Teardown({<<s, t>>})
  BY DEF UdpEndpointDies, LiveInv, TypeOK
<1>2. \A d \in {<<s, t>>} : Exists(d)
  BY TransportKinds DEF Exists, UdpEndpointDies
<1>. QED  BY <1>1, <1>2, TeardownStep

LEMMA DropConnInv == ASSUME LiveInv, NEW c \in Conns, DropConn(c) PROVE LiveInv'
<1>1. Idle /\ UNCHANGED <<ready, walkVars, extraPlays, orphans>> /\ open' = open \ {c}
      /\ Teardown(EpsOn(c)) /\ open' \subseteq Conns
  BY DEF DropConn, LiveInv, TypeOK
<1>2. \A d \in EpsOn(c) : Exists(d)
  BY DEF EpsOn, LiveInv, ChannelInv, UsersExist
<1>3. \A b \in open \ open' : EpsOn(b) \subseteq EpsOn(c)
  BY <1>1
<1>. QED  BY <1>1, <1>2, <1>3, TeardownStep

-----------------------------------------------------------------------------
\* A new session at the head of the list.
LEMMA OpenSessionList ==
    ASSUME TypeOK, SessionsConsistent, NEW s \in Sessions, FreshSession(s), OpenSession(s)
    PROVE  /\ sessList' \in Seq(Sessions) /\ Distinct(sessList') /\ Opened' = Opened \cup {s}
<1>1. PICK w : w = sessList
  OBVIOUS
<1>2. w \in Seq(Sessions) /\ Distinct(w) /\ s \notin Elems(w)
  BY <1>1 DEF TypeOK, SessionsConsistent, Distinct, FreshSession, Opened
<1>3. <<s>> \o w \in Seq(Sessions) /\ Distinct(<<s>> \o w) /\ Elems(<<s>> \o w) = Elems(w) \cup {s}
  BY <1>2, PrependList
<1>4. sessList' = <<s>> \o w
  BY <1>1 DEF OpenSession
<1>. QED  BY <1>1, <1>3, <1>4 DEF Opened

LEMMA AcceptInv == ASSUME LiveInv, NEW c \in Conns, Accept(c) PROVE LiveInv'
<1>. USE DEF LiveInv
<1>1. Idle /\ open' = open \cup {c}
      /\ UNCHANGED <<sessList, registered, playing, ep, chan, ready, waiting, curConn, fed,
                     extraPlays, orphans>> /\ UNCHANGED walkVars
  BY DEF Accept
<1>2. TypeOK'
  BY <1>1 DEF TypeOK, walkVars
<1>3. ChannelInv'
  <2>1. ChannelsMatch'
    BY <1>1 DEF ChannelInv, ChannelsMatch
  <2>2. PairsInside' /\ UsersExist'
    BY <1>1 DEF ChannelInv, PairsInside, UsersExist, Exists
  <2>. QED  BY <2>1, <2>2 DEF ChannelInv
<1>4. SessionsConsistent' /\ FedInv' /\ CountInv'
  BY <1>1 DEF SessionsConsistent, Opened, FedInv, Exists, StreamsFollowPlayers, TrackPlayed,
              CountInv, CountCoversPlayers
<1>5. WalkInv'
  BY <1>1, IdleWalk
<1>. QED  BY <1>2, <1>3, <1>4, <1>5

LEMMA DescribeInv ==
    ASSUME LiveInv, NEW s \in Sessions, DescribeUnauthorized(s) PROVE LiveInv'
<1>. USE DEF LiveInv
<1>1. Idle /\ orphans' = orphans \cup {s} /\ FreshSession(s) /\ OpenSession(s)
      /\ UNCHANGED <<registered, playing, ep, open, chan, ready, waiting, curConn, fed,
                     extraPlays>> /\ UNCHANGED walkVars
  BY DEF DescribeUnauthorized
<1>2. sessList' \in Seq(Sessions) /\ Distinct(sessList') /\ Opened' = Opened \cup {s}
  BY <1>1, OpenSessionList
<1>3. TypeOK'
  BY <1>1, <1>2 DEF TypeOK, walkVars
<1>4. ChannelInv' /\ CountInv'
  BY <1>1 DEF ChannelInv, ChannelsMatch, PairsInside, UsersExist, Exists, CountInv, CountCoversPlayers
<1>5. SessionsConsistent'
  <2>1. s \notin registered
    BY <1>1 DEF FreshSession, SessionsConsistent
  <2>. QED  BY <1>1, <1>2, <2>1 DEF SessionsConsistent, Distinct
<1>6. FedInv'
  <2>1. \A t \in Tracks : TrackPlayed(ep, t) => TrackPlayed(ep, t)'
    BY <1>1, <1>2 DEF TrackPlayed
  <2>. QED  BY <1>1, <2>1 DEF FedInv, Exists, StreamsFollowPlayers
<1>7. WalkInv'
  BY <1>1, IdleWalk
<1>. QED  BY <1>3, <1>4, <1>5, <1>6, <1>7

\* What handle_SETUP does apart from the channels.
LEMMA SetupOverInv ==
    ASSUME LiveInv, NEW c \in Conns, NEW s \in Sessions, NEW t \in Tracks, NEW tr \in Transports,
           SetupOver(c, s, t, tr)
    PROVE  /\ SessionsConsistent' /\ FedInv' /\ CountInv' /\ WalkInv'
           /\ chan' \in [Conns -> [Channels -> Users \cup {NoEp}]] => TypeOK'
           /\ ep'[s][t] = tr /\ ep[s][t] = NoEp
           /\ \A x \in Sessions, y \in Tracks : <<x, y>> # <<s, t>> => ep'[x][y] = ep[x][y]
<1>. USE DEF LiveInv
<1>1. /\ Idle /\ SessionForSetup(s) /\ ep[s][t] = NoEp /\ ep' = [ep EXCEPT ![s][t] = tr]
      /\ IF s \in registered THEN UNCHANGED sessList ELSE OpenSession(s)
      /\ registered' = registered \cup {s}
      /\ UNCHANGED <<playing, open, ready, waiting, curConn, fed, extraPlays, orphans>>
      /\ UNCHANGED walkVars
  BY DEF SetupOver
<1>2. /\ ep' \in [Sessions -> [Tracks -> Transports \cup {NoEp}]]
      /\ ep'[s][t] = tr
      /\ \A x \in Sessions, y \in Tracks : <<x, y>> # <<s, t>> => ep'[x][y] = ep[x][y]
  BY <1>1 DEF TypeOK
<1>3. tr # NoEp
  BY NamesAssumption
<1>4. sessList' \in Seq(Sessions) /\ Distinct(sessList') /\ Opened' = Opened \cup {s}
  <2>1. CASE s \in registered
    BY <1>1, <2>1 DEF TypeOK, SessionsConsistent, Distinct, Opened
  <2>2. CASE s \notin registered
    BY <1>1, <2>2, OpenSessionList DEF SessionForSetup
  <2>. QED  BY <2>1, <2>2
<1>5. SessionsConsistent'
  <2>1. s \notin orphans
    BY <1>1 DEF SessionForSetup, FreshSession, SessionsConsistent
  <2>2. Opened' = registered' \cup orphans' /\ registered' \cap orphans' = {}
        /\ playing' \subseteq registered'
    BY <1>1, <1>4, <2>1 DEF SessionsConsistent
  <2>3. ASSUME NEW x \in Sessions PROVE x \in registered' <=> \E y \in Tracks : ep'[x][y] # NoEp
    <3>1. CASE x = s
      BY <1>1, <1>2, <1>3, <3>1
    <3>2. CASE x # s
      <4>1. \A y \in Tracks : ep'[x][y] = ep[x][y]
        BY <1>2, <3>2
      <4>. QED  BY <1>1, <3>2, <4>1 DEF SessionsConsistent
    <3>. QED  BY <3>1, <3>2
  <2>. QED  BY <1>4, <2>2, <2>3 DEF SessionsConsistent, Distinct
<1>6. FedInv'
  <2>1. \A x \in Sessions, y \in Tracks : ep[x][y] # NoEp => ep'[x][y] # NoEp
    BY <1>1, <1>2, <1>3
  <2>2. Opened \subseteq Sessions
    BY DEF SessionsConsistent, TypeOK
  <2>3. ASSUME NEW y \in Tracks, TrackPlayed(ep, y) PROVE TrackPlayed(ep, y)'
    BY <1>1, <1>4, <2>1, <2>2, <2>3 DEF TrackPlayed
  <2>4. ASSUME NEW d \in fed PROVE Exists(d)' /\ d[1] \in playing /\ ready[d[2]]
    BY <2>1 DEF FedInv, Exists
  <2>. QED  BY <1>1, <2>3, <2>4 DEF FedInv, StreamsFollowPlayers
<1>7. CountInv' /\ WalkInv'
  BY <1>1, IdleWalk DEF CountInv, CountCoversPlayers
<1>8. chan' \in [Conns -> [Channels -> Users \cup {NoEp}]] => TypeOK'
  BY <1>1, <1>2, <1>4 DEF TypeOK, walkVars
<1>. QED  BY <1>1, <1>2, <1>5, <1>6, <1>7, <1>8

\* Channels that keep their users, next to an endpoint that is new.
LEMMA OthersMatch ==
    ASSUME LiveInv, NEW s \in Sessions, NEW t \in Tracks, ep[s][t] = NoEp, UNCHANGED open,
           \A x \in Sessions, y \in Tracks : <<x, y>> # <<s, t>> => ep'[x][y] = ep[x][y],
           NEW c \in Conns, NEW k \in Channels, chan[c][k] # NoEp, chan'[c][k] = chan[c][k]
    PROVE  /\ c \in open'
           /\ ep'[chan'[c][k].ep[1]][chan'[c][k].ep[2]]
                 = Inter(c, IF chan'[c][k].rtcp THEN k - 1 ELSE k)
           /\ Exists(chan[c][k].ep)'
<1>1. PICK x \in Sessions, y \in Tracks : chan[c][k].ep = <<x, y>> /\ ep[x][y] # NoEp
  BY DEF LiveInv, ChannelInv, UsersExist, Exists
<1>2. ep'[x][y] = ep[x][y]
  BY <1>1
<1>3. c \in open /\ ep[x][y] = Inter(c, IF chan[c][k].rtcp THEN k - 1 ELSE k)
  <2>1. /\ c \in open
        /\ ep[chan[c][k].ep[1]][chan[c][k].ep[2]]
              = Inter(c, IF chan[c][k].rtcp THEN k - 1 ELSE k)
    BY DEF LiveInv, ChannelInv, ChannelsMatch
  <2>. QED  BY <1>1, <2>1
<1>. QED  BY <1>1, <1>2, <1>3 DEF Exists

LEMMA SetupUdpInv ==
    ASSUME LiveInv, NEW c \in Conns, NEW s \in Sessions, NEW t \in Tracks, SetupUdp(c, s, t)
    PROVE  LiveInv'
<1>1. SetupOver(c, s, t, Udp) /\ UNCHANGED chan /\ Udp \in Transports /\ UNCHANGED open
  BY DEF SetupUdp, SetupOver, Transports
<1>2. /\ SessionsConsistent' /\ FedInv' /\ CountInv' /\ WalkInv'
      /\ chan' \in [Conns -> [Channels -> Users \cup {NoEp}]] => TypeOK'
      /\ ep'[s][t] = Udp /\ ep[s][t] = NoEp
      /\ \A x \in Sessions, y \in Tracks : <<x, y>> # <<s, t>> => ep'[x][y] = ep[x][y]
  BY <1>1, SetupOverInv
<1>3. TypeOK'
  BY <1>1, <1>2 DEF LiveInv, TypeOK
<1>4. ASSUME NEW b \in Conns, NEW i \in Channels, chan'[b][i] # NoEp
      PROVE  /\ b \in open'
             /\ ep'[chan'[b][i].ep[1]][chan'[b][i].ep[2]]
                   = Inter(b, IF chan'[b][i].rtcp THEN i - 1 ELSE i)
             /\ Exists(chan[b][i].ep)'
  <2>1. chan'[b][i] = chan[b][i] /\ chan[b][i] # NoEp
    BY <1>1, <1>4
  <2>. QED  BY <1>1, <1>2, <2>1, OthersMatch
<1>5. ASSUME NEW x \in Sessions, NEW y \in Tracks, ep'[x][y] # NoEp, ep'[x][y].kind = "inter"
      PROVE  /\ chan'[ep'[x][y].conn][ep'[x][y].rtp] = [ep |-> <<x, y>>, rtcp |-> FALSE]
             /\ chan'[ep'[x][y].conn][ep'[x][y].rtp + 1] = [ep |-> <<x, y>>, rtcp |-> TRUE]
             /\ ep'[x][y].rtp + 1 \in Channels
  <2>1. <<x, y>> # <<s, t>>
    BY <1>2, <1>5, TransportKinds
  <2>2. ep'[x][y] = ep[x][y]
    BY <1>2, <2>1
  <2>. QED  BY <1>1, <1>5, <2>2 DEF LiveInv, ChannelInv, ChannelsMatch, PairsInside
<1>6. ChannelsMatch'
  BY <1>4, <1>5 DEF ChannelsMatch
<1>7. PairsInside' /\ UsersExist'
  BY <1>4, <1>5 DEF PairsInside, UsersExist
<1>. QED  BY <1>2, <1>3, <1>6, <1>7 DEF LiveInv, ChannelInv

LEMMA SetupInterleavedInv ==
    ASSUME LiveInv, NEW c \in Conns, NEW s \in Sessions, NEW t \in Tracks, NEW k \in Channels,
           SetupInterleaved(c, s, t, k)
    PROVE  LiveInv'
<1>1. /\ SetupOver(c, s, t, Inter(c, k)) /\ Inter(c, k) \in Transports /\ UNCHANGED open
      /\ c \in open /\ PairFree(c, k)
  BY DEF SetupInterleaved, SetupOver, Transports
<1>2. /\ SessionsConsistent' /\ FedInv' /\ CountInv' /\ WalkInv'
      /\ chan' \in [Conns -> [Channels -> Users \cup {NoEp}]] => TypeOK'
      /\ ep'[s][t] = Inter(c, k) /\ ep[s][t] = NoEp
      /\ \A x \in Sessions, y \in Tracks : <<x, y>> # <<s, t>> => ep'[x][y] = ep[x][y]
  BY <1>1, SetupOverInv
<1>3. PICK u, v, q : u = [ep |-> <<s, t>>, rtcp |-> FALSE] /\ v = [ep |-> <<s, t>>, rtcp |-> TRUE]
                     /\ q = k + 1
  OBVIOUS
<1>4. u \in Users /\ v \in Users /\ u.ep = <<s, t>> /\ v.ep = <<s, t>> /\ ~u.rtcp /\ v.rtcp
      /\ u # NoEp /\ v # NoEp
  <2>1. u \in Users /\ v \in Users
    BY <1>3 DEF Users
  <2>2. u.ep = <<s, t>> /\ v.ep = <<s, t>> /\ u.rtcp = FALSE /\ v.rtcp = TRUE
    BY <1>3
  <2>. QED  BY <2>1, <2>2, NamesAssumption
<1>5. q \in Channels /\ q # k /\ q - 1 = k /\ chan[c][k] = NoEp /\ chan[c][q] = NoEp
  BY <1>1, <1>3 DEF PairFree, Channels
<1>6. chan' = [chan EXCEPT ![c][k] = u, ![c][q] = v]
  BY <1>3 DEF SetupInterleaved
<1>7. /\ chan' \in [Conns -> [Channels -> Users \cup {NoEp}]]
      /\ chan'[c][k] = u /\ chan'[c][q] = v
      /\ \A b \in Conns, i \in Channels : b # c \/ (i # k /\ i # q) => chan'[b][i] = chan[b][i]
  <2>1. PICK w : w = [chan EXCEPT ![c][k] = u]
    OBVIOUS
  <2>2. /\ w \in [Conns -> [Channels -> Users \cup {NoEp}]] /\ w[c][k] = u
        /\ \A b \in Conns, i \in Channels : b # c \/ i # k => w[b][i] = chan[b][i]
    BY <1>4, <2>1 DEF LiveInv, TypeOK
  <2>3. chan' = [w EXCEPT ![c][q] = v]
    BY <1>6, <2>1
  <2>. QED  BY <1>4, <1>5, <2>2, <2>3
<1>8. TypeOK'
  BY <1>2, <1>7
<1>9. ASSUME NEW b \in Conns, NEW i \in Channels, chan'[b][i] # NoEp
      PROVE  /\ b \in open'
             /\ ep'[chan'[b][i].ep[1]][chan'[b][i].ep[2]]
                   = Inter(b, IF chan'[b][i].rtcp THEN i - 1 ELSE i)
             /\ Exists(chan[b][i].ep)'
  <2>1. CASE b # c \/ (i # k /\ i # q)
    <3>1. chan'[b][i] = chan[b][i] /\ chan[b][i] # NoEp
      BY <1>7, <1>9, <2>1
    <3>. QED  BY <1>1, <1>2, <3>1, OthersMatch
  <2>2. CASE b = c /\ i = k
    <3>1. chan'[b][i] = u /\ chan'[b][i].ep = <<s, t>>
      BY <1>7, <2>2, <1>4
    <3>2. ep'[chan'[b][i].ep[1]][chan'[b][i].ep[2]] = Inter(c, k) /\ b \in open'
      BY <1>1, <1>2, <2>2, <3>1
    <3>3. Exists(chan[b][i].ep)'
      BY <3>1, <3>2, TransportKinds DEF Exists
    <3>4. (IF chan'[b][i].rtcp THEN i - 1 ELSE i) = k
      BY <1>4, <1>5, <2>2, <3>1
    <3>. QED  BY <2>2, <3>2, <3>3, <3>4
  <2>3. CASE b = c /\ i = q
    <3>1. chan'[b][i] = v /\ chan'[b][i].ep = <<s, t>>
      BY <1>7, <2>3, <1>4
    <3>2. ep'[chan'[b][i].ep[1]][chan'[b][i].ep[2]] = Inter(c, k) /\ b \in open'
      BY <1>1, <1>2, <2>3, <3>1
    <3>3. Exists(chan[b][i].ep)'
      BY <3>1, <3>2, TransportKinds DEF Exists
    <3>4. (IF chan'[b][i].rtcp THEN i - 1 ELSE i) = k
      BY <1>4, <1>5, <2>3, <3>1
    <3>. QED  BY <2>3, <3>2, <3>3, <3>4
  <2>. QED  BY <2>1, <2>2, <2>3
<1>10. ASSUME NEW x \in Sessions, NEW y \in Tracks, ep'[x][y] # NoEp, ep'[x][y].kind = "inter"
      PROVE  /\ chan'[ep'[x][y].conn][ep'[x][y].rtp] = [ep |-> <<x, y>>, rtcp |-> FALSE]
             /\ chan'[ep'[x][y].conn][ep'[x][y].rtp + 1] = [ep |-> <<x, y>>, rtcp |-> TRUE]
             /\ ep'[x][y].rtp + 1 \in Channels
  <2>1. CASE x = s /\ y = t
    <3>1. ep'[x][y].conn = c /\ ep'[x][y].rtp = k
      BY <1>2, <2>1, TransportKinds
    <3>. QED  BY <1>3, <1>5, <1>7, <2>1, <3>1
  <2>2. CASE ~(x = s /\ y = t)
    <3>1. ep'[x][y] = ep[x][y]
      BY <1>2, <2>2
    <3>2. PICK b \in Conns, r \in Channels : b = ep[x][y].conn /\ r = ep[x][y].rtp
      BY <1>10, <3>1, EpType, TransportKinds DEF LiveInv
    <3>3. PICK z \in Channels : z = r + 1
      BY <1>10, <3>1, <3>2 DEF LiveInv, ChannelInv, PairsInside
    <3>4. /\ chan[b][r] = [ep |-> <<x, y>>, rtcp |-> FALSE]
          /\ chan[b][z] = [ep |-> <<x, y>>, rtcp |-> TRUE]
      BY <1>10, <3>1, <3>2, <3>3 DEF LiveInv, ChannelInv, ChannelsMatch
    <3>5. chan[b][r] # NoEp /\ chan[b][z] # NoEp
      <4>1. \A f \in BOOLEAN : [ep |-> <<x, y>>, rtcp |-> f] \in Users
        BY DEF Users
      <4>. QED  BY <3>4, <4>1, NamesAssumption
    <3>6. chan'[b][r] = chan[b][r] /\ chan'[b][z] = chan[b][z]
      BY <1>5, <1>7, <3>5
    <3>. QED  BY <3>1, <3>2, <3>3, <3>4, <3>6
  <2>. QED  BY <2>1, <2>2
<1>11. ChannelsMatch'
  BY <1>9, <1>10 DEF ChannelsMatch
<1>12. PairsInside' /\ UsersExist'
  BY <1>9, <1>10 DEF PairsInside, UsersExist
<1>. QED  BY <1>2, <1>8, <1>11, <1>12 DEF LiveInv, ChannelInv

LEMMA SetupFailsInv ==
    ASSUME LiveInv, NEW c \in Conns, NEW s \in Sessions, NEW t \in Tracks, SetupFails(c, s, t)
    PROVE  LiveInv'
<1>. USE DEF LiveInv
<1>1. Idle /\ waiting' = [waiting EXCEPT ![t] = @ /\ TrackPlayed(ep, t)]
      /\ UNCHANGED <<sessList, registered, playing, ep, open, chan, ready, curConn, fed,
                     extraPlays, orphans>> /\ UNCHANGED walkVars
  BY DEF SetupFails
<1>2. /\ waiting' \in [Tracks -> BOOLEAN]
      /\ \A y \in Tracks : y # t => waiting'[y] = waiting[y]
      /\ waiting'[t] = (waiting[t] /\ TrackPlayed(ep, t))
  BY <1>1 DEF TypeOK
<1>3. TypeOK'
  BY <1>1, <1>2 DEF TypeOK, walkVars
<1>4. ChannelInv' /\ CountInv' /\ SessionsConsistent'
  <2>1. ChannelsMatch' /\ PairsInside'
    BY <1>1 DEF ChannelInv, ChannelsMatch, PairsInside
  <2>2. UsersExist'
    BY <1>1 DEF ChannelInv, UsersExist, Exists
  <2>3. SessionsConsistent' /\ CountInv'
    BY <1>1 DEF SessionsConsistent, Opened, CountInv, CountCoversPlayers
  <2>. QED  BY <2>1, <2>2, <2>3 DEF ChannelInv
<1>5. FedInv'
  <2>1. \A y \in Tracks : TrackPlayed(ep, y)' <=> TrackPlayed(ep, y)
    BY <1>1 DEF TrackPlayed, Opened
  <2>2. ASSUME NEW d \in fed' PROVE Exists(d)' /\ d[1] \in playing' /\ ready'[d[2]] /\ waiting'[d[2]]
    <3>1. d \in fed /\ Exists(d) /\ d[1] \in playing /\ ready[d[2]] /\ waiting[d[2]]
      BY <1>1 DEF FedInv, StreamsFollowPlayers
    <3>2. PICK x \in Sessions, y \in Tracks : d = <<x, y>> /\ ep[x][y] # NoEp
      BY <3>1 DEF Exists
    <3>3. x \in Opened
      BY <3>1, <3>2 DEF SessionsConsistent
    <3>4. TrackPlayed(ep, y)
      BY <3>1, <3>2, <3>3 DEF TrackPlayed
    <3>5. waiting'[y]
      BY <1>2, <3>1, <3>2, <3>4
    <3>. QED  BY <1>1, <3>1, <3>2, <3>5 DEF Exists
  <2>3. ASSUME NEW y \in Tracks, ready'[y], waiting'[y] PROVE TrackPlayed(ep, y)'
    <3>1. ready[y] /\ waiting[y]
      BY <1>1, <1>2, <2>3
    <3>. QED  BY <2>1, <3>1 DEF FedInv, StreamsFollowPlayers
  <2>. QED  BY <2>2, <2>3 DEF FedInv, StreamsFollowPlayers
<1>6. WalkInv'
  BY <1>1, IdleWalk
<1>. QED  BY <1>3, <1>4, <1>5, <1>6

\* live_play: the count grows by one, and by no more players than that.
LEMMA PlayInv ==
    ASSUME LiveInv, NEW c \in Conns, NEW s \in Sessions, Play(c, s) PROVE LiveInv'
<1>. USE DEF LiveInv
<1>1. /\ Idle /\ s \in registered /\ curConn < MaxCount /\ playing' = playing \cup {s}
      /\ curConn' = curConn + 1
      /\ waiting' = [t \in Tracks |-> waiting[t] \/ ep[s][t] # NoEp]
      /\ fed' = fed \cup {<<s, t>> : t \in {u \in Tracks : ep[s][u] # NoEp /\ ready[u]}}
      /\ extraPlays' = IF s \in playing THEN extraPlays + 1 ELSE extraPlays
      /\ UNCHANGED <<sessList, registered, ep, open, chan, ready, orphans>> /\ UNCHANGED walkVars
  BY DEF Play
<1>2. curConn \in Nat /\ extraPlays \in Nat /\ curConn' \in 0 .. MaxCount
  BY <1>1, LiveAssumption DEF TypeOK
<1>3. extraPlays' \in Nat
  BY <1>1, <1>2
<1>4. TypeOK'
  <2>1. waiting' \in [Tracks -> BOOLEAN] /\ playing' \subseteq Sessions /\ fed' \subseteq Sessions \X Tracks
    BY <1>1 DEF TypeOK
  <2>. QED  BY <1>1, <1>2, <1>3, <2>1 DEF TypeOK, walkVars
<1>5. ChannelInv' /\ SessionsConsistent'
  <2>1. ChannelsMatch' /\ PairsInside'
    BY <1>1 DEF ChannelInv, ChannelsMatch, PairsInside
  <2>2. UsersExist'
    BY <1>1 DEF ChannelInv, UsersExist, Exists
  <2>3. SessionsConsistent'
    BY <1>1 DEF SessionsConsistent, Opened
  <2>. QED  BY <2>1, <2>2, <2>3 DEF ChannelInv
<1>6. FedInv'
  <2>1. s \in Opened /\ Opened' = Opened
    BY <1>1 DEF SessionsConsistent, Opened
  <2>2. \A t \in Tracks : waiting'[t] <=> (waiting[t] \/ ep[s][t] # NoEp)
    BY <1>1
  <2>3. ASSUME NEW d \in fed' PROVE Exists(d)' /\ d[1] \in playing' /\ ready'[d[2]] /\ waiting'[d[2]]
    <3>1. CASE d \in fed
      <4>1. Exists(d) /\ d[1] \in playing /\ ready[d[2]] /\ waiting[d[2]]
        BY <3>1 DEF FedInv, StreamsFollowPlayers
      <4>. QED  BY <1>1, <2>2, <4>1 DEF Exists
    <3>2. CASE d \notin fed
      <4>1. PICK t \in Tracks : d = <<s, t>> /\ ep[s][t] # NoEp /\ ready[t]
        BY <1>1, <3>2
      <4>. QED  BY <1>1, <2>2, <4>1 DEF Exists
    <3>. QED  BY <3>1, <3>2
  <2>4. ASSUME NEW t \in Tracks, ready'[t], waiting'[t] PROVE TrackPlayed(ep, t)'
    <3>1. CASE ep[s][t] # NoEp
      BY <1>1, <2>1, <3>1 DEF TrackPlayed
    <3>2. CASE ep[s][t] = NoEp
      <4>1. TrackPlayed(ep, t)
        BY <1>1, <2>2, <2>4, <3>2 DEF FedInv, StreamsFollowPlayers
      <4>. QED  BY <1>1, <2>1, <4>1 DEF TrackPlayed
    <3>. QED  BY <3>1, <3>2
  <2>. QED  BY <2>3, <2>4 DEF FedInv, StreamsFollowPlayers
<1>7. CountInv'
  <2>1. PICK P, m : P = playing /\ m = Cardinality(P)
    OBVIOUS
  <2>2. IsFiniteSet(P) /\ m \in Nat /\ curConn = m + extraPlays
    BY <2>1, FS_CardinalityType DEF CountInv, CountCoversPlayers
  <2>3. IsFiniteSet(P \cup {s}) /\ Cardinality(P \cup {s}) = IF s \in P THEN m ELSE m + 1
    BY <2>1, <2>2, FS_AddElement
  <2>4. playing' = P \cup {s}
    BY <1>1, <2>1
  <2>5. CASE s \in P
    BY <1>1, <1>2, <2>1, <2>2, <2>3, <2>4, <2>5 DEF CountInv, CountCoversPlayers
  <2>6. CASE s \notin P
    BY <1>1, <1>2, <2>1, <2>2, <2>3, <2>4, <2>6 DEF CountInv, CountCoversPlayers
  <2>. QED  BY <2>5, <2>6
<1>8. WalkInv'
  BY <1>1, IdleWalk
<1>. QED  BY <1>4, <1>5, <1>6, <1>7, <1>8

-----------------------------------------------------------------------------
(***************************************************************************)
(* next_live_frame                                                         *)
(***************************************************************************)
LEMMA FrameArrivesInv == ASSUME LiveInv, NEW t \in Tracks, FrameArrives(t) PROVE LiveInv'
<1>. USE DEF LiveInv
<1>1. /\ Idle /\ waiting[t] /\ ready' = [ready EXCEPT ![t] = TRUE]
      /\ waiting' = [waiting EXCEPT ![t] = ready[t]]
      /\ walkTrack' = t /\ walkAt' = (IF sessList = << >> THEN NoSession ELSE Head(sessList))
      /\ owed' = Receivers(t)
      /\ UNCHANGED <<sessList, registered, playing, ep, open, chan, curConn, fed, extraPlays, orphans>>
  BY DEF FrameArrives
<1>2. PICK w : w = sessList
  OBVIOUS
<1>3. w \in Seq(Sessions)
  BY <1>2 DEF TypeOK
<1>4. /\ w = << >> => Elems(w) = {}
      /\ w # << >> => Head(w) \in Elems(w) /\ From(w, Head(w)) = Elems(w)
  BY <1>3, HeadOfList
<1>5. Opened = Elems(w) /\ Opened' = Elems(w) /\ Opened \subseteq Sessions
  BY <1>1, <1>2 DEF Opened, SessionsConsistent, TypeOK
<1>6. /\ ready' \in [Tracks -> BOOLEAN] /\ waiting' \in [Tracks -> BOOLEAN]
      /\ ready'[t] /\ waiting'[t] = ready[t]
      /\ \A y \in Tracks : y # t => ready'[y] = ready[y] /\ waiting'[y] = waiting[y]
  <2>1. ready[t] \in BOOLEAN
    BY DEF TypeOK
  <2>. QED  BY <1>1, <2>1 DEF TypeOK
<1>7. \A d \in owed' : d \in Sessions \X Tracks /\ d[2] = t /\ d[1] \in Elems(w)
  BY <1>1, <1>5 DEF Receivers
<1>8. TypeOK'
  <2>1. walkAt' \in Sessions \cup {NoSession}
    BY <1>1, <1>2, <1>4, <1>5
  <2>2. owed' \subseteq Sessions \X Tracks
    BY <1>7
  <2>. QED  BY <1>1, <1>6, <2>1, <2>2 DEF TypeOK
<1>9. ChannelInv' /\ SessionsConsistent' /\ CountInv'
  <2>1. ChannelsMatch' /\ PairsInside'
    BY <1>1 DEF ChannelInv, ChannelsMatch, PairsInside
  <2>2. UsersExist'
    BY <1>1 DEF ChannelInv, UsersExist, Exists
  <2>3. SessionsConsistent' /\ CountInv'
    BY <1>1 DEF SessionsConsistent, Opened, CountInv, CountCoversPlayers
  <2>. QED  BY <2>1, <2>2, <2>3 DEF ChannelInv
<1>10. FedInv'
  <2>1. \A y \in Tracks : TrackPlayed(ep, y)' <=> TrackPlayed(ep, y)
    BY <1>1 DEF TrackPlayed, Opened
  <2>2. ASSUME NEW d \in fed' PROVE Exists(d)' /\ d[1] \in playing' /\ ready'[d[2]] /\ waiting'[d[2]]
    <3>1. Exists(d) /\ d[1] \in playing /\ ready[d[2]] /\ waiting[d[2]]
      BY <1>1 DEF FedInv, StreamsFollowPlayers
    <3>2. PICK x \in Sessions, y \in Tracks : d = <<x, y>>
      BY <3>1 DEF Exists
    <3>3. ready'[y] /\ waiting'[y]
      BY <1>6, <3>1, <3>2
    <3>. QED  BY <1>1, <3>1, <3>2, <3>3 DEF Exists
  <2>3. ASSUME NEW y \in Tracks, ready'[y], waiting'[y] PROVE TrackPlayed(ep, y)'
    <3>1. ready[y] /\ waiting[y]
      BY <1>1, <1>6, <2>3
    <3>. QED  BY <2>1, <3>1 DEF FedInv, StreamsFollowPlayers
  <2>. QED  BY <2>2, <2>3 DEF FedInv, StreamsFollowPlayers
<1>11. WalkInv'
  <2>1. CASE w = << >>
    <3>1. walkAt' = NoSession /\ owed' = {}
      BY <1>1, <1>2, <1>4, <1>7, <2>1
    <3>. QED  BY <3>1 DEF WalkInv, WalkSafe, FrameReachesAll, Ahead, Idle
  <2>2. CASE w # << >>
    <3>1. walkAt' = Head(w) /\ walkAt' \in Opened' /\ walkAt' # NoSession
      BY <1>1, <1>2, <1>4, <1>5, <2>2, LiveAssumption
    <3>2. From(sessList, walkAt)' = Elems(w)
      BY <1>1, <1>2, <1>4, <2>2, <3>1
    <3>. QED  BY <1>1, <1>7, <3>1, <3>2 DEF WalkInv, WalkSafe, FrameReachesAll, Ahead, Idle
  <2>. QED  BY <2>1, <2>2
<1>. QED  BY <1>8, <1>9, <1>10, <1>11

\* ls->next: what lies ahead of it is what lies ahead of ls, without ls.
LEMMA NextAhead ==
    ASSUME LiveInv, ~Idle, NEW n, n = NextOf(sessList, walkAt)
    PROVE  /\ walkAt \in Opened
           /\ n = NoSession => \A d \in owed : d = <<walkAt, walkTrack>>
           /\ n # NoSession => /\ n \in Opened /\ n # walkAt
                               /\ \A d \in owed : \/ d = <<walkAt, walkTrack>>
                                                  \/ d[1] \in From(sessList, n)
<1>1. PICK w, i : w = sessList /\ i = CHOOSE j \in DOMAIN w : w[j] = walkAt
  OBVIOUS
<1>2. w \in Seq(Sessions) /\ Distinct(w) /\ walkAt \in Elems(w) /\ Opened = Elems(w)
      /\ Opened \subseteq Sessions
  BY <1>1 DEF LiveInv, TypeOK, SessionsConsistent, Distinct, WalkInv, WalkSafe, Opened
<1>3. /\ i = Len(w) => From(w, walkAt) = {walkAt}
      /\ i # Len(w) => /\ w[i + 1] \in Elems(w) /\ w[i + 1] # walkAt
                       /\ From(w, walkAt) = {walkAt} \cup From(w, w[i + 1])
  BY <1>1, <1>2, NextInList
<1>4. n = IF i = Len(w) THEN NoSession ELSE w[i + 1]
  BY <1>1 DEF NextOf
<1>5. \A d \in owed : /\ d \in Sessions \X Tracks /\ d[2] = walkTrack
                      /\ d[1] \in From(w, walkAt)
  BY <1>1 DEF LiveInv, TypeOK, WalkInv, Ahead
<1>6. CASE i = Len(w)
  BY <1>2, <1>3, <1>4, <1>5, <1>6
<1>7. CASE i # Len(w)
  <2>1. n = w[i + 1] /\ n \in Opened /\ n # walkAt
    BY <1>2, <1>3, <1>4, <1>7
  <2>2. n # NoSession
    BY <1>2, <2>1, LiveAssumption
  <2>3. ASSUME NEW d \in owed PROVE d = <<walkAt, walkTrack>> \/ d[1] \in From(w, n)
    BY <1>3, <1>5, <1>7, <2>1
  <2>. QED  BY <1>1, <1>2, <2>1, <2>2, <2>3
<1>. QED  BY <1>6, <1>7

LEMMA VisitSendsInv == ASSUME LiveInv, VisitSends PROVE LiveInv'
<1>. USE DEF LiveInv
<1>1. /\ ~Idle
      /\ UNCHANGED <<sessList, registered, playing, ep, open, chan, ready, waiting,
                     curConn, walkTrack, fed, extraPlays, orphans>>
      /\ owed' = owed \ {<<walkAt, walkTrack>>} /\ walkAt' = NextOf(sessList, walkAt)
  BY DEF VisitSends, Served, VisitNext
<1>2. PICK n : n = NextOf(sessList, walkAt)
  OBVIOUS
<1>3. /\ n = NoSession => \A d \in owed : d = <<walkAt, walkTrack>>
      /\ n # NoSession => /\ n \in Opened /\ n # walkAt
                          /\ \A d \in owed : d = <<walkAt, walkTrack>> \/ d[1] \in From(sessList, n)
  BY <1>1, <1>2, NextAhead
<1>4. TypeOK'
  <2>1. Opened \subseteq Sessions
    BY DEF SessionsConsistent, TypeOK
  <2>2. walkAt' \in Sessions \cup {NoSession} /\ owed' \subseteq Sessions \X Tracks
    BY <1>1, <1>2, <1>3, <2>1 DEF TypeOK
  <2>. QED  BY <1>1, <2>2 DEF TypeOK
<1>5. ChannelInv' /\ SessionsConsistent' /\ CountInv'
  BY <1>1 DEF ChannelInv, ChannelsMatch, PairsInside, UsersExist, Exists, SessionsConsistent, Opened,
              CountInv, CountCoversPlayers
<1>6. FedInv'
  BY <1>1 DEF FedInv, Exists, StreamsFollowPlayers, TrackPlayed, Opened
<1>7. WalkInv'
  <2>1. \A d \in owed' : d \in owed /\ d # <<walkAt, walkTrack>> /\ d[2] = walkTrack
    BY <1>1 DEF WalkInv, Ahead
  <2>2. Opened' = Opened /\ walkAt' = n /\ sessList' = sessList
    BY <1>1, <1>2 DEF Opened
  <2>. QED  BY <1>1, <1>3, <2>1, <2>2 DEF WalkInv, WalkSafe, FrameReachesAll, Ahead, Idle
<1>. QED  BY <1>4, <1>5, <1>6, <1>7

\* The endpoint that cannot be sent to is torn down, and perhaps its session is
\* freed: the walk goes on at ls->next, which it read before.
LEMMA VisitFailsInv == ASSUME LiveInv, VisitFails PROVE LiveInv'
<1>. USE DEF LiveInv
<1>1. PICK D : D = {<<walkAt, walkTrack>>}
  OBVIOUS
<1>2. /\ ~Idle /\ Teardown(D) /\ UNCHANGED <<open, ready, walkTrack, extraPlays, orphans>>
      /\ owed' = owed \ {<<walkAt, walkTrack>>} /\ walkAt' = NextOf(sessList, walkAt)
      /\ walkAt \in playing /\ ep[walkAt][walkTrack] = Udp
  BY <1>1 DEF VisitFails, Served, VisitNext
<1>3. PICK n : n = NextOf(sessList, walkAt)
  OBVIOUS
<1>4. /\ n = NoSession => \A d \in owed : d = <<walkAt, walkTrack>>
      /\ n # NoSession => /\ n \in Opened /\ n # walkAt
                          /\ \A d \in owed : d = <<walkAt, walkTrack>> \/ d[1] \in From(sessList, n)
  BY <1>2, <1>3, NextAhead
<1>5. \A d \in D : Exists(d)
  BY <1>1, <1>2, TransportKinds DEF Exists, TypeOK
<1>6. \A c \in open \ open' : EpsOn(c) \subseteq D
  BY <1>2
<1>7. TypeOK'
  <2>1. Opened \subseteq Sessions
    BY DEF SessionsConsistent, TypeOK
  <2>2. walkAt' \in Sessions \cup {NoSession} /\ owed' \subseteq owed /\ open' \subseteq Conns
    BY <1>2, <1>3, <1>4, <2>1 DEF TypeOK
  <2>. QED  BY <1>2, <1>5, <2>2, TeardownType
<1>8. ChannelInv' /\ SessionsConsistent' /\ FedInv' /\ CountInv'
  BY <1>2, <1>5, <1>6, TeardownChannels, TeardownSessions, TeardownFed, TeardownCount
<1>9. WalkInv'
  <2>1. PICK closed : closed = Emptied(D)
    OBVIOUS
  <2>2. closed \subseteq {walkAt}
    BY <1>1, <2>1 DEF Emptied
  <2>3. /\ Opened' = Opened \ closed
        /\ \A s \in Opened \ closed : From(sessList, s) \ closed = From(sessList', s)
    BY <1>2, <2>1, TeardownList
  <2>4. \A d \in owed' : d \in owed /\ d # <<walkAt, walkTrack>> /\ d[2] = walkTrack /\ d[1] # walkAt
    <3>1. \A d \in owed : d \in Sessions \X Tracks /\ d[2] = walkTrack
      BY <1>2 DEF WalkInv, Ahead, TypeOK
    <3>. QED  BY <1>2, <3>1
  <2>5. CASE n = NoSession
    BY <1>2, <1>3, <1>4, <2>4, <2>5 DEF WalkInv, WalkSafe, FrameReachesAll, Ahead, Idle
  <2>6. CASE n # NoSession
    <3>1. n \in Opened' /\ From(sessList', n) = From(sessList, n) \ closed
      BY <1>4, <2>2, <2>3, <2>6
    <3>2. \A d \in owed' : d[1] \in From(sessList', n)
      BY <1>4, <2>2, <2>4, <2>6, <3>1
    <3>. QED  BY <1>2, <1>3, <2>4, <2>6, <3>1, <3>2
              DEF WalkInv, WalkSafe, FrameReachesAll, Ahead, Idle
  <2>. QED  BY <2>5, <2>6
<1>. QED  BY <1>7, <1>8, <1>9

-----------------------------------------------------------------------------
LEMMA InitInv == Init => LiveInv
<1>. SUFFICES ASSUME Init PROVE LiveInv
  OBVIOUS
<1>. USE DEF Init
<1>1. TypeOK
  <2>1. sessList \in Seq(Sessions) /\ curConn \in 0 .. MaxCount /\ extraPlays \in Nat
    BY LiveAssumption
  <2>2. /\ ep \in [Sessions -> [Tracks -> Transports \cup {NoEp}]]
        /\ chan \in [Conns -> [Channels -> Users \cup {NoEp}]]
    OBVIOUS
  <2>. QED  BY <2>1, <2>2 DEF TypeOK
<1>2. ChannelInv
  BY DEF ChannelInv, ChannelsMatch, PairsInside, UsersExist, Exists
<1>3. Opened = {} /\ DOMAIN sessList = {}
  <2>1. PICK w : w = sessList
    OBVIOUS
  <2>2. w \in Seq(Sessions) /\ w = << >> /\ DOMAIN w = {}
    BY <2>1
  <2>. QED  BY <2>1, <2>2, HeadOfList DEF Opened
<1>4. SessionsConsistent
  BY <1>3 DEF SessionsConsistent
<1>5. FedInv
  BY DEF FedInv, StreamsFollowPlayers
<1>6. CountInv
  <2>1. playing = {} /\ curConn = 0 /\ extraPlays = 0
    OBVIOUS
  <2>. QED  BY <2>1, FS_EmptySet DEF CountInv, CountCoversPlayers
<1>7. WalkInv
  BY DEF WalkInv, WalkSafe, FrameReachesAll, Ahead, Idle
<1>. QED  BY <1>1, <1>2, <1>4, <1>5, <1>6, <1>7 DEF LiveInv

LEMMA StepInv == LiveInv /\ [Next]_vars => LiveInv'
<1>. SUFFICES ASSUME LiveInv, [Next]_vars PROVE LiveInv'
  OBVIOUS
<1>1. ASSUME NEW c \in Conns, Accept(c) \/ DropConn(c) PROVE LiveInv'
  BY <1>1, AcceptInv, DropConnInv
<1>2. ASSUME NEW s \in Sessions, DescribeUnauthorized(s) PROVE LiveInv'
  BY <1>2, DescribeInv
<1>3. ASSUME NEW c \in Conns, NEW s \in Sessions, Play(c, s) \/ HandleTeardown(c, s)
      PROVE  LiveInv'
  BY <1>3, PlayInv, HandleTeardownInv
<1>4. ASSUME NEW c \in Conns, NEW s \in Sessions, NEW t \in Tracks,
             SetupUdp(c, s, t) \/ SetupFails(c, s, t)
      PROVE  LiveInv'
  BY <1>4, SetupUdpInv, SetupFailsInv
<1>5. ASSUME NEW c \in Conns, NEW s \in Sessions, NEW t \in Tracks, NEW k \in Channels,
             SetupInterleaved(c, s, t, k)
      PROVE  LiveInv'
  BY <1>5, SetupInterleavedInv
<1>6. ASSUME NEW s \in Sessions, NEW t \in Tracks, UdpEndpointDies(s, t) PROVE LiveInv'
  BY <1>6, UdpEndpointDiesInv
<1>7. ASSUME NEW t \in Tracks, FrameArrives(t) PROVE LiveInv'
  BY <1>7, FrameArrivesInv
<1>8. CASE VisitSends \/ VisitFails
  BY <1>8, VisitSendsInv, VisitFailsInv
<1>9. CASE UNCHANGED vars
  <2>1. UNCHANGED <<sessList, registered, playing, ep, open, chan, ready, waiting,
                    curConn, walkTrack, walkAt, fed, owed, extraPlays, orphans>>
    BY <1>9 DEF vars
  <2>2. TypeOK' /\ SessionsConsistent' /\ CountInv'
    BY <2>1 DEF LiveInv, TypeOK, SessionsConsistent, Opened, CountInv, CountCoversPlayers
  <2>3. ChannelInv'
    BY <2>1 DEF LiveInv, ChannelInv, ChannelsMatch, PairsInside, UsersExist, Exists
  <2>4. FedInv' /\ WalkInv'
    BY <2>1 DEF LiveInv, FedInv, Exists, StreamsFollowPlayers, TrackPlayed, Opened,
                WalkInv, WalkSafe, FrameReachesAll, Ahead, Idle
  <2>. QED  BY <2>2, <2>3, <2>4 DEF LiveInv
<1>. QED  BY <1>1, <1>2, <1>3, <1>4, <1>5, <1>6, <1>7, <1>8, <1>9 DEF Next

LEMMA LiveInvariance == Spec => []LiveInv
  BY InitInv, StepInv, PTL DEF Spec

\* Every value the session layer keeps has its type, and u32CurConn its bound.
THEOREM TypesHold == Spec => []TypeOK
<1>1. LiveInv => TypeOK
  BY DEF LiveInv
<1>. QED  BY <1>1, LiveInvariance, PTL

\* For any number of connections, channels, sessions and tracks, and however SETUP,
\* TEARDOWN, disconnects, dying clients and send errors follow each other: the
\* ichan tables and the transports of the endpoints agree.  No channel points to an
\* endpoint that was freed, none is shared, and no endpoint sends on a connection
\* that drop_conn has freed.
THEOREM ChannelsAlwaysMatch == Spec => []ChannelsMatch
<1>1. LiveInv => ChannelsMatch
  BY DEF LiveInv, ChannelInv
<1>. QED  BY <1>1, LiveInvariance, PTL

\* The session lists of live.c and rtsp.c agree: a session a client can name exists
\* and owns an endpoint, and no session outlives its last endpoint but for those of
\* a DESCRIBE without authorisation.
THEOREM SessionsStayConsistent == Spec => []SessionsConsistent
<1>1. LiveInv => SessionsConsistent
  BY DEF LiveInv
<1>. QED  BY <1>1, LiveInvariance, PTL

\* The encoder of a ready track runs for as long as somebody PLAYs it, whoever else
\* is torn down (track_check_running), and only then.
THEOREM StreamsFollow == Spec => []StreamsFollowPlayers
<1>1. LiveInv => StreamsFollowPlayers
  BY DEF LiveInv, FedInv
<1>. QED  BY <1>1, LiveInvariance, PTL

\* u32CurConn is the number of playing sessions plus the repeated PLAYs: the floor
\* at zero in live_teardown never hides a session.
THEOREM CountCovers == Spec => []CountCoversPlayers
<1>1. LiveInv => CountCoversPlayers
  BY DEF LiveInv, CountInv
<1>. QED  BY <1>1, LiveInvariance, PTL

\* The walk of next_live_frame stays within the list that it deletes from.
THEOREM WalkIsSafe == Spec => []WalkSafe
<1>1. LiveInv => WalkSafe
  BY DEF LiveInv, WalkInv
<1>. QED  BY <1>1, LiveInvariance, PTL

\* A frame reaches every session that plays its track when next_live_frame starts,
\* whichever sends fail and whichever sessions are freed on the way.
THEOREM FramesReachAll == Spec => []FrameReachesAll
<1>1. LiveInv => FrameReachesAll
  BY DEF LiveInv, WalkInv
<1>. QED  BY <1>1, LiveInvariance, PTL
=============================================================================
