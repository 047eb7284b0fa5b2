------------------------------ MODULE RtpProofs ------------------------------
(***************************************************************************)
(* Proofs about the three modules of rtp.c and the payload formats: the    *)
(* clock of an endpoint (RtpEndpoint), its search for ports (UdpPorts) and *)
(* its packets (RtpPackets).  The last two name their specifications for   *)
(* the part they are of, PortsSpec and PacketsSpec.                        *)
(***************************************************************************)
EXTENDS RtpEndpoint, UdpPorts, RtpPackets, ListsProofs, FiniteSetTheorems,
        SequenceTheorems, TLAPS

(***************************************************************************)
(* RtpEndpoint, for any intervals, any lateness of the event loop and any  *)
(* width of time_diff's result.                                            *)
(***************************************************************************)
\* What time_diff can return.
Differences == -Half .. Half - 1

\* Types, and what is always true of an endpoint's clock.
ClockType ==
    /\ trans \in {"none", "udp", "inter"}
    /\ playing \in BOOLEAN /\ force \in BOOLEAN
    /\ armed \in BOOLEAN /\ wrapped \in BOOLEAN
    /\ left \in Differences
    /\ sinceRecv \in Nat /\ sinceSend \in Nat
    /\ late \in 0 .. MaxLate

\* time_diff is exact for differences that fit, and its result always does.
LEMMA WrapExact ==
    ASSUME NEW s \in Int
    PROVE  /\ Wrap(s) \in Differences
           /\ s \in Differences => Wrap(s) = s
<1>. DEFINE b == 2 * Half
            a == s + Half
<1>1. b \in Nat \ {0} /\ a \in Int /\ Half \in Nat
  BY ClockAssumption
<1>. HIDE DEF a, b
<1>2. a % b \in 0 .. b - 1
  BY <1>1
<1>3. a \in 0 .. b - 1 => a % b = a
  BY <1>1
<1>. QED  BY <1>1, <1>2, <1>3 DEF a, b, Wrap, Differences

-----------------------------------------------------------------------------
\* How far the timer is from its next turn.
Ahead == IF left > 0 THEN left ELSE 0

\* While the fire time has not wrapped, it is at most an interval ahead, and
\* only a timer that is due can be late.
FireTimeNear == ~wrapped => left <= Interval /\ (left > 0 => late = 0)

\* The last report went out when the timer fired last, or later.
SendAge == armed /\ ~wrapped => sinceSend <= Interval - Ahead + late

\* At the timer's last turn the client had been heard of within its timeout.
RecvAge == armed /\ ~wrapped /\ trans = "udp"
             => sinceRecv <= ClientTimeout + Interval - Ahead + late

\* The inductive invariant: the ages, measured against the timer.
ClockInv == ClockType /\ FireTimeNear /\ SendAge /\ RecvAge

\* The clock of a deleted endpoint says nothing.
LEMMA TeardownInv == Teardown => ClockInv'
<1>. SUFFICES ASSUME Teardown PROVE ClockInv'
  OBVIOUS
<1>1. 0 \in Differences /\ 0 \in 0 .. MaxLate /\ 0 \in Nat
  BY ClockAssumption DEF Differences
<1>2. ClockType'
  BY <1>1 DEF Teardown, ClockType, Differences
<1>3. FireTimeNear'
  BY ClockAssumption DEF Teardown, FireTimeNear
<1>4. SendAge' /\ RecvAge'
  BY DEF Teardown, SendAge, RecvAge
<1>. QED  BY <1>2, <1>3, <1>4 DEF ClockInv

\* A second that passes takes the timer one second nearer, and makes the ages
\* and the lateness of a due timer one second more.
LEMMA TickInv == ClockInv /\ Tick => ClockInv'
<1>. SUFFICES ASSUME ClockInv, Tick PROVE ClockInv'
  OBVIOUS
<1>. USE ClockAssumption DEF ClockInv, ClockType, Tick, Due
<1>1. left' \in Differences /\ (left # -Half => left' = left - 1)
  BY WrapExact DEF Differences
<1>2. sinceRecv' \in Nat /\ sinceRecv' <= sinceRecv + 1
  BY DEF Older
<1>3. sinceSend' \in Nat /\ sinceSend' <= sinceSend + 1
  BY DEF Older
<1>4. late' \in 0 .. MaxLate
  OBVIOUS
<1>5. ClockType'
  BY <1>1, <1>2, <1>3, <1>4
<1>6. ~wrapped' => ~wrapped /\ left' = left - 1
  BY <1>1
<1>7. FireTimeNear'
  BY <1>6 DEF FireTimeNear, Differences
<1>8. SendAge'
  BY <1>3, <1>6 DEF FireTimeNear, SendAge, Ahead, Differences
<1>9. RecvAge'
  BY <1>2, <1>6 DEF FireTimeNear, RecvAge, Ahead, Differences
<1>. QED  BY <1>5, <1>7, <1>8, <1>9

\* rtcp_fire sends a report, or drops the endpoint, and resched_event moves the
\* timer an interval on.
LEMMA TimerFiresInv == ClockInv /\ TimerFires => ClockInv'
<1>. SUFFICES ASSUME ClockInv, TimerFires, ~Teardown PROVE ClockInv'
  BY TeardownInv
<1>. USE ClockAssumption DEF ClockInv, ClockType, Differences
<1>1. /\ ~ClientSilent /\ ReportSent /\ Resched
      /\ late' = 0 /\ left <= 0
      /\ UNCHANGED <<armed, wrapped>>
  BY DEF TimerFires, Due
<1>2. left' = left + Interval
  BY <1>1, WrapExact DEF Resched
<1>3. left' \in Differences /\ late' \in 0 .. MaxLate
  BY <1>1, <1>2
<1>4. ClockType'
  BY <1>1, <1>3 DEF ReportSent
<1>5. FireTimeNear'
  BY <1>1, <1>2 DEF FireTimeNear
<1>6. SendAge'
  BY <1>1, <1>2 DEF ReportSent, SendAge, Ahead
<1>7. RecvAge'
  BY <1>1, <1>2 DEF ReportSent, ClientSilent, RecvAge, Ahead
<1>. QED  BY <1>4, <1>5, <1>6, <1>7

\* The first packet arms a timer that may be far behind; its report and its test
\* of the client start the ages anew.
LEMMA FirstPacketInv == ClockInv /\ FirstPacket => ClockInv'
<1>. SUFFICES ASSUME ClockInv, FirstPacket, ~Teardown PROVE ClockInv'
  BY TeardownInv
<1>. USE ClockAssumption DEF ClockInv, ClockType, Differences
<1>1. ~ClientSilent /\ ReportSent /\ armed' = TRUE /\ UNCHANGED <<left, late, wrapped>>
  BY DEF FirstPacket
<1>2. ClockType'
  BY <1>1 DEF ReportSent
<1>3. FireTimeNear'
  BY <1>1 DEF FireTimeNear
<1>4. SendAge'
  BY <1>1 DEF FireTimeNear, ReportSent, SendAge, Ahead
<1>5. RecvAge'
  BY <1>1 DEF FireTimeNear, ReportSent, ClientSilent, RecvAge, Ahead
<1>. QED  BY <1>2, <1>3, <1>4, <1>5

\* So does a packet that finds the last report too old.
LEMMA PacketInv == ClockInv /\ Packet => ClockInv'
<1>. SUFFICES ASSUME ClockInv, Packet, ~Teardown PROVE ClockInv'
  BY TeardownInv
<1>. USE ClockAssumption DEF ClockInv, ClockType, Differences
<1>1. ~ClientSilent /\ ReportSent /\ UNCHANGED <<armed, left, late, wrapped>>
  BY DEF Packet
<1>2. ClockType'
  BY <1>1 DEF ReportSent
<1>3. FireTimeNear'
  BY <1>1 DEF FireTimeNear
<1>4. SendAge'
  BY <1>1 DEF FireTimeNear, ReportSent, SendAge, Ahead
<1>5. RecvAge'
  BY <1>1 DEF FireTimeNear, ReportSent, ClientSilent, RecvAge, Ahead
<1>. QED  BY <1>2, <1>3, <1>4, <1>5

\* The invariant holds at first, and every step keeps it.
LEMMA ClockInvariance == Spec => []ClockInv
<1>. USE ClockAssumption
<1>1. Init => ClockInv
  <2>. SUFFICES ASSUME Init PROVE ClockInv
    OBVIOUS
  <2>1. 0 \in Differences /\ 0 \in 0 .. MaxLate /\ 0 \in Nat
    BY DEF Differences
  <2>2. ClockType
    BY <2>1 DEF Init, ClockType, Differences
  <2>3. FireTimeNear /\ SendAge /\ RecvAge
    BY DEF Init, FireTimeNear, SendAge, RecvAge
  <2>. QED  BY <2>2, <2>3 DEF ClockInv
<1>2. ClockInv /\ [Next]_vars => ClockInv'
  <2>. SUFFICES ASSUME ClockInv, [Next]_vars PROVE ClockInv'
    OBVIOUS
  <2>. USE DEF ClockInv, ClockType, Differences, FireTimeNear, SendAge, RecvAge, Ahead
  <2>1. ASSUME NEW tr \in {"udp", "inter"}, NewEndpoint(tr) PROVE ClockInv'
    <3>1. Interval \in Differences /\ 0 \in 0 .. MaxLate
      OBVIOUS
    <3>2. ClockType'
      BY <2>1, <3>1 DEF NewEndpoint
    <3>3. FireTimeNear' /\ SendAge' /\ RecvAge'
      BY <2>1 DEF NewEndpoint
    <3>. QED  BY <3>2, <3>3
  <2>2. CASE Play
    BY <2>2 DEF Play
  <2>3. CASE EndpointDies
    BY <2>3, TeardownInv DEF EndpointDies
  <2>4. CASE ClientHeard
    BY <2>4 DEF ClientHeard
  <2>5. CASE UNCHANGED vars
    BY <2>5 DEF vars
  <2>. QED  BY <2>1, <2>2, <2>3, <2>4, <2>5, FirstPacketInv, PacketInv, TimerFiresInv,
               TickInv DEF Next
<1>. QED  BY <1>1, <1>2, PTL DEF Spec

-----------------------------------------------------------------------------
\* From the first packet on the last report is at most an interval old, plus the
\* present lateness of the loop, unless time_diff has overflowed (rtcp_fire,
\* resched_event).
THEOREM ReportsKeepFlowing == Spec => []ReportsFlow
<1>1. ClockInv => ReportsFlow
  BY ClockAssumption
     DEF ClockInv, ClockType, Differences, SendAge, FireTimeNear, Ahead, ReportsFlow
<1>. QED  BY <1>1, ClockInvariance, PTL

\* A UDP client that falls silent is dropped within the timeout, one interval and
\* the greatest lateness of the loop (rtcp_send), with the same exception.
THEOREM SilentClientsGo == Spec => []SilentClientDropped
<1>1. ClockInv => SilentClientDropped
  BY ClockAssumption
     DEF ClockInv, ClockType, Differences, RecvAge, FireTimeNear, Ahead, SilentClientDropped
<1>. QED  BY <1>1, ClockInvariance, PTL

\* Only a loop that is late by more than the server timeout exceeds the interval
\* has the rate cut (send_rtp_packet).
THEOREM RateCutNeedsLateness == Spec => []RateCutOnlyWhenLate
<1>1. ClockType /\ ReportsFlow => RateCutOnlyWhenLate
  BY ClockAssumption DEF ClockType, ReportsFlow, RateCutOnlyWhenLate, ReportOverdue
<1>2. ClockInv => ClockType
  BY DEF ClockInv
<1>. QED  BY <1>1, <1>2, ClockInvariance, ReportsKeepFlowing, PTL

(***************************************************************************)
(* UdpPorts, for any range of ports and any finite set of endpoints.       *)
(***************************************************************************)
\* Types.  The search's port is even and may be just past the range.
PortType ==
    /\ others \subseteq Ports
    /\ portOf \in [Eps -> Pairs \cup {NoFd}]
    /\ caller \in Eps \cup {NoEp}
    /\ port \in PortStart .. PortEnd + 1 /\ port % 2 = 0
    /\ tries \in 0 .. MaxTries
    /\ fds \in Int /\ failed \in Nat

\* How the two descriptors of the search hang together: rtpfd is bound to the
\* search's port, rtcpfd to the next one and only after rtpfd.
Sockets ==
    /\ rtp \in {NoFd, Fresh, port} /\ rtcp \in {NoFd, Fresh, port + 1}
    /\ rtp = port => port \in Pairs /\ tries < MaxTries
    /\ rtcp = NoFd => rtp = NoFd
    /\ rtcp = port + 1 => rtp = port
    /\ caller = NoEp => rtcp = NoFd

\* What the search has bound is nobody else's.
Exclusive ==
    /\ caller # NoEp => portOf[caller] = NoFd
    /\ rtp = port => port \notin others /\ \A e \in Connected : portOf[e] # port
    /\ rtcp = port + 1 => port + 1 \notin others

\* The n pairs before pair w, in the cyclic order of the search.
Behind(w, n) ==
    {q \in Pairs : IF q < w THEN w - q <= 2 * n ELSE w - q + 2 * MaxTries <= 2 * n}

\* The search has come to the pairs that lie `tries' behind its port, and to the
\* port once it is bound.
Searched ==
    caller # NoEp => tried = Behind(Wrapped(port), tries)
                               \cup (IF rtp = port THEN {port} ELSE {})

\* Every open descriptor belongs to an endpoint or to the search.
Accounted ==
    failed = 0 => fds = 2 * Cardinality(Connected) + (IF rtp = NoFd THEN 0 ELSE 1)
                          + (IF rtcp = NoFd THEN 0 ELSE 1)

PortInv == PortType /\ Sockets /\ PairsOwned /\ Exclusive /\ Searched /\ Accounted

-----------------------------------------------------------------------------
\* max_tries is the number of pairs: PortStart + 2 * k for k below it.
LEMMA RangeOfPairs ==
    /\ MaxTries \in Nat \ {0}
    /\ \A q \in Int : q \in Pairs <=> /\ q % 2 = 0 /\ PortStart <= q
                                      /\ q <= PortStart + 2 * MaxTries - 2
  BY PortAssumption DEF MaxTries, Pairs, Ports

\* Wrapped(port) is a pair, and so is what follows a pair in cyclic order.
LEMMA WrappedIsPair ==
    ASSUME NEW p \in PortStart .. PortEnd + 1, p % 2 = 0
    PROVE  Wrapped(p) \in Pairs
  BY PortAssumption DEF Wrapped, Pairs, Ports

\* No pair is behind at the start of a search; all of them are after max_tries.
LEMMA BehindBounds ==
    ASSUME NEW w \in Pairs
    PROVE  Behind(w, 0) = {} /\ Behind(w, MaxTries) = Pairs
<1>. w \in Int
  BY PortAssumption DEF Pairs, Ports
<1>. \A q \in Pairs : q \in Int
  BY PortAssumption DEF Pairs, Ports
<1>1. ASSUME NEW q \in Pairs
      PROVE  ~IF q < w THEN w - q <= 2 * 0 ELSE w - q + 2 * MaxTries <= 2 * 0
  BY RangeOfPairs, PortAssumption
<1>2. ASSUME NEW q \in Pairs
      PROVE  IF q < w THEN w - q <= 2 * MaxTries ELSE w - q + 2 * MaxTries <= 2 * MaxTries
  BY RangeOfPairs, PortAssumption
<1>. QED  BY <1>1, <1>2 DEF Behind

\* Going on to the next port leaves one pair more behind.
LEMMA BehindStep ==
    ASSUME NEW w \in Pairs, NEW n \in Nat
    PROVE  Behind(Wrapped(w + 2), n + 1) = Behind(w, n) \cup {w}
<1>. DEFINE v == Wrapped(w + 2)
<1>1. w \in Int /\ PortStart \in Int /\ MaxTries \in Int
  BY RangeOfPairs, PortAssumption DEF Pairs, Ports
<1>2. \/ v = w + 2
      \/ v = PortStart /\ w = PortStart + 2 * MaxTries - 2
  BY PortAssumption, RangeOfPairs DEF Wrapped, Pairs, Ports, MaxTries
<1>3. ASSUME NEW q \in Pairs
      PROVE  (IF q < v THEN v - q <= 2 * (n + 1) ELSE v - q + 2 * MaxTries <= 2 * (n + 1))
               <=> \/ IF q < w THEN w - q <= 2 * n ELSE w - q + 2 * MaxTries <= 2 * n
                   \/ q = w
  <2>1. q \in Int /\ q % 2 = 0 /\ w % 2 = 0 /\ PortStart <= q
        /\ q <= PortStart + 2 * MaxTries - 2 /\ n \in Int /\ n >= 0
    BY <1>1, RangeOfPairs, PortAssumption DEF Pairs, Ports
  <2>2. q > w => q >= w + 2
    BY <2>1, <1>1
  <2>3. q >= w => w - q + 2 * MaxTries >= 2
    BY <2>1, <1>1, RangeOfPairs
  <2>. HIDE DEF v
  <2>. QED  BY <1>1, <1>2, <2>1, <2>2, <2>3
<1>. HIDE DEF v
<1>. QED  BY <1>3 DEF Behind, v

\* Who is connected, when one endpoint gets a pair or gives it back.
LEMMA ConnectedChanges ==
    ASSUME PortType, NEW e \in Eps, NEW x, portOf' = [portOf EXCEPT ![e] = x]
    PROVE  Connected' = IF x = NoFd THEN Connected \ {e} ELSE Connected \cup {e}
  BY DEF PortType, Connected

\* There are finitely many.
LEMMA ConnectedFinite ==
    IsFiniteSet(Connected) /\ Cardinality(Connected) \in Nat
<1>1. IsFiniteSet(Connected)
  BY NamesAssumption, FS_Subset DEF Connected
<1>. QED  BY <1>1, FS_CardinalityType

-----------------------------------------------------------------------------
\* A search begins with no descriptor and nothing tried.
LEMMA BeginInv ==
    ASSUME PortInv, NEW e \in Eps, NEW p \in PortStart .. PortEnd - 1, Begin(e, p)
    PROVE  PortInv'
<1>. USE DEF PortInv
<1>1. port' \in PortStart .. PortEnd + 1 /\ port' % 2 = 0
  BY PortAssumption DEF Begin, EvenStart
<1>2. 0 \in 0 .. MaxTries
  BY RangeOfPairs
<1>3. PortType'
  BY <1>1, <1>2 DEF Begin, PortType
<1>4. port' \in Int /\ NoFd # port' /\ NoFd # port' + 1 /\ NoFd # Fresh
  BY <1>1, NamesAssumption, PortAssumption
<1>5. Connected' = Connected
  BY DEF Begin, Connected
<1>6. Sockets' /\ Exclusive'
  BY <1>4, NamesAssumption DEF Begin, Sockets, Exclusive
<1>7. PairsOwned'
  BY <1>5 DEF Begin, PairsOwned
<1>8. Searched'
  <2>1. Behind(Wrapped(port'), 0) = {}
    BY <1>1, WrappedIsPair, BehindBounds
  <2>. QED  BY <2>1, <1>4 DEF Begin, Searched
<1>9. Accounted'
  <2>1. rtp = NoFd /\ rtcp = NoFd
    BY DEF Begin, Sockets
  <2>. QED  BY <2>1, <1>5 DEF Begin, Accounted
<1>. QED  BY <1>3, <1>6, <1>7, <1>8, <1>9

\* A return leaves the search with no descriptors, bound or not.
LEMMA ReturnInv ==
    ASSUME PortInv, Return, UNCHANGED others
    PROVE  Sockets' /\ Searched' /\ Exclusive'
           /\ caller' \in Eps \cup {NoEp}
           /\ port' \in PortStart .. PortEnd + 1 /\ port' % 2 = 0
           /\ tries' \in 0 .. MaxTries
<1>1. port' \in PortStart .. PortEnd + 1 /\ port' % 2 = 0 /\ tries' \in 0 .. MaxTries
  BY PortAssumption, RangeOfPairs DEF Return
<1>2. port' \in Int /\ NoFd # port' /\ NoFd # port' + 1
  BY <1>1, NamesAssumption, PortAssumption
<1>. QED  BY <1>1, <1>2 DEF Return, Sockets, Searched, Exclusive

\* A return that leaves endpoints alone and closes what the search had opened,
\* or counts itself as one that did not.
LEMMA ReturnAlone ==
    ASSUME PortInv, Return, UNCHANGED <<others, portOf>>,
           \/ /\ UNCHANGED failed
              /\ fds' = fds - (IF rtp = NoFd THEN 0 ELSE 1) - (IF rtcp = NoFd THEN 0 ELSE 1)
           \/ failed' = failed + 1 /\ UNCHANGED fds
    PROVE  PortInv'
<1>. USE DEF PortInv
<1>1. fds' \in Int /\ failed' \in Nat
  BY DEF PortType
<1>2. PortType'
  BY <1>1, ReturnInv DEF PortType
<1>3. Connected' = Connected
  BY DEF Connected
<1>4. PairsOwned'
  BY <1>3 DEF PairsOwned
<1>5. rtp' = NoFd /\ rtcp' = NoFd
  BY DEF Return
<1>6. Accounted'
  BY <1>3, <1>5, ConnectedFinite DEF Accounted, PortType
<1>. QED  BY <1>2, <1>4, <1>6, ReturnInv

\* Sockets are made, or none can be had.
LEMMA MakeSocketsInv == PortInv /\ MakeSockets => PortInv'
<1>. SUFFICES ASSUME PortInv, MakeSockets PROVE PortInv'
  OBVIOUS
<1>. USE DEF PortInv
<1>1. CASE rtcp = NoFd /\ Return /\ UNCHANGED <<others, portOf, fds, failed>>
  <2>1. fds' = fds - (IF rtp = NoFd THEN 0 ELSE 1) - (IF rtcp = NoFd THEN 0 ELSE 1)
    BY <1>1 DEF MakeSockets, PortType
  <2>. QED  BY <1>1, <2>1, ReturnAlone
<1>2. CASE rtcp # NoFd /\ ReturnOpen
  BY <1>2, ReturnAlone DEF ReturnOpen
<1>3. CASE /\ rtp' = Fresh /\ rtcp' = Fresh
           /\ fds' = fds + (IF rtcp = NoFd THEN 2 ELSE 1)
           /\ UNCHANGED <<others, portOf, caller, port, tries, tried, failed>>
  <2>1. port \in Int /\ Fresh # port /\ NoFd # port /\ Fresh # port + 1 /\ Fresh # NoFd
    BY NamesAssumption, PortAssumption DEF PortType
  <2>2. Connected' = Connected
    BY <1>3 DEF Connected
  <2>3. PortType' /\ PairsOwned'
    BY <1>3, <2>2 DEF PortType, PairsOwned
  <2>4. Sockets' /\ Exclusive' /\ Searched'
    BY <1>3, <2>1 DEF MakeSockets, Sockets, Exclusive, Searched
  <2>5. Accounted'
    BY <1>3, <2>1, <2>2, ConnectedFinite DEF MakeSockets, Accounted, PortType
  <2>. QED  BY <2>3, <2>4, <2>5
<1>. QED  BY <1>1, <1>2, <1>3 DEF MakeSockets

\* bind() of the RTP socket takes the search's port, or goes on to the next pair
\* and counts the one it leaves behind.
LEMMA BindRtpInv == PortInv /\ BindRtp => PortInv'
<1>. SUFFICES ASSUME PortInv, BindRtp PROVE PortInv'
  OBVIOUS
<1>. DEFINE w == Wrapped(port)
<1>. USE DEF PortInv
<1>1. w \in Pairs /\ w \in PortStart .. PortEnd - 1 /\ w % 2 = 0 /\ w \in Int
  BY WrappedIsPair, PortAssumption DEF PortType, Pairs, Ports
<1>2. Wrapped(w) = w
  BY <1>1, PortAssumption DEF Wrapped
<1>3. /\ caller # NoEp /\ rtp = Fresh /\ rtcp = Fresh
      /\ tries \in Nat /\ tries < MaxTries /\ MaxTries \in Nat
  <2>1. rtp = Fresh /\ rtp # port /\ rtcp # NoFd
    BY NamesAssumption, PortAssumption DEF BindRtp, Ready, PortType
  <2>. QED  BY <2>1, RangeOfPairs DEF BindRtp, Ready, Sockets, PortType
<1>4. Connected' = Connected /\ PairsOwned'
  BY DEF BindRtp, Connected, PairsOwned
<1>5. tried = Behind(w, tries)
  <2>1. rtp # port
    BY <1>3, NamesAssumption, PortAssumption DEF PortType
  <2>. QED  BY <1>3, <2>1 DEF Searched
<1>. HIDE DEF w
<1>6. CASE w \in Bound
  <2>1. port' = w + 2 /\ tries' = tries + 1 /\ rtp' = Fresh /\ tried' = tried \cup {w}
    BY <1>3, <1>6 DEF BindRtp, w
  <2>2. port' \in PortStart .. PortEnd + 1 /\ port' % 2 = 0 /\ port' \in Int
        /\ tries' \in 0 .. MaxTries
    BY <1>1, <1>3, <2>1, PortAssumption
  <2>3. PortType'
    BY <2>2 DEF BindRtp, PortType
  <2>4. Fresh # NoFd /\ Fresh # port' /\ Fresh # port' + 1
    BY <2>2, NamesAssumption
  <2>5. Sockets' /\ Exclusive'
    BY <1>3, <2>1, <2>4 DEF BindRtp, Sockets, Exclusive
  <2>6. Searched'
    <3>1. Behind(Wrapped(w + 2), tries + 1) = Behind(w, tries) \cup {w}
      BY <1>1, <1>3, BehindStep
    <3>. QED  BY <3>1, <2>1, <2>4, <1>5 DEF Searched
  <2>7. Accounted'
    BY <1>3, <1>4, <2>1 DEF BindRtp, Accounted
  <2>. QED  BY <2>3, <2>5, <2>6, <2>7, <1>4
<1>7. CASE w \notin Bound
  <2>1. port' = w /\ tries' = tries /\ rtp' = w /\ tried' = tried \cup {w}
        /\ rtcp' = Fresh
    BY <1>3, <1>7 DEF BindRtp, w
  <2>2. PortType'
    BY <1>1, <2>1, PortAssumption DEF BindRtp, PortType
  <2>3. NoFd # w /\ Fresh # NoFd /\ Fresh # w + 1 /\ Fresh # w
    BY <1>1, NamesAssumption
  <2>4. Sockets'
    BY <1>1, <1>3, <2>1, <2>3 DEF BindRtp, Sockets
  <2>5. w \notin others /\ \A e \in Connected : portOf[e] # w
    BY <1>7 DEF Bound
  <2>6. Exclusive'
    BY <1>3, <1>4, <2>1, <2>3, <2>5 DEF BindRtp, Exclusive
  <2>7. Searched'
    BY <1>2, <1>5, <2>1 DEF Searched
  <2>8. Accounted'
    BY <1>3, <1>4, <2>1, <2>3 DEF BindRtp, Accounted
  <2>. QED  BY <1>4, <2>2, <2>4, <2>6, <2>7, <2>8
<1>. QED  BY <1>6, <1>7

\* bind() of the RTCP socket takes the next port, or the RTP socket is closed
\* and the search goes on.
LEMMA BindRtcpInv == PortInv /\ BindRtcp => PortInv'
<1>. SUFFICES ASSUME PortInv, BindRtcp PROVE PortInv'
  OBVIOUS
<1>. USE DEF PortInv
<1>1. /\ caller # NoEp /\ rtp = port /\ rtcp = Fresh /\ port \in Pairs
      /\ tries \in Nat /\ tries < MaxTries /\ MaxTries \in Nat
  BY RangeOfPairs DEF BindRtcp, Ready, Sockets, PortType
<1>2. port \in PortStart .. PortEnd - 1 /\ port \in Int /\ port % 2 = 0
  BY <1>1, PortAssumption DEF PortType, Pairs, Ports
<1>3. Connected' = Connected /\ PairsOwned'
  BY DEF BindRtcp, Connected, PairsOwned
<1>4. NoFd # Fresh /\ \A n \in Int : n # NoFd /\ n # Fresh
  BY NamesAssumption
<1>5. Wrapped(port) = port
  BY <1>2, PortAssumption DEF Wrapped
<1>6. CASE port + 1 \in Bound
  <2>1. /\ rtp' = NoFd /\ fds' = fds - 1 /\ port' = port + 2 /\ tries' = tries + 1
        /\ rtcp' = Fresh /\ UNCHANGED <<others, portOf, caller, tried, failed>>
    BY <1>1, <1>6 DEF BindRtcp, RtcpTaken
  <2>2. port' \in PortStart .. PortEnd + 1 /\ port' % 2 = 0 /\ port' \in Int
        /\ tries' \in 0 .. MaxTries /\ port' + 1 \in Int
    BY <1>1, <1>2, <2>1, PortAssumption
  <2>3. PortType'
    BY <2>1, <2>2 DEF PortType
  <2>4. Sockets' /\ Exclusive'
    BY <1>1, <1>4, <2>1, <2>2 DEF Sockets, Exclusive
  <2>5. Searched'
    <3>1. Behind(Wrapped(port + 2), tries + 1) = Behind(port, tries) \cup {port}
      BY <1>1, BehindStep
    <3>2. rtp' # port'
      BY <1>4, <2>1, <2>2
    <3>. QED  BY <3>1, <3>2, <1>1, <1>5, <2>1 DEF Searched
  <2>6. Accounted'
    BY <1>1, <1>2, <1>3, <1>4, <2>1, ConnectedFinite DEF Accounted, PortType
  <2>. QED  BY <1>3, <2>3, <2>4, <2>5, <2>6
<1>7. CASE port + 1 \notin Bound
  <2>1. /\ rtcp' = port + 1
        /\ UNCHANGED <<rtp, fds, port, tries, others, portOf, caller, tried, failed>>
    BY <1>7 DEF BindRtcp
  <2>2. PortType' /\ Searched'
    BY <2>1 DEF PortType, Searched
  <2>3. port + 1 \notin others
    BY <1>7 DEF Bound
  <2>4. port + 1 \in Int
    BY <1>2
  <2>5. Sockets' /\ Exclusive'
    BY <1>1, <1>3, <1>4, <2>1, <2>3, <2>4 DEF Sockets, Exclusive
  <2>6. Accounted'
    BY <1>1, <1>3, <1>4, <2>1, <2>4 DEF Accounted
  <2>. QED  BY <1>3, <2>2, <2>5, <2>6
<1>. QED  BY <1>6, <1>7

\* The endpoint becomes the owner of a pair that was the search's alone.
LEMMA ConnectInv == PortInv /\ Connect => PortInv'
<1>. SUFFICES ASSUME PortInv, Connect PROVE PortInv'
  OBVIOUS
<1>. USE DEF PortInv
<1>1. /\ caller \in Eps /\ rtp = port /\ rtcp = port + 1 /\ port \in Pairs
      /\ portOf[caller] = NoFd /\ port \in Int
  <2>1. rtp = port /\ rtcp = port + 1
    BY DEF Connect, Ready, Sockets
  <2>. QED  BY <2>1 DEF Connect, Ready, Sockets, PortType, Exclusive
<1>2. NoFd # port /\ NoFd # port + 1
  BY <1>1, NamesAssumption
<1>3. /\ portOf' = [portOf EXCEPT ![caller] = port] /\ UNCHANGED <<others, fds, failed>>
      /\ rtp' = NoFd /\ rtcp' = NoFd
  BY <1>1 DEF Connect, Return
<1>4. Connected' = Connected \cup {caller} /\ caller \notin Connected
  BY <1>1, <1>2, <1>3, ConnectedChanges DEF Connected
<1>5. PortType'
  BY <1>1, <1>3, ReturnInv DEF Connect, PortType
<1>6. /\ port \notin others /\ port + 1 \notin others
      /\ \A e \in Connected : portOf[e] # port
  BY <1>1 DEF Exclusive
<1>7. portOf'[caller] = port /\ \A e \in Connected : e # caller /\ portOf'[e] = portOf[e]
  BY <1>1, <1>3, <1>4 DEF PortType, Connected
<1>8. PairsOwned'
  BY <1>1, <1>3, <1>4, <1>6, <1>7 DEF PairsOwned
<1>9. Accounted'
  <2>1. Cardinality(Connected') = Cardinality(Connected) + 1
    BY <1>4, ConnectedFinite, FS_AddElement
  <2>. QED  BY <1>1, <1>2, <1>3, <2>1, ConnectedFinite DEF Accounted, PortType
<1>. QED  BY <1>3, <1>5, <1>8, <1>9, ReturnInv DEF Connect

\* del_rtp_endpoint gives a pair and two descriptors back.
LEMMA CloseInv == ASSUME PortInv, NEW e \in Eps, Close(e) PROVE PortInv'
<1>. USE DEF PortInv
<1>1. Connected' = Connected \ {e} /\ e \in Connected
  BY ConnectedChanges DEF Close, Connected
<1>2. \A f \in Connected' : f \in Connected /\ portOf'[f] = portOf[f]
  BY <1>1 DEF Close, PortType, Connected
<1>3. PortType'
  BY DEF Close, PortType, search
<1>4. PairsOwned'
  BY <1>2 DEF Close, PairsOwned
<1>5. Sockets' /\ Exclusive' /\ Searched'
  BY <1>2 DEF Close, Sockets, Exclusive, Searched, search
<1>6. Accounted'
  <2>1. Cardinality(Connected') = Cardinality(Connected) - 1
    BY <1>1, ConnectedFinite, FS_RemoveElement
  <2>. QED  BY <2>1, ConnectedFinite DEF Close, Accounted, PortType, search
<1>. QED  BY <1>3, <1>4, <1>5, <1>6

\* Other programs bind only what is free.
LEMMA OthersInv ==
    ASSUME PortInv, NEW p \in Ports, OthersBind(p) \/ OthersClose(p)
    PROVE  PortInv'
<1>. USE DEF PortInv
<1>1. UNCHANGED <<portOf, search, fds, failed>> /\ Connected' = Connected
  BY DEF OthersBind, OthersClose, Connected
<1>2. \A q \in others' : q \in others \/ (q = p /\ p \notin Bound)
  <2>1. CASE OthersBind(p)
    BY <2>1 DEF OthersBind
  <2>2. CASE OthersClose(p)
    BY <2>2 DEF OthersClose
  <2>. QED  BY <2>1, <2>2
<1>3. PortType'
  BY <1>1, <1>2 DEF PortType, search
<1>4. PairsOwned'
  BY <1>1, <1>2 DEF PairsOwned, Bound
<1>5. Sockets' /\ Searched' /\ Accounted'
  BY <1>1 DEF Sockets, Searched, Accounted, search
<1>6. \A n \in {rtp, rtcp} \ {NoFd, Fresh} : n \in Bound
  BY DEF Bound
<1>7. port \in Int /\ port + 1 \in Int /\ \A n \in Int : n # NoFd /\ n # Fresh
  BY NamesAssumption, PortAssumption DEF PortType
<1>8. Exclusive'
  BY <1>1, <1>2, <1>6, <1>7 DEF Exclusive, search
<1>. QED  BY <1>3, <1>4, <1>5, <1>8

\* The invariant holds at first, and every step keeps it.
LEMMA PortInvariance == PortsSpec => []PortInv
<1>1. PortsInit => PortInv
  <2>. SUFFICES ASSUME PortsInit PROVE PortInv
    OBVIOUS
  <2>1. Connected = {} /\ Cardinality(Connected) = 0
    BY FS_EmptySet DEF PortsInit, Connected
  <2>2. PortType
    BY PortAssumption, RangeOfPairs DEF PortsInit, PortType
  <2>3. port \in Int /\ NoFd # port /\ NoFd # port + 1
    BY NamesAssumption, PortAssumption DEF PortsInit
  <2>4. Sockets /\ Exclusive /\ Searched /\ PairsOwned
    BY <2>1, <2>3 DEF PortsInit, Sockets, Exclusive, Searched, PairsOwned
  <2>5. Accounted
    BY <2>1 DEF PortsInit, Accounted
  <2>. QED  BY <2>2, <2>4, <2>5 DEF PortInv
<1>2. PortInv /\ [PortsNext]_portsVars => PortInv'
  <2>. SUFFICES ASSUME PortInv, [PortsNext]_portsVars PROVE PortInv'
    OBVIOUS
  <2>1. CASE StrangeError
    <3>1. rtp # NoFd /\ rtcp # NoFd
      BY <2>1 DEF StrangeError, Ready
    <3>2. fds' = fds - (IF rtp = NoFd THEN 0 ELSE 1) - (IF rtcp = NoFd THEN 0 ELSE 1)
      BY <2>1, <3>1 DEF StrangeError, PortInv, PortType
    <3>. QED  BY <2>1, <3>2, ReturnAlone DEF StrangeError
  <2>2. CASE RanOut
    BY <2>2, ReturnAlone DEF RanOut, ReturnOpen
  <2>3. CASE UNCHANGED portsVars
    BY <2>3 DEF portsVars, PortInv, PortType, Sockets, PairsOwned, Exclusive, Searched,
                Accounted, Connected
  <2>. QED  BY <2>1, <2>2, <2>3, BeginInv, MakeSocketsInv, BindRtpInv, BindRtcpInv,
               ConnectInv, CloseInv, OthersInv DEF PortsNext
<1>. QED  BY <1>1, <1>2, PTL DEF PortsSpec

-----------------------------------------------------------------------------
\* Whatever other programs bind meanwhile, an endpoint owns an even port and the
\* next one, inside the range and shared with nobody (connect_udp_endpoint,
\* del_rtp_endpoint).
THEOREM PairsAreOwned == PortsSpec => []PairsOwned
<1>1. PortInv => PairsOwned
  BY DEF PortInv
<1>. QED  BY <1>1, PortInvariance, PTL

\* "ran out of UDP RTP ports" is said only after every pair of the range has been
\* come to, wherever the search began (connect_udp_endpoint).
THEOREM WholeRangeIsSearched == PortsSpec => []WholeRangeSearched
<1>1. PortInv => WholeRangeSearched
  <2>. SUFFICES ASSUME PortInv, caller # NoEp, tries = MaxTries PROVE tried = Pairs
    BY DEF WholeRangeSearched
  <2>1. rtp # port /\ Wrapped(port) \in Pairs
    BY WrappedIsPair, RangeOfPairs DEF PortInv, Sockets, PortType
  <2>. QED  BY <2>1, BehindBounds DEF PortInv, Searched
<1>. QED  BY <1>1, PortInvariance, PTL

\* Retries, strange errors and closed endpoints leave no descriptor behind, as
\* long as no search has run out (connect_udp_endpoint, del_rtp_endpoint).
THEOREM DescriptorsAreOwned == PortsSpec => []DescriptorsOwned
<1>1. PortInv => DescriptorsOwned
  BY ConnectedFinite DEF PortInv, Sockets, Accounted, DescriptorsOwned
<1>. QED  BY <1>1, PortInvariance, PTL

(***************************************************************************)
(* RtpPackets, for packets of any size and any images of a baseline        *)
(* encoder.                                                                *)
(***************************************************************************)
\* The room of a packet with all headers.
LeastRoom == MaxData - (Main + Restart + Tables)

\* How many packets have gone since the last one that the client has seen.
Missing == IF seqnum >= client.expect THEN seqnum - client.expect
           ELSE seqnum - client.expect + SeqCount

ClientType ==
    /\ client.expect \in 0 .. SeqCount - 1 /\ client.bytes \in 0 .. i
    /\ client.chain \in BOOLEAN /\ client.marked \in BOOLEAN

LoopType ==
    /\ len \in Lengths /\ i \in 0 .. len
    /\ hdrLen \in 0 .. Main + Restart + Tables

\* While the frame is being sent: as long as the client has a chain, the packets
\* it has not seen since are as many as the numbers tell and carry at least so
\* much; without a chain it has missed something.
ChainCounts ==
    i < len => /\ ~client.marked
               /\ client.chain => /\ Missing * LeastRoom <= i - client.bytes
                                  /\ Missing = 0 => client.bytes = i
               /\ ~client.chain /\ i > 0 => client.bytes < i

FrameInv == media = "jpeg" => LoopType /\ ClientType /\ ChainCounts /\ LossIsVisible

PacketsInv == /\ seqnum \in 0 .. SeqCount - 1 /\ out.sof \in {"none", "old", "this"}
              /\ FrameInv /\ HeadersOfThisFrame

-----------------------------------------------------------------------------
\* The walk over the markers: what each turn leaves.
Walk(o, ms, f) ==
    f = [k \in 0 .. Len(ms) |-> IF k = 0 THEN [out |-> Cleared(o), state |-> "walk"]
                                ELSE Marker(f[k - 1], ms[k])]

Walks == [out : [quant : {"none", "this"}, sof : {"none", "old", "this"}, dri : {"none", "this"}],
          state : {"walk", "scan", "refused"}]

\* One turn of the walk, field by field.
LEMMA MarkerFields ==
    ASSUME NEW v \in Walks, NEW m \in Markers
    PROVE  /\ Marker(v, m) \in Walks
           /\ v.state # "walk" => Marker(v, m) = v
           /\ v.state = "walk" =>
                /\ Marker(v, m).state = IF m = "sos" THEN "scan"
                                        ELSE IF m \in {"soi", "dht", "dqt", "dri"}
                                                \/ (m = "sof" /\ v.out.quant # "none")
                                        THEN "walk" ELSE "refused"
                /\ Marker(v, m).out.quant = IF m = "dqt" THEN "this" ELSE v.out.quant
                /\ Marker(v, m).out.sof = IF m = "sof" /\ v.out.quant # "none" THEN "this"
                                          ELSE v.out.sof
<1>1. PICK u : u = Marker(v, m)
  OBVIOUS
<1>2. CASE v.state # "walk"
  BY <1>2 DEF Marker
<1>3. CASE v.state = "walk" /\ m = "dqt"
  <2>1. u = [v EXCEPT !.out.quant = "this"]
    BY <1>1, <1>3 DEF Marker
  <2>. QED  BY <1>1, <1>3, <2>1 DEF Walks
<1>4. CASE v.state = "walk" /\ m = "sof" /\ v.out.quant # "none"
  <2>1. u = [v EXCEPT !.out.sof = "this"]
    BY <1>1, <1>4 DEF Marker
  <2>. QED  BY <1>1, <1>4, <2>1 DEF Walks
<1>5. CASE v.state = "walk" /\ m = "dri"
  <2>1. u = [v EXCEPT !.out.dri = "this"]
    BY <1>1, <1>5 DEF Marker
  <2>. QED  BY <1>1, <1>5, <2>1 DEF Walks
<1>6. CASE v.state = "walk" /\ m \in {"soi", "dht"}
  BY <1>6 DEF Marker
<1>7. CASE v.state = "walk" /\ m = "sos"
  <2>1. u = [v EXCEPT !.state = "scan"]
    BY <1>1, <1>7 DEF Marker
  <2>. QED  BY <1>1, <1>7, <2>1 DEF Walks
<1>8. CASE /\ v.state = "walk"
           /\ m \in {"dqt16", "sof2", "junk"} \/ (m = "sof" /\ v.out.quant = "none")
  <2>1. u = [v EXCEPT !.state = "refused"]
    BY <1>1, <1>8 DEF Marker
  <2>. QED  BY <1>1, <1>8, <2>1 DEF Walks
<1>. QED  BY <1>2, <1>3, <1>4, <1>5, <1>6, <1>7, <1>8 DEF Markers

\* What is known of an image after k markers.
KnownAfter(ms, k, v) ==
    /\ v \in Walks
    /\ v.state = "walk" =>
         \A j \in 1 .. k : /\ ms[j] # "sof2"
                           /\ ms[j] = "sof" => v.out.sof = "this" /\ v.out.quant = "this"
    /\ v.state = "scan" => v.out.sof = "this" /\ v.out.quant = "this"

LEMMA KnownStep ==
    ASSUME NEW ms \in Images, NEW k \in 1 .. Len(ms), NEW v, KnownAfter(ms, k - 1, v)
    PROVE  KnownAfter(ms, k, Marker(v, ms[k]))
<1>1. Len(ms) \in Nat /\ k \in Nat /\ ms[k] \in Markers
  BY PacketAssumption, LenProperties, ElementOfSeq
<1>2. PICK u, m : u = Marker(v, m) /\ m = ms[k]
  OBVIOUS
<1>3. v \in Walks /\ m \in Markers
  BY <1>1, <1>2 DEF KnownAfter
<1>4. /\ u \in Walks
      /\ v.state # "walk" => u = v
      /\ v.state = "walk" =>
           /\ u.state = IF m = "sos" THEN "scan"
                        ELSE IF m \in {"soi", "dht", "dqt", "dri"}
                                \/ (m = "sof" /\ v.out.quant # "none")
                        THEN "walk" ELSE "refused"
           /\ u.out.quant = IF m = "dqt" THEN "this" ELSE v.out.quant
           /\ u.out.sof = IF m = "sof" /\ v.out.quant # "none" THEN "this" ELSE v.out.sof
  BY <1>2, <1>3, MarkerFields
<1>5. CASE v.state # "walk"
  BY <1>2, <1>4, <1>5 DEF KnownAfter
<1>6. CASE v.state = "walk"
  <2>1. \A j \in 1 .. k - 1 : /\ ms[j] # "sof2"
                              /\ ms[j] = "sof" => v.out.sof = "this" /\ v.out.quant = "this"
    BY <1>6 DEF KnownAfter
  <2>2. v.out.quant \in {"none", "this"}
    BY <1>3 DEF Walks
  <2>3. ASSUME u.state = "walk", NEW j \in 1 .. k
        PROVE  ms[j] # "sof2" /\ (ms[j] = "sof" => u.out.sof = "this" /\ u.out.quant = "this")
    <3>1. CASE j = k
      BY <1>2, <1>4, <1>6, <2>2, <2>3, <3>1
    <3>2. CASE j # k
      <4>1. j \in 1 .. k - 1
        BY <1>1, <3>2
      <4>. QED  BY <1>4, <1>6, <2>1, <4>1
    <3>. QED  BY <3>1, <3>2
  <2>4. ASSUME u.state = "scan" PROVE u.out.sof = "this" /\ u.out.quant = "this"
    <3>1. m = "sos"
      BY <1>4, <1>6, <2>4
    <3>2. PICK j \in 1 .. k - 1 : ms[j] \in {"sof", "sof2"}
      BY <1>2, <3>1, ImageAssumption
    <3>3. v.out.sof = "this" /\ v.out.quant = "this"
      BY <2>1, <3>2
    <3>. QED  BY <1>4, <1>6, <3>1, <3>3
  <2>. QED  BY <1>2, <1>4, <2>3, <2>4 DEF KnownAfter
<1>. QED  BY <1>5, <1>6

LEMMA WalkExists ==
    ASSUME NEW ms \in Images, NEW o, o.sof \in {"none", "old", "this"}
    PROVE  \E f : Walk(o, ms, f)
<1>1. PICK n, v0 : n = Len(ms) /\ v0 = [out |-> Cleared(o), state |-> "walk"]
  OBVIOUS
<1>2. n \in Nat /\ \A k \in 1 .. n : ms[k] \in Markers
  BY <1>1, PacketAssumption, LenProperties, ElementOfSeq
<1>3. v0 \in Walks
  BY <1>1 DEF Walks, Cleared, Aged
<1>. DEFINE G == [p \in Nat \X Walks |-> IF p[1] + 1 \in 1 .. n THEN Marker(p[2], ms[p[1] + 1])
                                         ELSE p[2]]
<1>4. G \in Steps(Walks)
  <2>1. ASSUME NEW p \in Nat \X Walks
        PROVE  (IF p[1] + 1 \in 1 .. n THEN Marker(p[2], ms[p[1] + 1]) ELSE p[2]) \in Walks
    BY <1>2, MarkerFields
  <2>. QED  BY <2>1 DEF Steps
<1>5. \A k \in Nat, v \in Walks : G[<<k, v>>] = IF k + 1 \in 1 .. n THEN Marker(v, ms[k + 1]) ELSE v
  OBVIOUS
<1>. HIDE DEF G
<1>6. PICK g : Follows(Walks, v0, G, g)
  BY <1>3, <1>4, RecursionExists
<1>7. g \in [Nat -> Walks] /\ g[0] = v0 /\ \A k \in Nat : g[k + 1] = G[<<k, g[k]>>]
  BY <1>6 DEF Follows
<1>. DEFINE f == [k \in 0 .. n |-> g[k]]
<1>8. ASSUME NEW k \in 0 .. n PROVE f[k] = IF k = 0 THEN v0 ELSE Marker(f[k - 1], ms[k])
  <2>1. CASE k = 0
    BY <1>2, <1>7, <2>1
  <2>2. CASE k # 0
    <3>1. k - 1 \in Nat /\ k - 1 + 1 = k /\ k \in 1 .. n /\ k - 1 \in 0 .. n
      BY <1>2, <2>2
    <3>2. g[k] = G[<<k - 1, g[k - 1]>>] /\ g[k - 1] \in Walks
      BY <1>7, <3>1
    <3>3. g[k] = Marker(g[k - 1], ms[k])
      BY <1>5, <3>1, <3>2
    <3>4. f[k] = g[k] /\ f[k - 1] = g[k - 1]
      BY <3>1
    <3>. QED  BY <2>2, <3>3, <3>4
  <2>. QED  BY <2>1, <2>2
<1>9. f = [k \in 0 .. n |-> f[k]]
  OBVIOUS
<1>. HIDE DEF f
<1>10. f = [k \in 0 .. n |-> IF k = 0 THEN v0 ELSE Marker(f[k - 1], ms[k])]
  BY <1>8, <1>9
<1>. QED  BY <1>1, <1>10 DEF Walk

\* An image that was walked to its scan has left its own tables and dimensions.
LEMMA WalkedKnown ==
    ASSUME NEW ms \in Images, NEW o, o.sof \in {"none", "old", "this"}
    PROVE  KnownAfter(ms, Len(ms), Walked(o, ms))
<1>1. PICK n : n = Len(ms)
  OBVIOUS
<1>2. n \in Nat
  BY <1>1, PacketAssumption, LenProperties
<1>. DEFINE walk[k \in 0 .. Len(ms)] ==
                IF k = 0 THEN [out |-> Cleared(o), state |-> "walk"]
                ELSE Marker(walk[k - 1], ms[k])
<1>3. Walked(o, ms) = walk[Len(ms)]
  BY DEF Walked
<1>4. Walk(o, ms, walk)
  <2>1. PICK f : Walk(o, ms, f)
    BY WalkExists
  <2>. QED  BY <2>1 DEF Walk
<1>5. PICK f : f = walk
  OBVIOUS
<1>6. Walk(o, ms, f) /\ Walked(o, ms) = f[n]
  BY <1>1, <1>3, <1>4, <1>5
<1>. HIDE DEF walk
<1>7. \A k \in 0 .. n : f[k] = IF k = 0 THEN [out |-> Cleared(o), state |-> "walk"]
                               ELSE Marker(f[k - 1], ms[k])
  BY <1>1, <1>6 DEF Walk
<1>. DEFINE M == {k \in Nat : k <= n => KnownAfter(ms, k, f[k])}
<1>8. 0 \in M
  <2>1. f[0] = [out |-> Cleared(o), state |-> "walk"]
    BY <1>2, <1>7
  <2>2. f[0] \in Walks /\ f[0].state = "walk"
    BY <2>1 DEF Walks, Cleared, Aged
  <2>. QED  BY <2>2 DEF KnownAfter
<1>9. ASSUME NEW k \in M PROVE k + 1 \in M
  <2>1. k \in Nat /\ (k <= n => KnownAfter(ms, k, f[k]))
    OBVIOUS
  <2>2. ASSUME k + 1 <= n PROVE KnownAfter(ms, k + 1, f[k + 1])
    <3>1. PICK l : l = k + 1
      OBVIOUS
    <3>2. l \in 0 .. n /\ l \in 1 .. n /\ l # 0 /\ l - 1 = k /\ k <= n
      BY <1>2, <2>1, <2>2, <3>1
    <3>3. f[l] = Marker(f[l - 1], ms[l]) /\ KnownAfter(ms, l - 1, f[l - 1])
      BY <1>7, <2>1, <3>2
    <3>4. KnownAfter(ms, l, Marker(f[l - 1], ms[l]))
      BY <1>1, <3>2, <3>3, KnownStep
    <3>. QED  BY <3>1, <3>3, <3>4
  <2>. QED  BY <2>1, <2>2
<1>. HIDE DEF M
<1>10. M \in SUBSET Nat
  BY DEF M
<1>11. M = Nat
  BY <1>8, <1>9, <1>10, InductionSet
<1>12. KnownAfter(ms, n, f[n])
  BY <1>2, <1>11 DEF M
<1>. QED  BY <1>1, <1>6, <1>12

-----------------------------------------------------------------------------
\* The numbers go round: one step of a sequence number.
LEMMA SeqStep ==
    ASSUME NEW a \in 0 .. SeqCount - 1
    PROVE  (a + 1) % SeqCount = IF a = SeqCount - 1 THEN 0 ELSE a + 1
<1>1. SeqCount \in Nat \ {0, 1} /\ a \in Nat
  BY PacketAssumption
<1>2. CASE a = SeqCount - 1
  <2>1. a + 1 = SeqCount /\ SeqCount % SeqCount = 0
    BY <1>1, <1>2
  <2>. QED  BY <1>2, <2>1
<1>3. CASE a # SeqCount - 1
  <2>1. a + 1 \in 0 .. SeqCount - 1
    BY <1>1, <1>3
  <2>. QED  BY <1>1, <1>3, <2>1
<1>. QED  BY <1>2, <1>3

\* Fewer bytes, fewer packets.
LEMMA FewerPackets ==
    ASSUME NEW a \in Nat, NEW b \in Nat, NEW c \in Nat, a * c < b * c
    PROVE  a < b
<1>. SUFFICES ASSUME a >= b PROVE FALSE
  OBVIOUS
<1>1. PICK d \in Nat : a = b + d
  <2>1. a - b \in Nat /\ a = b + (a - b)
    OBVIOUS
  <2>. QED  BY <2>1
<1>2. a * c = b * c + d * c
  BY <1>1
<1>3. d * c >= 0 /\ b * c \in Int /\ d * c \in Int
  OBVIOUS
<1>. QED  BY <1>2, <1>3

\* A turn of jpeg_send's loop sends at least a byte, and fills the packet unless
\* it is the last one.
LEMMA PlenBounds ==
    ASSUME media = "jpeg", LoopType, i < len
    PROVE  /\ Plen \in 1 .. len - i /\ LeastRoom \in Nat \ {0}
           /\ i + Plen # len => Plen >= LeastRoom
           /\ len \in Nat /\ len <= SeqCount * LeastRoom
<1>1. /\ Main \in Nat /\ Restart \in Nat /\ Tables \in Nat /\ MaxData \in Nat
      /\ MaxData > Main + Restart + Tables /\ len \in Nat /\ i \in 0 .. len
      /\ hdrLen \in 0 .. Main + Restart + Tables
  BY PacketAssumption DEF LoopType
<1>2. LeastRoom \in Nat \ {0} /\ Room \in Nat /\ Room >= LeastRoom
  BY <1>1 DEF LeastRoom, Room
<1>3. Plen = IF len - i <= Room THEN len - i ELSE Room
  BY DEF Plen
<1>4. len <= SeqCount * LeastRoom
  BY FrameAssumption DEF LoopType, LeastRoom
<1>. QED  BY <1>1, <1>2, <1>3, <1>4

\* The client's chain is unbroken exactly when it has everything so far.
Unbroken == i = 0 \/ (client.chain /\ seqnum = client.expect)

LEMMA UnbrokenExact ==
    ASSUME media = "jpeg", LoopType, ClientType, ChainCounts, i < len,
           seqnum \in 0 .. SeqCount - 1
    PROVE  Unbroken <=> client.bytes = i
<1>1. /\ client.expect \in 0 .. SeqCount - 1 /\ client.bytes \in 0 .. i
      /\ i \in Nat /\ SeqCount \in Nat
  BY PacketAssumption DEF ClientType, LoopType
<1>2. CASE i = 0
  BY <1>1, <1>2 DEF Unbroken
<1>3. CASE i # 0 /\ ~client.chain
  BY <1>1, <1>3 DEF Unbroken, ChainCounts
<1>4. CASE i # 0 /\ client.chain
  <2>1. Missing * LeastRoom <= i - client.bytes /\ (Missing = 0 => client.bytes = i)
    BY <1>4 DEF ChainCounts
  <2>2. Missing \in Nat /\ (Missing = 0 <=> seqnum = client.expect)
    BY <1>1 DEF Missing
  <2>3. LeastRoom \in Nat \ {0}
    BY PlenBounds
  <2>4. PICK m, c : m = Missing /\ c = LeastRoom
    OBVIOUS
  <2>5. m # 0 => m * c >= 1
    BY <2>2, <2>3, <2>4
  <2>6. m # 0 => client.bytes # i
    <3>1. PICK x, b : x = m * c /\ b = client.bytes
      OBVIOUS
    <3>2. x \in Int /\ b \in Nat /\ x <= i - b /\ (m # 0 => x >= 1)
      BY <1>1, <2>1, <2>2, <2>3, <2>4, <2>5, <3>1
    <3>3. m # 0 => b # i
      BY <1>1, <3>2
    <3>. QED  BY <3>1, <3>3
  <2>. QED  BY <1>4, <2>1, <2>2, <2>4, <2>6 DEF Unbroken
<1>. QED  BY <1>2, <1>3, <1>4

\* A packet that is lost makes the gap one wider; the gap does not come round to
\* nothing before the end of the frame.
LEMMA GapGrows ==
    ASSUME media = "jpeg", LoopType, ClientType, ChainCounts, i < len, client.chain,
           seqnum \in 0 .. SeqCount - 1, seqnum' = NextSeq, client' = client,
           i' = i + Plen, i' < len
    PROVE  /\ Missing' = Missing + 1
           /\ Missing' * LeastRoom <= i' - client.bytes
<1>1. /\ Plen \in 1 .. len - i /\ LeastRoom \in Nat \ {0} /\ Plen >= LeastRoom
      /\ len \in Nat /\ len <= SeqCount * LeastRoom
  BY PlenBounds
<1>2. /\ client.expect \in 0 .. SeqCount - 1 /\ client.bytes \in 0 .. i
      /\ i \in Nat /\ SeqCount \in Nat
  BY PacketAssumption DEF ClientType, LoopType
<1>3. Missing * LeastRoom <= i - client.bytes
  BY DEF ChainCounts
<1>4. Missing \in 0 .. SeqCount - 1
  BY <1>2 DEF Missing
<1>5. PICK m, c, t : m = Missing /\ c = LeastRoom /\ t = i'
  OBVIOUS
<1>6. m \in Nat /\ c \in Nat /\ t \in Nat /\ t = i + Plen
  BY <1>1, <1>2, <1>4, <1>5
<1>7. (m + 1) * c = m * c + c /\ m * c \in Int
  BY <1>6
<1>8. (m + 1) * c <= t - client.bytes
  BY <1>1, <1>2, <1>3, <1>5, <1>6, <1>7
<1>9. m + 1 < SeqCount
  <2>1. PICK b : b = SeqCount * c
    OBVIOUS
  <2>2. b \in Int /\ len <= b
    BY <1>1, <1>2, <1>5, <1>6, <2>1
  <2>3. (m + 1) * c < b
    <3>1. PICK a : a = (m + 1) * c
      OBVIOUS
    <3>2. a \in Int
      BY <1>6, <3>1
    <3>3. a <= t - client.bytes /\ t < len
      BY <1>5, <1>8, <3>1
    <3>. QED  BY <1>1, <1>2, <1>6, <2>2, <3>1, <3>2, <3>3
  <2>4. m + 1 \in Nat /\ (m + 1) * c < SeqCount * c
    BY <1>6, <2>1, <2>3
  <2>. QED  BY <1>2, <1>6, <2>4, FewerPackets
<1>10. seqnum' = IF seqnum = SeqCount - 1 THEN 0 ELSE seqnum + 1
  BY SeqStep DEF NextSeq
<1>11. Missing' = m + 1
  <2>1. m = IF seqnum >= client.expect THEN seqnum - client.expect
            ELSE seqnum - client.expect + SeqCount
    BY <1>5 DEF Missing
  <2>2. Missing' = IF seqnum' >= client.expect THEN seqnum' - client.expect
                   ELSE seqnum' - client.expect + SeqCount
    BY DEF Missing
  <2>. QED  BY <1>2, <1>9, <1>10, <2>1, <2>2
<1>12. Missing' * LeastRoom = (m + 1) * c
  BY <1>5, <1>11
<1>. QED  BY <1>5, <1>8, <1>11, <1>12

LEMMA SendPacketKeeps ==
    ASSUME PacketsInv, NEW arrives \in BOOLEAN, SendPacket(arrives)
    PROVE  PacketsInv'
<1>1. /\ media # "none" /\ i < len /\ seqnum' = NextSeq /\ i' = i + Plen
      /\ client' = (IF arrives THEN Receive ELSE client)
      /\ hdrLen' = (IF media = "jpeg" THEN Main ELSE 0)
      /\ media' = media /\ len' = len /\ out' = out
  BY DEF SendPacket
<1>2. seqnum \in 0 .. SeqCount - 1 /\ out.sof \in {"none", "old", "this"} /\ HeadersOfThisFrame
  BY DEF PacketsInv
<1>3. seqnum' \in 0 .. SeqCount - 1
  BY <1>1, <1>2, SeqStep, PacketAssumption DEF NextSeq
<1>4. HeadersOfThisFrame' /\ out'.sof \in {"none", "old", "this"}
  BY <1>1, <1>2 DEF HeadersOfThisFrame
<1>5. CASE media # "jpeg"
  BY <1>1, <1>3, <1>4, <1>5 DEF PacketsInv, FrameInv
<1>6. CASE media = "jpeg"
  <2>1. LoopType /\ ClientType /\ ChainCounts /\ LossIsVisible
    BY <1>6 DEF PacketsInv, FrameInv
  <2>2. /\ Plen \in 1 .. len - i /\ LeastRoom \in Nat \ {0}
        /\ len \in Nat /\ i \in Nat /\ i' \in 1 .. len
    <3>1. Plen \in 1 .. len - i /\ LeastRoom \in Nat \ {0} /\ len \in Nat
      BY <1>1, <1>6, <2>1, PlenBounds
    <3>2. i \in Nat
      BY <2>1, <3>1 DEF LoopType
    <3>. QED  BY <1>1, <3>1, <3>2
  <2>3. LoopType'
    <3>1. Main \in 0 .. Main + Restart + Tables
      BY PacketAssumption
    <3>. QED  BY <1>1, <1>6, <2>1, <2>2, <3>1 DEF LoopType
  <2>4. Unbroken <=> client.bytes = i
    BY <1>1, <1>2, <1>6, <2>1, UnbrokenExact
  <2>5. /\ client.expect \in 0 .. SeqCount - 1 /\ client.bytes \in 0 .. i
        /\ client.chain \in BOOLEAN /\ client.marked = FALSE
    BY <1>1, <2>1 DEF ClientType, ChainCounts
  <2>6. CASE ~arrives
    <3>1. client' = client
      BY <1>1, <2>6
    <3>2. client.bytes < i' /\ client.bytes \in 0 .. i'
      BY <1>1, <2>2, <2>5
    <3>3. ClientType'
      BY <2>5, <3>1, <3>2 DEF ClientType
    <3>4. LossIsVisible'
      <4>1. ~client'.marked /\ client'.bytes < i'
        BY <2>5, <3>1, <3>2
      <4>2. client'.bytes # i'
        BY <2>2, <2>5, <3>1, <4>1
      <4>. QED  BY <4>1, <4>2 DEF LossIsVisible
    <3>5. ASSUME i' < len' PROVE /\ ~client'.marked
                                 /\ client'.chain => /\ Missing' * LeastRoom <= i' - client'.bytes
                                                     /\ Missing' = 0 => client'.bytes = i'
                                 /\ client'.bytes < i'
      <4>1. ASSUME client'.chain
            PROVE  Missing' * LeastRoom <= i' - client'.bytes /\ Missing' # 0
        <5>1. Missing' = Missing + 1 /\ Missing' * LeastRoom <= i' - client.bytes
          BY <1>1, <1>2, <1>6, <2>1, <3>1, <3>5, <4>1, GapGrows
        <5>2. Missing \in Nat
          BY <1>2, <2>5, PacketAssumption DEF Missing
        <5>3. Missing + 1 # 0
          BY <5>2
        <5>. QED  BY <3>1, <5>1, <5>3
      <4>. QED  BY <2>5, <3>1, <3>2, <4>1
    <3>6. LeastRoom' = LeastRoom
      BY DEF LeastRoom
    <3>7. ChainCounts'
      BY <3>5, <3>6 DEF ChainCounts
    <3>. QED  BY <1>3, <1>4, <2>3, <3>3, <3>4, <3>7 DEF PacketsInv, FrameInv
  <2>7. CASE arrives
    <3>1. client' = Receive
      BY <1>1, <2>7
    <3>2. /\ client'.expect = (seqnum + 1) % SeqCount /\ client'.chain = Unbroken
          /\ client'.marked = LastOfFrame /\ client'.bytes = client.bytes + Plen
      BY <3>1 DEF Receive, Unbroken
    <3>3. /\ client'.expect = seqnum' /\ client'.expect \in 0 .. SeqCount - 1
          /\ client'.bytes \in 0 .. i' /\ (client'.bytes = i' <=> client.bytes = i)
      BY <1>1, <1>3, <2>2, <2>5, <3>2 DEF NextSeq
    <3>4. Unbroken \in BOOLEAN /\ LastOfFrame \in BOOLEAN
      BY <2>5 DEF Unbroken, LastOfFrame
    <3>5. ClientType'
      BY <3>2, <3>3, <3>4 DEF ClientType
    <3>6. LastOfFrame <=> i' = len'
      BY <1>1, <1>6 DEF LastOfFrame
    <3>7. client'.chain <=> client'.bytes = i'
      BY <2>4, <3>2, <3>3
    <3>8. LossIsVisible'
      BY <3>2, <3>6, <3>7 DEF LossIsVisible
    <3>9. Missing' = 0
      <4>1. PICK a, b : a = seqnum' /\ b = client'.expect
        OBVIOUS
      <4>2. a \in Nat /\ b \in Nat /\ a = b
        BY <1>3, <3>3, <4>1
      <4>3. a >= b /\ a - b = 0
        BY <4>2
      <4>4. Missing' = IF a >= b THEN a - b ELSE a - b + SeqCount
        BY <4>1 DEF Missing
      <4>. QED  BY <4>3, <4>4
    <3>10. ChainCounts'
      <4>1. LeastRoom' = LeastRoom /\ 0 * LeastRoom = 0
        BY <2>2 DEF LeastRoom
      <4>2. client'.bytes = i' => 0 <= i' - client'.bytes
        <5>1. PICK a, b : a = i' /\ b = client'.bytes
          OBVIOUS
        <5>2. a \in Nat /\ b \in Nat
          BY <2>2, <3>3, <5>1
        <5>3. b = a => 0 <= a - b
          BY <5>2
        <5>. QED  BY <5>1, <5>3
      <4>3. client'.bytes # i' => client'.bytes < i'
        BY <2>2, <3>3
      <4>4. i' < len' => ~client'.marked
        BY <1>1, <2>2, <3>2, <3>6
      <4>. QED  BY <3>7, <3>9, <4>1, <4>2, <4>3, <4>4 DEF ChainCounts
    <3>. QED  BY <1>3, <1>4, <2>3, <3>5, <3>8, <3>10 DEF PacketsInv, FrameInv
  <2>. QED  BY <2>6, <2>7
<1>. QED  BY <1>5, <1>6

LEMMA JpegFrameKeeps ==
    ASSUME PacketsInv, NEW n \in Lengths, NEW ms \in Images, JpegFrame(n, ms)
    PROVE  PacketsInv'
<1>1. PICK u : u = Walked(out, ms)
  OBVIOUS
<1>2. KnownAfter(ms, Len(ms), u)
  BY <1>1, WalkedKnown DEF PacketsInv
<1>3. /\ u \in Walks /\ (u.state = "scan" => u.out.sof = "this" /\ u.out.quant = "this")
      /\ u.out.dri \in {"none", "this"} /\ u.out.sof \in {"none", "old", "this"}
  BY <1>2 DEF KnownAfter, Walks
<1>4. /\ media = "none" /\ out' = u.out /\ seqnum' = seqnum
      /\ \/ /\ u.state = "scan" /\ media' = "jpeg" /\ len' = n /\ i' = 0
            /\ hdrLen' = Main + (IF u.out.dri = "this" THEN Restart ELSE 0) + Tables
            /\ client' = NoPackets
         \/ /\ u.state # "scan" /\ media' = media
  BY <1>1 DEF JpegFrame
<1>5. seqnum' \in 0 .. SeqCount - 1 /\ out'.sof \in {"none", "old", "this"}
  BY <1>3, <1>4 DEF PacketsInv
<1>6. HeadersOfThisFrame'
  BY <1>3, <1>4 DEF HeadersOfThisFrame
<1>7. ASSUME media' = "jpeg" PROVE LoopType' /\ ClientType' /\ ChainCounts' /\ LossIsVisible'
  <2>1. /\ len' = n /\ i' = 0 /\ client' = NoPackets /\ n \in Nat \ {0}
        /\ hdrLen' = Main + (IF u.out.dri = "this" THEN Restart ELSE 0) + Tables
    BY <1>4, <1>7, PacketAssumption
  <2>2. hdrLen' \in 0 .. Main + Restart + Tables
    BY <2>1, PacketAssumption
  <2>3. LoopType'
    BY <2>1, <2>2 DEF LoopType
  <2>4. /\ client'.expect = 0 /\ client'.chain = FALSE /\ client'.marked = FALSE
        /\ client'.bytes = 0
    BY <2>1 DEF NoPackets
  <2>5. ClientType'
    <3>1. 0 \in 0 .. SeqCount - 1 /\ 0 \in 0 .. 0
      BY PacketAssumption
    <3>. QED  BY <2>1, <2>4, <3>1 DEF ClientType
  <2>6. ChainCounts'
    BY <2>1, <2>4 DEF ChainCounts
  <2>7. LossIsVisible'
    BY <2>1, <2>4 DEF LossIsVisible
  <2>. QED  BY <2>3, <2>5, <2>6, <2>7
<1>. QED  BY <1>5, <1>6, <1>7 DEF PacketsInv, FrameInv

LEMMA OtherStepsKeep ==
    ASSUME PacketsInv,
           \/ \E n \in AudioLengths : AudioFrame(n)
           \/ EndFrame \/ SendFails \/ UNCHANGED packetsVars
    PROVE  PacketsInv'
<1>1. CASE UNCHANGED packetsVars
  BY <1>1 DEF packetsVars, PacketsInv, FrameInv, LoopType, ClientType, ChainCounts, Missing,
              LeastRoom, LossIsVisible, HeadersOfThisFrame
<1>2. CASE (\E n \in AudioLengths : AudioFrame(n)) \/ EndFrame \/ SendFails
  <2>1. /\ media' # "jpeg" /\ out' = out
        /\ (seqnum' = seqnum \/ seqnum' \in 0 .. SeqCount - 1)
    BY <1>2 DEF AudioFrame, EndFrame, SendFails
  <2>. QED  BY <2>1 DEF PacketsInv, FrameInv, HeadersOfThisFrame
<1>. QED  BY <1>1, <1>2

LEMMA PacketsInvariance == PacketsSpec => []PacketsInv
<1>1. PacketsInit => PacketsInv
  BY DEF PacketsInit, PacketsInv, FrameInv, HeadersOfThisFrame
<1>2. PacketsInv /\ [PacketsNext]_packetsVars => PacketsInv'
  BY SendPacketKeeps, JpegFrameKeeps, OtherStepsKeep DEF PacketsNext, Loop
<1>. QED  BY <1>1, <1>2, PTL DEF PacketsSpec

\* Whichever packets of a JPEG frame are lost, the client can tell, for every size
\* of packets and every width of seqnum, as long as a frame does not need more
\* packets than there are numbers (jpeg_send, send_rtp_packet).
THEOREM LossesAreVisible == PacketsSpec => []LossIsVisible
<1>1. PacketsInv => LossIsVisible
  BY DEF PacketsInv, FrameInv, LossIsVisible
<1>. QED  BY <1>1, PacketsInvariance, PTL

\* No header is made of what another frame left in the structure, whatever images
\* came before (jpeg_process_frame).
THEOREM HeadersAreOfThisFrame == PacketsSpec => []HeadersOfThisFrame
<1>1. PacketsInv => HeadersOfThisFrame
  BY DEF PacketsInv
<1>. QED  BY <1>1, PacketsInvariance, PTL

-----------------------------------------------------------------------------
\* The iovec never holds more headers than hdr_len counts and a restart header.
HeadersCounted ==
    media # "none" => /\ len \in Int /\ i \in Int
                      /\ hdrLen \in 0 .. Main + Restart + Tables
                      /\ hdrSent \in Nat /\ hdrSent <= hdrLen + Restart

ExcessIsRestart == size \in Int /\ size <= MaxData + Restart

LEMMA SizesStep ==
    ASSUME HeadersCounted, ExcessIsRestart, [PacketsNext]_packetsVars
    PROVE  HeadersCounted' /\ ExcessIsRestart'
<1>1. /\ Main \in Nat /\ Restart \in Nat /\ Tables \in Nat /\ MaxData \in Nat
      /\ Align \in Nat \ {0} /\ MaxData > Main + Restart + Tables /\ Lengths \subseteq Nat
  BY PacketAssumption
<1>2. 0 <= MaxData + Restart /\ 0 \in Int
  BY <1>1
<1>3. ASSUME NEW n \in Lengths, NEW ms \in Images, JpegFrame(n, ms)
      PROVE  HeadersCounted' /\ ExcessIsRestart'
  <2>1. CASE media' = media
    <3>1. media' = "none" /\ size' \in {0, size}
      BY <1>3, <2>1 DEF JpegFrame
    <3>. QED  BY <1>2, <3>1 DEF HeadersCounted, ExcessIsRestart
  <2>2. CASE media' # media
    <3>1. PICK d \in {0, Restart} : /\ hdrLen' = Main + d + Tables /\ hdrSent' = hdrLen'
                                    /\ len' = n /\ i' = 0 /\ size' = 0
      BY <1>3, <2>2 DEF JpegFrame
    <3>2. hdrLen' \in 0 .. Main + Restart + Tables /\ hdrSent' \in Nat
          /\ hdrSent' <= hdrLen' + Restart
      BY <1>1, <3>1
    <3>. QED  BY <1>1, <1>2, <3>1, <3>2 DEF HeadersCounted, ExcessIsRestart
  <2>. QED  BY <2>1, <2>2
<1>4. ASSUME NEW n \in AudioLengths, AudioFrame(n)
      PROVE  HeadersCounted' /\ ExcessIsRestart'
  <2>1. n \in Int /\ len' = n /\ i' = 0 /\ hdrLen' = 0 /\ hdrSent' = 0 /\ size' = 0
    BY <1>1, <1>4 DEF AudioFrame, AudioLengths
  <2>. QED  BY <1>1, <1>2, <2>1 DEF HeadersCounted, ExcessIsRestart
<1>5. ASSUME NEW arrives \in BOOLEAN, SendPacket(arrives)
      PROVE  HeadersCounted' /\ ExcessIsRestart'
  <2>1. /\ media # "none" /\ i < len /\ size' = hdrSent + Plen /\ i' = i + Plen
        /\ hdrSent' = LaterHeaders /\ hdrLen' = (IF media = "jpeg" THEN Main ELSE 0)
        /\ len' = len
    BY <1>5 DEF SendPacket
  <2>2. /\ len \in Int /\ i \in Int /\ hdrLen \in 0 .. Main + Restart + Tables
        /\ hdrSent \in Nat /\ hdrSent <= hdrLen + Restart
    BY <2>1 DEF HeadersCounted
  <2>3. Room \in Nat /\ Room = MaxData - hdrLen
    BY <1>1, <2>2 DEF Room
  <2>4. Whole(Room) \in Int /\ Whole(Room) <= Room
    <3>1. PICK a : a = Room
      OBVIOUS
    <3>2. a % Align \in 0 .. Align - 1
      BY <1>1, <2>3, <3>1
    <3>3. a - (a % Align) \in Int /\ a - (a % Align) <= a
      BY <1>1, <2>3, <3>1, <3>2
    <3>. QED  BY <3>1, <3>3 DEF Whole
  <2>5. Plen \in Int /\ Plen <= Room
    BY <2>2, <2>3, <2>4 DEF Plen
  <2>6. size' \in Int /\ size' <= MaxData + Restart
    BY <1>1, <2>1, <2>2, <2>3, <2>5
  <2>7. LaterHeaders \in Nat /\ LaterHeaders <= (IF media = "jpeg" THEN Main ELSE 0) + Restart
    BY <1>1 DEF LaterHeaders
  <2>8. (IF media = "jpeg" THEN Main ELSE 0) \in 0 .. Main + Restart + Tables
    BY <1>1
  <2>9. len' \in Int /\ i' \in Int
    BY <2>1, <2>2, <2>5
  <2>. QED  BY <2>1, <2>6, <2>7, <2>8, <2>9 DEF HeadersCounted, ExcessIsRestart
<1>6. CASE EndFrame \/ SendFails
  <2>1. media' = "none" /\ (size' = size \/ size' = 0)
    BY <1>6 DEF EndFrame, SendFails
  <2>. QED  BY <1>2, <2>1 DEF HeadersCounted, ExcessIsRestart
<1>7. CASE UNCHANGED packetsVars
  BY <1>7 DEF packetsVars, HeadersCounted, ExcessIsRestart
<1>. QED  BY <1>3, <1>4, <1>5, <1>6, <1>7 DEF PacketsNext, Loop

\* WithinMaximum does not hold (jpeg_send leaves the restart header uncounted); but
\* no packet, of JPEG or of audio, exceeds max_data_size by more than that header.
THEOREM ExcessBounded == PacketsSpec => []ExcessIsRestart
<1>1. PacketsInit => HeadersCounted /\ ExcessIsRestart
  BY PacketAssumption DEF PacketsInit, HeadersCounted, ExcessIsRestart
<1>2. HeadersCounted /\ ExcessIsRestart /\ [PacketsNext]_packetsVars
        => HeadersCounted' /\ ExcessIsRestart'
  BY SizesStep
<1>. QED  BY <1>1, <1>2, PTL DEF PacketsSpec
=============================================================================
