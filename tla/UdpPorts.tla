------------------------------ MODULE UdpPorts -------------------------------
(***************************************************************************)
(* connect_udp_endpoint of rtp.c: the search for a free pair of UDP ports, *)
(* the descriptors it opens on the way, and del_rtp_endpoint, which gives  *)
(* them back.  Other programs take and release ports meanwhile; bind(),    *)
(* socket() and connect() fail when they like.                             *)
(***************************************************************************)
EXTENDS Integers, FiniteSets

CONSTANTS Eps,        \* RTP endpoints
          PortStart,  \* rtp_port_start
          PortEnd,    \* rtp_port_end
          MaxFailed,  \* bound: searches that leave a descriptor open
          NoEp, NoFd, Fresh   \* no endpoint; no descriptor; one not bound yet

ASSUME PortAssumption == /\ PortStart \in Nat /\ PortEnd \in Nat
                         /\ PortStart % 2 = 0 /\ PortStart + 1 <= PortEnd

ASSUME NamesAssumption == /\ IsFiniteSet(Eps) /\ NoEp \notin Eps
                          /\ NoFd \notin Int /\ Fresh \notin Int /\ NoFd # Fresh

VARIABLES others,     \* ports bound by other programs
          portOf,     \* portOf[e]: RTP port of endpoint e, or NoFd
          caller,     \* the endpoint being connected, or NoEp
          port, tries,  \* the loop's port and i
          rtp, rtcp,  \* rtpfd and rtcpfd: NoFd, Fresh or the port bound
          tried,      \* history: ports this search has come to
          fds,        \* open descriptors
          failed      \* history: searches that left a descriptor open

portsVars == <<others, portOf, caller, port, tries, rtp, rtcp, tried, fds, failed>>
search == <<caller, port, tries, rtp, rtcp, tried>>

Ports == PortStart .. PortEnd
Connected == {e \in Eps : portOf[e] # NoFd}
Bound == others \cup (UNION {{portOf[e], portOf[e] + 1} : e \in Connected})
                \cup ({rtp, rtcp} \ {NoFd, Fresh})

\* max_tries.  (Faulty: the last pair is not tried.)
TooFewTries == (PortEnd - PortStart) \div 2 - 1
MaxTries == (PortEnd - PortStart + 1) \div 2

\* The first port is even.  (Faulty: it may be odd.)
AnyStart(p) == p
EvenStart(p) == IF p % 2 = 1 THEN p + 1 ELSE p

\* The search wraps around.
Wrapped(p) == IF p + 1 > PortEnd THEN PortStart ELSE p

-----------------------------------------------------------------------------
Begin(e, p) ==
    /\ caller = NoEp
    /\ portOf[e] = NoFd
    /\ failed < MaxFailed
    /\ caller' = e
    /\ port' = EvenStart(p)
    /\ tries' = 0
    /\ rtp' = NoFd /\ rtcp' = NoFd
    /\ tried' = {}
    /\ UNCHANGED <<others, portOf, fds, failed>>

\* return: with everything closed, or not.
Return == /\ caller' = NoEp /\ port' = PortStart /\ tries' = 0
          /\ rtp' = NoFd /\ rtcp' = NoFd /\ tried' = {}

ReturnOpen == /\ Return
              /\ failed' = failed + 1
              /\ UNCHANGED <<others, portOf, fds>>

\* The top of the loop: sockets are made where there are none.
MakeSockets ==
    /\ caller # NoEp
    /\ tries < MaxTries
    /\ rtp = NoFd
    /\ \/ /\ rtp' = Fresh
          /\ rtcp' = Fresh
          /\ fds' = fds + (IF rtcp = NoFd THEN 2 ELSE 1)
          /\ UNCHANGED <<others, portOf, caller, port, tries, tried, failed>>
       \/ rtcp = NoFd /\ Return /\ UNCHANGED <<others, portOf, fds, failed>>
       \/ rtcp # NoFd /\ ReturnOpen   \* no new RTP socket: rtcpfd is not closed

Ready == caller # NoEp /\ tries < MaxTries /\ rtp # NoFd /\ rtcp # NoFd

\* bind() of the RTP socket.
BindRtp ==
    /\ Ready
    /\ rtp = Fresh
    /\ LET p == Wrapped(port)
       IN  /\ tried' = tried \cup {p}
           /\ IF p \in Bound
                THEN port' = p + 2 /\ tries' = tries + 1 /\ UNCHANGED rtp
                ELSE port' = p /\ rtp' = p /\ UNCHANGED tries
    /\ UNCHANGED <<others, portOf, caller, rtcp, fds, failed>>

\* bind() of the RTCP socket; when its port is taken the RTP socket is closed.
\* (Faulty: it is not.)
RtcpTakenKeeping == rtp' = NoFd /\ UNCHANGED fds
RtcpTaken == rtp' = NoFd /\ fds' = fds - 1

BindRtcp ==
    /\ Ready
    /\ rtp # Fresh /\ rtcp = Fresh
    /\ IF port + 1 \in Bound
         THEN /\ RtcpTaken
              /\ port' = port + 2
              /\ tries' = tries + 1
              /\ UNCHANGED rtcp
         ELSE rtcp' = port + 1 /\ UNCHANGED <<rtp, fds, port, tries>>
    /\ UNCHANGED <<others, portOf, caller, tried, failed>>

\* Both bound: connect() and getsockname(), then the endpoint owns them.
Connect ==
    /\ Ready
    /\ rtp # Fresh /\ rtcp # Fresh
    /\ portOf' = [portOf EXCEPT ![caller] = rtp]
    /\ Return
    /\ UNCHANGED <<others, fds, failed>>

\* A "strange error" of bind, connect or getsockname.
StrangeError == /\ Ready
                /\ Return
                /\ fds' = fds - 2
                /\ UNCHANGED <<others, portOf, failed>>

\* "ran out of UDP RTP ports!"
RanOut == caller # NoEp /\ tries = MaxTries /\ ReturnOpen

\* del_rtp_endpoint
Close(e) == /\ caller = NoEp
            /\ portOf[e] # NoFd
            /\ portOf' = [portOf EXCEPT ![e] = NoFd]
            /\ fds' = fds - 2
            /\ UNCHANGED <<others, search, failed>>

OthersBind(p) == /\ p \notin Bound
                 /\ others' = others \cup {p}
                 /\ UNCHANGED <<portOf, search, fds, failed>>

OthersClose(p) == /\ p \in others
                  /\ others' = others \ {p}
                  /\ UNCHANGED <<portOf, search, fds, failed>>

-----------------------------------------------------------------------------
PortsInit == /\ others = {}
             /\ portOf = [e \in Eps |-> NoFd]
             /\ caller = NoEp /\ port = PortStart /\ tries = 0
             /\ rtp = NoFd /\ rtcp = NoFd
             /\ tried = {} /\ fds = 0 /\ failed = 0

PortsNext == \/ \E e \in Eps, p \in PortStart .. PortEnd - 1 : Begin(e, p)
             \/ MakeSockets \/ BindRtp \/ BindRtcp \/ Connect \/ StrangeError \/ RanOut
             \/ \E e \in Eps : Close(e)
             \/ \E p \in Ports : OthersBind(p) \/ OthersClose(p)

PortsSpec == PortsInit /\ [][PortsNext]_portsVars

-----------------------------------------------------------------------------
Pairs == {p \in Ports : p % 2 = 0 /\ p + 1 \in Ports}

\* What an endpoint owns is an even port and the next one, as the Transport
\* header tells the client, inside the range and shared with nobody.
PairsOwned ==
    /\ \A e \in Connected : portOf[e] \in Pairs
    /\ \A e, f \in Connected : portOf[e] = portOf[f] => e = f
    /\ \A e \in Connected : {portOf[e], portOf[e] + 1} \cap others = {}

\* The search gives up only after it has come to every pair of the range,
\* wherever it began and whatever it met.
WholeRangeSearched == caller # NoEp /\ tries = MaxTries => tried = Pairs

\* As long as no search has run out of ports, or of sockets after a retry, the
\* descriptors that are open belong to endpoints: retries, late errors and
\* closed endpoints leave none behind.
DescriptorsOwned ==
    caller = NoEp /\ failed = 0 => fds = 2 * Cardinality(Connected)
=============================================================================
