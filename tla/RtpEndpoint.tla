----------------------------- MODULE RtpEndpoint -----------------------------
(***************************************************************************)
(* The clock of one RTP endpoint (rtp.c): the RTCP timer that is armed     *)
(* with the first packet, the sender reports, the timeout of a client that *)
(* is not heard of, and the rate cut when no report has gone out for long. *)
(*                                                                         *)
(* Time is counted in seconds, as in the code's comparisons of tv_sec, and *)
(* kept as ages.  The event loop may be late with a due timer by MaxLate   *)
(* seconds (a callback that does not return, see SendRing).  time_diff     *)
(* computes microseconds in an int, which hold Half seconds (2147).        *)
(***************************************************************************)
EXTENDS Integers

CONSTANTS Interval,       \* the RTCP timer: 5 s
          ClientTimeout,  \* no RTCP from the client: 20 s
          ServerTimeout,  \* no report sent: 10 s
          MaxLate,        \* how late the event loop may be
          Half            \* seconds whose microseconds an int holds

ASSUME ClockAssumption ==
    /\ Interval \in Nat \ {0} /\ ClientTimeout \in Nat
    /\ ServerTimeout \in Nat /\ MaxLate \in Nat
    /\ Half \in Nat /\ Half > Interval

VARIABLES trans,     \* ep->trans_type, or "none": there is no endpoint
          playing,   \* the session plays
          force,     \* force_rtcp: no report has been sent yet
          armed,     \* rtcp_send_event is enabled
          left,      \* its fire time minus now, as time_diff computes it
          sinceRecv, \* seconds since last_rtcp_recv
          sinceSend, \* seconds since last_rtcp_send
          late,      \* seconds a due timer has waited
          wrapped    \* history: more than Half seconds have passed since
                     \* the fire time

vars == <<trans, playing, force, armed, left, sinceRecv, sinceSend, late,
          wrapped>>

Alive == trans # "none"

\* What time_diff makes of a difference of s seconds.
Wrap(s) == ((s + Half) % (2 * Half)) - Half

\* The event loop's test on the timer.  (Faulty: one second late.)
DueLate == armed /\ left < 0
Due == armed /\ left <= 0

-----------------------------------------------------------------------------
\* new_rtp_endpoint: the timer is set but not enabled.
NewEndpoint(tr) ==
    /\ ~Alive
    /\ trans' = tr
    /\ playing' = FALSE
    /\ force' = TRUE
    /\ armed' = FALSE
    /\ left' = Interval
    /\ sinceRecv' = 0 /\ sinceSend' = 0
    /\ late' = 0 /\ wrapped' = FALSE

\* live_teardown frees the endpoint and removes its timer.
Teardown == /\ trans' = "none"
            /\ playing' = FALSE /\ force' = FALSE /\ armed' = FALSE
            /\ left' = 0 /\ sinceRecv' = 0 /\ sinceSend' = 0
            /\ late' = 0 /\ wrapped' = FALSE

\* rtcp_send first looks at the client.  QuickTime sends no RTCP over TCP.
\* (Faulty: one interval more is granted.)
ClientSilentLenient == trans = "udp" /\ sinceRecv > ClientTimeout + Interval
ClientSilent == trans = "udp" /\ sinceRecv > ClientTimeout

\* rtcp_send of an endpoint that survives.
ReportSent == /\ force' = FALSE
              /\ sinceSend' = 0
              /\ UNCHANGED <<trans, playing, sinceRecv>>

-----------------------------------------------------------------------------
\* live_play
Play == /\ Alive
        /\ ~playing
        /\ playing' = TRUE
        /\ UNCHANGED <<trans, force, armed, left, sinceRecv, sinceSend, late,
          wrapped>>

\* send_rtp_packet whose transport works.  The first packet sends a report and
\* enables the timer, whose fire time has been running since SETUP.
FirstPacket ==
    /\ playing
    /\ force
    /\ \/ ClientSilent /\ Teardown
       \/ /\ ~ClientSilent
          /\ ReportSent
          /\ armed' = TRUE
          /\ UNCHANGED <<left, late, wrapped>>

\* A later packet that finds no report sent for long has the rate cut
\* (QOSAnalyser_SendSuggActCommand) and sends one.  (Faulty: at the boundary.)
ReportOverdueEarly == sinceSend >= ServerTimeout
ReportOverdue == sinceSend > ServerTimeout

Packet ==
    /\ playing
    /\ ~force
    /\ ReportOverdue
    /\ \/ ClientSilent /\ Teardown
       \/ /\ ~ClientSilent
          /\ ReportSent
          /\ UNCHANGED <<armed, left, late, wrapped>>

\* rtcp_fire; resched_event has moved the timer one interval on, from its old
\* fire time.
Resched == left' = Wrap(left + Interval)

TimerFires ==
    /\ Due
    /\ \/ ClientSilent /\ Teardown
       \/ /\ ~ClientSilent
          /\ ReportSent
          /\ Resched
          /\ late' = 0
          /\ UNCHANGED <<armed, wrapped>>

\* A send fails, TEARDOWN, or the connection is dropped.
EndpointDies == Alive /\ Teardown

\* udp_rtp_read, udp_rtcp_read, interleave_recv_rtcp
ClientHeard == /\ Alive
               /\ sinceRecv' = 0
               /\ UNCHANGED <<trans, playing, force, armed, left, sinceSend, late,
                              wrapped>>

\* A second passes.  Ages are not counted further than the properties look.
Older(age) == IF age > ClientTimeout + Interval + MaxLate THEN age ELSE age + 1

Tick ==
    /\ Alive
    /\ Due => late < MaxLate
    /\ left' = Wrap(left - 1)
    /\ wrapped' = (wrapped \/ left = -Half)
    /\ late' = IF Due THEN late + 1 ELSE 0
    /\ sinceRecv' = IF trans = "udp" THEN Older(sinceRecv) ELSE 0
    /\ sinceSend' = Older(sinceSend)
    /\ UNCHANGED <<trans, playing, force, armed>>

-----------------------------------------------------------------------------
Init == /\ trans = "none"
        /\ playing = FALSE /\ force = FALSE /\ armed = FALSE
        /\ left = 0 /\ sinceRecv = 0 /\ sinceSend = 0
        /\ late = 0 /\ wrapped = FALSE

Next == \/ \E tr \in {"udp", "inter"} : NewEndpoint(tr)
        \/ Play \/ FirstPacket \/ Packet \/ TimerFires \/ EndpointDies
        \/ ClientHeard \/ Tick

Spec == Init /\ [][Next]_vars

-----------------------------------------------------------------------------
\* A UDP client that falls silent while it plays is dropped within the timeout,
\* one interval of the timer and the lateness of the loop (rtcp_send).  The
\* exception is a timer whose fire time was passed so long ago (a session set
\* up and not played, a loop that falls behind) that time_diff takes it for a
\* later one.
SilentClientDropped ==
    armed /\ trans = "udp" /\ ~wrapped
       => sinceRecv <= ClientTimeout + Interval + MaxLate

\* From the first packet on the last report is at most an interval old, plus
\* what the loop is late at this moment: lateness of the past is caught up
\* (rtcp_fire, resched_event), with the same exception.
ReportsFlow == armed /\ ~wrapped => sinceSend <= Interval + late

\* Once the timer runs, the rate is cut for a missing report only if the loop
\* is late by more than what separates the server timeout from the interval,
\* or the timer's fire time has wrapped (send_rtp_packet).
RateCutOnlyWhenLate ==
    armed /\ ReportOverdue /\ ~wrapped => late > ServerTimeout - Interval
=============================================================================
