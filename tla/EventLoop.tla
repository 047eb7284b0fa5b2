----------------------------- MODULE EventLoop ------------------------------
(***************************************************************************)
(* The event loop of event.c with its timer and descriptor events.  The    *)
(* callbacks are arbitrary: each may remove, add, enable and disable       *)
(* events, as the callbacks of tcp.c, rtp.c and frame.c do while the loop  *)
(* is walking the very lists they change.                                  *)
(*                                                                         *)
(* No event of the server is one-shot, no always-event is ever added and   *)
(* exit_event_loop is never called, so these are left out.  A descriptor   *)
(* stands for an fd with a direction, as in rfds and wfds.  Times are      *)
(* relative to now, in units larger than the loop's slack of 5 ms.         *)
(***************************************************************************)
EXTENDS Integers, Sequences, FiniteSets, Lists

CONSTANTS Timers,      \* timer events
          FdEvents,    \* descriptor events
          Fds,         \* descriptors; a closed one may be opened again
          Ival,        \* ev.time.ival of the timers
          MaxLate,     \* bound: how late a timer may be
          NoEvent      \* a NULL event

ASSUME EventAssumption == /\ Ival \in Nat \ {0} /\ MaxLate \in Nat
                          /\ NoEvent \notin Timers \cup FdEvents

VARIABLES timeList, fdList,  \* time_event_list and fd_event_list
          enabled,           \* events with EVENT_F_ENABLED
          remove,            \* events with EVENT_F_REMOVE
          running,           \* events with EVENT_F_RUNNING
          left,              \* left[e]: fire time of timer e, minus now
          fdOf,              \* fdOf[e]: ev.fd.fd
          ready,             \* descriptors the kernel has something for
          isset,             \* what select() reported in rfds and wfds
          phase,             \* "select", or the list being walked
          at,                \* the event the walk looks at next
          called,            \* the event whose callback the last step ran
          dead,              \* history: events that remove_event was called on
          seen,              \* history: events select() watched this time
          owed               \* history: events this pass must still call

vars == <<timeList, fdList, enabled, remove, running, left, fdOf, ready, isset,
          phase, at, called, dead, seen, owed>>

Events == Timers \cup FdEvents
Linked == Elems(timeList) \cup Elems(fdList)
Live == Linked \ dead

First(list) == IF list = << >> THEN NoEvent ELSE Head(list)
\* (Faulty: stops before the last.)
AfterButLast(list, e) == LET i == CHOOSE j \in DOMAIN list : list[j] = e
                         IN  IF i + 1 >= Len(list) THEN NoEvent ELSE list[i + 1]
After(list, e) == LET i == CHOOSE j \in DOMAIN list : list[j] = e
                  IN  IF i = Len(list) THEN NoEvent ELSE list[i + 1]

-----------------------------------------------------------------------------
(***************************************************************************)
(* What a callback may do while it runs, any number of times.              *)
(***************************************************************************)
loopVars == <<ready, isset, phase, at, called>>

\* remove_event on the events of one owner (del_rtp_endpoint, drop_conn).
\* (Faulty: EVENT_F_RUNNING stays set.)
RemoveButRunning == \E R \in SUBSET Live :
    /\ R # {}
    /\ remove' = remove \cup R
    /\ enabled' = enabled \ R
    /\ dead' = dead \cup R
    /\ owed' = owed \ R
    /\ UNCHANGED <<timeList, fdList, running, left, fdOf, seen, loopVars>>

RemoveEvent == \E R \in SUBSET Live :
    /\ R # {}
    /\ remove' = remove \cup R
    /\ enabled' = enabled \ R
    /\ running' = running \ R
    /\ dead' = dead \cup R
    /\ owed' = owed \ R
    /\ UNCHANGED <<timeList, fdList, left, fdOf, seen, loopVars>>

\* new_event: a fresh object, its flags cleared.
NewEvent(e) == /\ e \notin Linked
               /\ remove' = remove \ {e}
               /\ running' = running \ {e}
               /\ dead' = dead \ {e}
               /\ seen' = seen \ {e}

\* add_fd_event on a descriptor no live event watches.
\* (Faulty: linked into the list of the timers.)
AddFdEventToTimers == \E e \in FdEvents, fd \in Fds :
    /\ NewEvent(e)
    /\ timeList' = <<e>> \o timeList
    /\ fdOf' = [fdOf EXCEPT ![e] = fd]
    /\ enabled' = enabled \cup {e}
    /\ UNCHANGED <<fdList, left, owed, loopVars>>

AddFdEvent == \E e \in FdEvents, fd \in Fds :
    /\ NewEvent(e)
    /\ \A x \in Elems(fdList) \ dead : fdOf[x] # fd
    /\ fdList' = <<e>> \o fdList
    /\ fdOf' = [fdOf EXCEPT ![e] = fd]
    /\ enabled' = enabled \cup {e}
    /\ UNCHANGED <<timeList, left, owed, loopVars>>

\* add_timer_event, then set_event_enabled(e, 0) as in new_rtp_endpoint.
AddTimerEvent == \E e \in Timers :
    /\ NewEvent(e)
    /\ timeList' = <<e>> \o timeList
    /\ left' = [left EXCEPT ![e] = Ival]
    /\ enabled' = enabled \ {e}
    /\ UNCHANGED <<fdList, fdOf, owed, loopVars>>

\* set_event_enabled: on for any event, off for descriptors only.
SetEventEnabled == \E e \in Live :
    /\ \/ enabled' = enabled \cup {e}
       \/ e \in FdEvents /\ enabled' = enabled \ {e}
    /\ enabled' # enabled
    /\ UNCHANGED <<timeList, fdList, remove, running, left, fdOf, dead, seen, owed,
                   loopVars>>

\* read() or write() exhausts the descriptor.
Consume == \E fd \in ready :
    /\ ready' = ready \ {fd}
    /\ UNCHANGED <<timeList, fdList, enabled, remove, running, left, fdOf, isset,
                   phase, at, called, dead, seen, owed>>

Callback == /\ called # NoEvent
            /\ \/ RemoveEvent \/ AddFdEvent \/ AddTimerEvent
               \/ SetEventEnabled \/ Consume

-----------------------------------------------------------------------------
(***************************************************************************)
(* event_loop                                                              *)
(***************************************************************************)
\* The loop's own state between two callbacks.
Walking(p) == phase = p /\ called = NoEvent

\* Mark the enabled events as running and wait in select(), which may also
\* return with nothing (a timeout or a signal).
Select ==
    /\ Walking("select")
    /\ running' = Linked \cap enabled
    /\ seen' = Linked \cap enabled
    /\ isset' = ready \cap {fdOf[e] : e \in Elems(fdList) \cap enabled}
    /\ owed' = {e \in Elems(fdList) \cap enabled : fdOf[e] \in ready}
    /\ phase' = "timers"
    /\ at' = First(timeList)
    /\ UNCHANGED <<timeList, fdList, enabled, remove, left, fdOf, ready, called, dead>>

\* A running timer that is due: resched_event(e, NULL), which clears
\* EVENT_F_REMOVE and sets EVENT_F_ENABLED, comes before the callback.
TimerDue(e) == e \in running /\ left[e] <= 0

FireTimer ==
    /\ Walking("timers")
    /\ at # NoEvent
    /\ TimerDue(at)
    /\ left' = [left EXCEPT ![at] = IF at \in enabled THEN @ + Ival ELSE Ival]
    /\ remove' = remove \ {at}
    /\ enabled' = enabled \cup {at}
    /\ called' = at
    /\ UNCHANGED <<timeList, fdList, running, fdOf, ready, isset, phase, at, dead, seen, owed>>

FdReady(e) == e \in running /\ fdOf[e] \in isset

FireFd ==
    /\ Walking("fds")
    /\ at # NoEvent
    /\ FdReady(at)
    /\ called' = at
    /\ owed' = owed \ {at}
    /\ UNCHANGED <<timeList, fdList, enabled, remove, running, left, fdOf, ready,
                   isset, phase, at, dead, seen>>

\* e = e->next, after the callback or without one.
\* (Faulty: a timer is rescheduled after its callback.)
NextAfterResched ==
    /\ at # NoEvent
    /\ \/ called # NoEvent
       \/ Walking("timers") /\ ~TimerDue(at)
       \/ Walking("fds") /\ ~FdReady(at)
    /\ remove' = remove \ {called}
    /\ enabled' = IF phase = "timers" /\ called # NoEvent THEN enabled \cup {called} ELSE enabled
    /\ called' = NoEvent
    /\ at' = After(IF phase = "timers" THEN timeList ELSE fdList, at)
    /\ UNCHANGED <<timeList, fdList, running, left, fdOf, ready, isset, phase, dead, seen, owed>>

NextEvent ==
    /\ at # NoEvent
    /\ \/ called # NoEvent
       \/ Walking("timers") /\ ~TimerDue(at)
       \/ Walking("fds") /\ ~FdReady(at)
    /\ called' = NoEvent
    /\ at' = After(IF phase = "timers" THEN timeList ELSE fdList, at)
    /\ UNCHANGED <<timeList, fdList, enabled, remove, running, left, fdOf, ready,
                   isset, phase, dead, seen, owed>>

TimersDone ==
    /\ Walking("timers")
    /\ at = NoEvent
    /\ phase' = "fds"
    /\ at' = IF isset = {} THEN NoEvent ELSE First(fdList)
    /\ UNCHANGED <<timeList, fdList, enabled, remove, running, left, fdOf, ready,
                   isset, called, dead, seen, owed>>

\* strip_events unlinks what was removed.
Strip(list) == Without(list, remove)

StripEvents ==
    /\ Walking("fds")
    /\ at = NoEvent
    /\ timeList' = Strip(timeList)
    /\ fdList' = Strip(fdList)
    /\ phase' = "select"
    /\ UNCHANGED <<enabled, remove, running, left, fdOf, ready, isset, at, called,
                   dead, seen, owed>>

LoopStep == \/ Select \/ FireTimer \/ FireFd \/ NextEvent
            \/ TimersDone \/ StripEvents

\* The world outside: time passes (lateness saturates at MaxLate), data arrives.
Tick == /\ left' = [e \in Timers |-> IF left[e] > -MaxLate THEN left[e] - 1 ELSE left[e]]
        /\ UNCHANGED <<timeList, fdList, enabled, remove, running, fdOf, dead, seen, owed,
                       loopVars>>

DataArrives == /\ \E fd \in Fds \ ready : ready' = ready \cup {fd}
               /\ UNCHANGED <<timeList, fdList, enabled, remove, running, left, fdOf,
                              isset, phase, at, called, dead, seen, owed>>

\* The configuration has added one descriptor event (a listener).
Init == /\ timeList = << >>
        /\ \E e \in FdEvents : fdList = <<e>> /\ enabled = {e}
        /\ remove = {} /\ running = {} /\ dead = {} /\ seen = {} /\ owed = {}
        /\ left = [e \in Timers |-> Ival]
        /\ \E fd \in Fds : fdOf = [e \in FdEvents |-> fd]
        /\ ready = {} /\ isset = {}
        /\ phase = "select" /\ at = NoEvent /\ called = NoEvent

Next == LoopStep \/ Callback \/ Tick \/ DataArrives

Spec == Init /\ [][Next]_vars

-----------------------------------------------------------------------------
\* The type invariant of the event loop.
TypeOK == /\ timeList \in Seq(Timers) /\ fdList \in Seq(FdEvents)
          /\ enabled \subseteq Events /\ remove \subseteq Events
          /\ running \subseteq Events
          /\ left \in [Timers -> Int] /\ fdOf \in [FdEvents -> Fds]
          /\ ready \subseteq Fds /\ isset \subseteq Fds
          /\ phase \in {"select", "timers", "fds"}
          /\ at \in Events \cup {NoEvent} /\ called \in Events \cup {NoEvent}
          /\ dead \subseteq Events /\ seen \subseteq Events
          /\ owed \subseteq FdEvents

Calls(e) == called = NoEvent /\ called' = e

\* Once remove_event was called on an event its callback never runs again, not
\* even later in the same pass over the lists: the endpoint or connection it
\* points to has been freed.  And a callback runs only for an event that was
\* enabled when this pass began and, for a descriptor, that select() looked at:
\* an event added during the pass, perhaps on a descriptor closed and opened
\* again, waits for the next one (event_loop).
OnlyLiveCalled ==
    [][\A e \in Events : Calls(e) => e \notin dead /\ e \in seen]_vars

\* The walk never steps on an event that has been unlinked, and a removed event
\* leaves its list: when the next pass begins none is linked, so no rescheduling
\* has brought one back (remove_event, resched_event, strip_events).
ListsSound ==
    /\ at # NoEvent => at \in (IF phase = "timers" THEN Elems(timeList)
                                ELSE Elems(fdList))
    /\ phase = "select" => dead \cap Linked = {}

\* A pass calls every descriptor event that select() found ready, unless it was
\* removed in the meantime: whatever callbacks add to or remove from the lists
\* under the walk, nobody is left out, and nobody waits for more than one pass.
PassServesReady == phase = "select" => owed = {}
=============================================================================
