--------------------------- MODULE EventLoopProofs ---------------------------
(***************************************************************************)
(* Proofs about EventLoop for any number of events and descriptors.        *)
(***************************************************************************)
EXTENDS EventLoop, ListsProofs, TLAPS

ListInv == /\ Distinct(timeList) /\ Distinct(fdList)
           /\ phase = "select" => at = NoEvent
           /\ called # NoEvent => called = at
           /\ ListsSound

\* A removed event keeps EVENT_F_REMOVE until it is unlinked and does not run.
DeadInv == /\ dead \cap running = {}
           /\ dead \cap Linked \subseteq remove

\* What select() found ready lies ahead of the walk, running and in isset.
OwedInv ==
    /\ running \subseteq seen
    /\ phase = "select" => owed = {}
    /\ \A e \in owed : e \in Elems(fdList) /\ e \in running /\ fdOf[e] \in isset
    /\ phase = "fds" => /\ at = NoEvent => owed = {}
                        /\ at # NoEvent => owed \subseteq From(fdList, at)
                        /\ called # NoEvent => at \notin owed

LoopInv == TypeOK /\ ListInv /\ DeadInv /\ OwedInv

-----------------------------------------------------------------------------
(***************************************************************************)
(* The lists under the walk.                                               *)
(***************************************************************************)
\* e->next is linked, or the walk ends; ahead of it lies what lay ahead of e.
LEMMA AfterList ==
    ASSUME NEW T, NEW list \in Seq(T), Distinct(list), NEW e \in Elems(list), NoEvent \notin T,
           NEW n, n = After(list, e)
    PROVE  /\ n = NoEvent => From(list, e) = {e}
           /\ n # NoEvent => n \in Elems(list) /\ From(list, e) \subseteq {e} \cup From(list, n)
<1>1. PICK i : i = CHOOSE j \in DOMAIN list : list[j] = e
  OBVIOUS
<1>2. /\ i = Len(list) => From(list, e) = {e}
      /\ i # Len(list) => /\ list[i + 1] \in Elems(list)
                          /\ From(list, e) = {e} \cup From(list, list[i + 1])
  BY <1>1, NextInList
<1>3. n = IF i = Len(list) THEN NoEvent ELSE list[i + 1]
  BY <1>1 DEF After
<1>4. Elems(list) \subseteq T
  BY ElementOfSeq, LenProperties DEF Elems
<1>5. CASE i = Len(list)
  BY <1>2, <1>3, <1>5
<1>6. CASE i # Len(list)
  <2>1. n \in Elems(list) /\ n # NoEvent /\ From(list, e) = {e} \cup From(list, n)
    BY <1>2, <1>3, <1>4, <1>6
  <2>. QED  BY <2>1
<1>. QED  BY <1>5, <1>6

LEMMA FirstList ==
    ASSUME NEW T, NEW list \in Seq(T), NoEvent \notin T, NEW n, n = First(list)
    PROVE  /\ n = NoEvent => Elems(list) = {}
           /\ n # NoEvent => n \in Elems(list) /\ From(list, n) = Elems(list)
<1>1. /\ list = << >> => Elems(list) = {}
      /\ list # << >> => Head(list) \in Elems(list) /\ From(list, Head(list)) = Elems(list)
  BY HeadOfList
<1>2. Elems(list) \subseteq T
  BY ElementOfSeq, LenProperties DEF Elems
<1>3. CASE list = << >>
  BY <1>1, <1>3 DEF First
<1>4. CASE list # << >>
  <2>1. n = Head(list) /\ n \in Elems(list) /\ n # NoEvent
    BY <1>1, <1>2, <1>4 DEF First
  <2>. QED  BY <1>1, <1>4, <2>1
<1>. QED  BY <1>3, <1>4

\* Where the walk goes next.
LEMMA WalkGoesOn ==
    ASSUME LoopInv, at # NoEvent,
           NEW n, n = After(IF phase = "timers" THEN timeList ELSE fdList, at)
    PROVE  /\ n # NoEvent => n \in (IF phase = "timers" THEN Elems(timeList) ELSE Elems(fdList))
           /\ phase # "timers" => /\ n = NoEvent => From(fdList, at) = {at}
                                  /\ n # NoEvent => From(fdList, at) \subseteq {at} \cup From(fdList, n)
<1>. USE DEF LoopInv
<1>1. PICK tl, fl : tl = timeList /\ fl = fdList
  OBVIOUS
<1>2. tl \in Seq(Timers) /\ fl \in Seq(FdEvents) /\ Distinct(tl) /\ Distinct(fl)
  BY <1>1 DEF TypeOK, ListInv
<1>3. NoEvent \notin Timers /\ NoEvent \notin FdEvents
  BY EventAssumption
<1>4. CASE phase = "timers"
  <2>1. at \in Elems(tl) /\ n = After(tl, at)
    BY <1>1, <1>4 DEF ListInv, ListsSound
  <2>2. n # NoEvent => n \in Elems(tl)
    BY <1>2, <1>3, <2>1, AfterList
  <2>. QED  BY <1>1, <1>4, <2>2
<1>5. CASE phase # "timers"
  <2>1. at \in Elems(fl) /\ n = After(fl, at)
    BY <1>1, <1>5 DEF ListInv, ListsSound
  <2>2. /\ n = NoEvent => From(fl, at) = {at}
        /\ n # NoEvent => n \in Elems(fl) /\ From(fl, at) \subseteq {at} \cup From(fl, n)
    BY <1>2, <1>3, <2>1, AfterList
  <2>. QED  BY <1>1, <1>5, <2>2
<1>. QED  BY <1>4, <1>5

-----------------------------------------------------------------------------
(***************************************************************************)
(* The callbacks.                                                          *)
(***************************************************************************)
LEMMA RemoveEventInv == ASSUME LoopInv, called # NoEvent, RemoveEvent PROVE LoopInv'
<1>. USE DEF LoopInv
<1>1. PICK R \in SUBSET Live :
          /\ remove' = remove \cup R /\ enabled' = enabled \ R /\ running' = running \ R
          /\ dead' = dead \cup R /\ owed' = owed \ R
          /\ UNCHANGED <<timeList, fdList, left, fdOf, seen, ready, isset, phase, at, called>>
  BY DEF RemoveEvent, loopVars
<1>2. phase # "select" /\ Linked' = Linked
  BY <1>1 DEF ListInv, Linked
<1>3. Linked \subseteq Events
  BY ElementOfSeq, LenProperties DEF TypeOK, Linked, Elems, Events
<1>4. R \subseteq Events
  BY <1>1, <1>3 DEF Live
<1>5. TypeOK'
  <2>1. remove' \subseteq Events /\ enabled' \subseteq Events /\ running' \subseteq Events
        /\ dead' \subseteq Events /\ owed' \subseteq FdEvents
    BY <1>1, <1>4 DEF TypeOK
  <2>. QED  BY <1>1, <2>1 DEF TypeOK
<1>6. ListInv'
  BY <1>1, <1>2 DEF ListInv, ListsSound
<1>7. DeadInv'
  BY <1>1, <1>2 DEF DeadInv
<1>8. OwedInv'
  <2>1. From(fdList, at)' = From(fdList, at) /\ Elems(fdList)' = Elems(fdList)
    BY <1>1
  <2>2. running' \subseteq seen'
    BY <1>1 DEF OwedInv
  <2>3. ASSUME NEW e \in owed' PROVE e \in Elems(fdList)' /\ e \in running' /\ fdOf'[e] \in isset'
    BY <1>1, <2>1 DEF OwedInv
  <2>. QED  BY <1>1, <1>2, <2>1, <2>2, <2>3 DEF OwedInv
<1>. QED  BY <1>5, <1>6, <1>7, <1>8

\* A new event at the head of one of the lists.
LEMMA AddFdEventInv == ASSUME LoopInv, called # NoEvent, AddFdEvent PROVE LoopInv'
<1>. USE DEF LoopInv
<1>1. PICK e \in FdEvents, fd \in Fds :
          /\ e \notin Linked /\ remove' = remove \ {e} /\ running' = running \ {e}
          /\ dead' = dead \ {e} /\ seen' = seen \ {e}
          /\ fdList' = <<e>> \o fdList /\ fdOf' = [fdOf EXCEPT ![e] = fd]
          /\ enabled' = enabled \cup {e}
          /\ UNCHANGED <<timeList, left, owed, ready, isset, phase, at, called>>
  BY DEF AddFdEvent, NewEvent, loopVars
<1>2. PICK w : w = fdList
  OBVIOUS
<1>3. w \in Seq(FdEvents) /\ Distinct(w) /\ e \notin Elems(w)
  BY <1>1, <1>2 DEF TypeOK, ListInv, Linked
<1>4. /\ <<e>> \o w \in Seq(FdEvents) /\ Distinct(<<e>> \o w)
      /\ Elems(<<e>> \o w) = Elems(w) \cup {e}
      /\ \A s \in Elems(w) : From(<<e>> \o w, s) = From(w, s)
  BY <1>3, PrependList
<1>5. /\ fdList' \in Seq(FdEvents) /\ Distinct(fdList') /\ Elems(fdList') = Elems(fdList) \cup {e}
      /\ \A s \in Elems(fdList) : From(fdList', s) = From(fdList, s)
  BY <1>1, <1>2, <1>4
<1>6. phase # "select" /\ Linked' = Linked \cup {e}
  BY <1>1, <1>5 DEF ListInv, Linked
<1>7. TypeOK'
  <2>1. remove' \subseteq Events /\ enabled' \subseteq Events /\ running' \subseteq Events
        /\ dead' \subseteq Events /\ seen' \subseteq Events
    BY <1>1 DEF TypeOK, Events
  <2>2. fdOf' \in [FdEvents -> Fds]
    BY <1>1 DEF TypeOK
  <2>. QED  BY <1>1, <1>5, <2>1, <2>2 DEF TypeOK
<1>8. ListInv'
  BY <1>1, <1>5, <1>6 DEF ListInv, ListsSound
<1>9. DeadInv'
  BY <1>1, <1>6 DEF DeadInv
<1>10. OwedInv'
  <2>1. ASSUME NEW x \in owed' PROVE x \in Elems(fdList') /\ x \in running' /\ fdOf'[x] \in isset'
    <3>1. x \in Elems(fdList) /\ x \in running /\ fdOf[x] \in isset /\ x \in FdEvents
      BY <1>1 DEF OwedInv, TypeOK
    <3>2. x # e
      BY <1>2, <1>3, <3>1
    <3>3. fdOf'[x] = fdOf[x]
      BY <1>1, <3>1, <3>2 DEF TypeOK
    <3>. QED  BY <1>1, <1>5, <3>1, <3>2, <3>3
  <2>2. phase = "fds" /\ at # NoEvent => From(fdList', at) = From(fdList, at)
    BY <1>5 DEF ListInv, ListsSound
  <2>3. running' \subseteq seen'
    BY <1>1 DEF OwedInv
  <2>. QED  BY <1>1, <1>6, <2>1, <2>2, <2>3 DEF OwedInv
<1>. QED  BY <1>7, <1>8, <1>9, <1>10

LEMMA AddTimerEventInv == ASSUME LoopInv, called # NoEvent, AddTimerEvent PROVE LoopInv'
<1>. USE DEF LoopInv
<1>1. PICK e \in Timers :
          /\ e \notin Linked /\ remove' = remove \ {e} /\ running' = running \ {e}
          /\ dead' = dead \ {e} /\ seen' = seen \ {e}
          /\ timeList' = <<e>> \o timeList /\ left' = [left EXCEPT ![e] = Ival]
          /\ enabled' = enabled \ {e}
          /\ UNCHANGED <<fdList, fdOf, owed, ready, isset, phase, at, called>>
  BY DEF AddTimerEvent, NewEvent, loopVars
<1>2. PICK w : w = timeList
  OBVIOUS
<1>3. w \in Seq(Timers) /\ Distinct(w) /\ e \notin Elems(w)
  BY <1>1, <1>2 DEF TypeOK, ListInv, Linked
<1>4. /\ <<e>> \o w \in Seq(Timers) /\ Distinct(<<e>> \o w)
      /\ Elems(<<e>> \o w) = Elems(w) \cup {e}
  BY <1>3, PrependList
<1>5. /\ timeList' \in Seq(Timers) /\ Distinct(timeList')
      /\ Elems(timeList') = Elems(timeList) \cup {e}
  BY <1>1, <1>2, <1>4
<1>6. phase # "select" /\ Linked' = Linked \cup {e}
  BY <1>1, <1>5 DEF ListInv, Linked
<1>7. TypeOK'
  <2>1. remove' \subseteq Events /\ enabled' \subseteq Events /\ running' \subseteq Events
        /\ dead' \subseteq Events /\ seen' \subseteq Events
    BY <1>1 DEF TypeOK, Events
  <2>2. left' \in [Timers -> Int]
    BY <1>1, EventAssumption DEF TypeOK
  <2>. QED  BY <1>1, <1>5, <2>1, <2>2 DEF TypeOK
<1>8. ListInv'
  BY <1>1, <1>5, <1>6 DEF ListInv, ListsSound
<1>9. DeadInv'
  BY <1>1, <1>6 DEF DeadInv
<1>10. OwedInv'
  <2>1. ASSUME NEW x \in owed' PROVE x \in Elems(fdList') /\ x \in running' /\ fdOf'[x] \in isset'
    <3>1. x \in Elems(fdList) /\ x \in running /\ fdOf[x] \in isset
      BY <1>1 DEF OwedInv
    <3>2. x # e
      BY <1>1, <3>1 DEF Linked
    <3>. QED  BY <1>1, <3>1, <3>2
  <2>2. running' \subseteq seen'
    BY <1>1 DEF OwedInv
  <2>. QED  BY <1>1, <1>6, <2>1, <2>2 DEF OwedInv
<1>. QED  BY <1>7, <1>8, <1>9, <1>10

\* A callback that enables, disables or reads leaves the lists and the flags alone.
LEMMA QuietCallbackInv ==
    ASSUME LoopInv, SetEventEnabled \/ Consume \/ Tick \/ DataArrives PROVE LoopInv'
<1>. USE DEF LoopInv
<1>1. UNCHANGED <<timeList, fdList, remove, running, fdOf, isset, phase, at, called, dead, seen, owed>>
  BY DEF SetEventEnabled, Consume, Tick, DataArrives, loopVars
<1>2. enabled' \subseteq Events /\ ready' \subseteq Fds
  <2>1. Live \subseteq Events
    BY ElementOfSeq, LenProperties DEF TypeOK, Linked, Elems, Events, Live
  <2>2. CASE SetEventEnabled
    BY <2>1, <2>2 DEF SetEventEnabled, loopVars, TypeOK
  <2>3. CASE Consume
    BY <2>3 DEF Consume, TypeOK
  <2>4. CASE Tick \/ DataArrives
    BY <2>4 DEF Tick, DataArrives, loopVars, TypeOK
  <2>. QED  BY <2>2, <2>3, <2>4
<1>3. left' \in [Timers -> Int]
  <2>1. \A e \in Timers : left[e] \in Int /\ left[e] - 1 \in Int
    BY DEF TypeOK
  <2>2. CASE Tick
    BY <2>1, <2>2 DEF Tick
  <2>3. CASE SetEventEnabled \/ Consume \/ DataArrives
    BY <2>3 DEF SetEventEnabled, Consume, DataArrives, TypeOK
  <2>. QED  BY <2>2, <2>3
<1>4. TypeOK'
  BY <1>1, <1>2, <1>3 DEF TypeOK
<1>5. ListInv' /\ DeadInv' /\ OwedInv'
  BY <1>1 DEF ListInv, ListsSound, DeadInv, OwedInv, Linked
<1>. QED  BY <1>4, <1>5

-----------------------------------------------------------------------------
(***************************************************************************)
(* event_loop                                                              *)
(***************************************************************************)
LEMMA SelectInv == ASSUME LoopInv, Select PROVE LoopInv'
<1>. USE DEF LoopInv
<1>1. /\ phase = "select" /\ called = NoEvent
      /\ running' = Linked \cap enabled /\ seen' = Linked \cap enabled
      /\ isset' = ready \cap {fdOf[e] : e \in Elems(fdList) \cap enabled}
      /\ owed' = {e \in Elems(fdList) \cap enabled : fdOf[e] \in ready}
      /\ phase' = "timers" /\ at' = First(timeList)
      /\ UNCHANGED <<timeList, fdList, enabled, remove, left, fdOf, ready, called, dead>>
  BY DEF Select, Walking
<1>2. PICK tl, n : tl = timeList /\ n = First(tl)
  OBVIOUS
<1>3. n # NoEvent => n \in Elems(tl)
  <2>1. tl \in Seq(Timers) /\ NoEvent \notin Timers
    BY <1>2, EventAssumption DEF TypeOK
  <2>. QED  BY <1>2, <2>1, FirstList
<1>4. Linked \subseteq Events /\ Elems(fdList) \subseteq FdEvents /\ Elems(timeList) \subseteq Events
  BY ElementOfSeq, LenProperties DEF TypeOK, Linked, Elems, Events
<1>5. TypeOK'
  <2>1. running' \subseteq Events /\ seen' \subseteq Events /\ isset' \subseteq Fds
        /\ owed' \subseteq FdEvents
    BY <1>1, <1>4 DEF TypeOK
  <2>2. at' \in Events \cup {NoEvent}
    BY <1>1, <1>2, <1>3, <1>4
  <2>3. phase' \in {"select", "timers", "fds"}
    BY <1>1
  <2>. QED  BY <1>1, <2>1, <2>2, <2>3 DEF TypeOK
<1>6. ListInv'
  BY <1>1, <1>2, <1>3 DEF ListInv, ListsSound
<1>7. DeadInv'
  <2>1. Linked' = Linked /\ dead \cap Linked = {}
    BY <1>1 DEF ListInv, ListsSound, Linked
  <2>. QED  BY <1>1, <2>1 DEF DeadInv
<1>8. OwedInv'
  <2>1. ASSUME NEW e \in owed' PROVE e \in Elems(fdList') /\ e \in running' /\ fdOf'[e] \in isset'
    BY <1>1 DEF Linked
  <2>. QED  BY <1>1, <2>1 DEF OwedInv
<1>. QED  BY <1>5, <1>6, <1>7, <1>8

LEMMA FireTimerInv == ASSUME LoopInv, FireTimer PROVE LoopInv' /\ at \notin dead /\ at \in seen
<1>. USE DEF LoopInv
<1>1. /\ phase = "timers" /\ called = NoEvent /\ at # NoEvent /\ at \in running
      /\ left' = [left EXCEPT ![at] = IF at \in enabled THEN @ + Ival ELSE Ival]
      /\ remove' = remove \ {at} /\ enabled' = enabled \cup {at} /\ called' = at
      /\ UNCHANGED <<timeList, fdList, running, fdOf, ready, isset, phase, at, dead, seen, owed>>
  BY DEF FireTimer, Walking, TimerDue
<1>2. at \in Events /\ at \notin dead /\ at \in seen
  BY <1>1 DEF TypeOK, DeadInv, OwedInv
<1>3. left' \in [Timers -> Int]
  <2>1. \A e \in Timers : left[e] \in Int /\ left[e] + Ival \in Int /\ Ival \in Int
    BY EventAssumption DEF TypeOK
  <2>2. at \in Timers
    <3>1. at \in Elems(timeList)
      BY <1>1 DEF ListInv, ListsSound
    <3>. QED  BY <3>1, ElementOfSeq, LenProperties DEF TypeOK, Elems
  <2>. QED  BY <1>1, <2>1, <2>2 DEF TypeOK
<1>4. TypeOK'
  <2>1. remove' \subseteq Events /\ enabled' \subseteq Events /\ called' \in Events \cup {NoEvent}
    BY <1>1, <1>2 DEF TypeOK
  <2>. QED  BY <1>1, <1>3, <2>1 DEF TypeOK
<1>5. ListInv' /\ OwedInv'
  BY <1>1 DEF ListInv, ListsSound, OwedInv, Linked
<1>6. DeadInv'
  BY <1>1, <1>2 DEF DeadInv, Linked
<1>. QED  BY <1>2, <1>4, <1>5, <1>6

LEMMA FireFdInv == ASSUME LoopInv, FireFd PROVE LoopInv' /\ at \notin dead /\ at \in seen
<1>. USE DEF LoopInv
<1>1. /\ phase = "fds" /\ called = NoEvent /\ at # NoEvent /\ at \in running
      /\ called' = at /\ owed' = owed \ {at}
      /\ UNCHANGED <<timeList, fdList, enabled, remove, running, left, fdOf, ready,
                     isset, phase, at, dead, seen>>
  BY DEF FireFd, Walking, FdReady
<1>2. at \in Events /\ at \notin dead /\ at \in seen
  BY <1>1 DEF TypeOK, DeadInv, OwedInv
<1>3. TypeOK'
  <2>1. owed' \subseteq FdEvents /\ called' \in Events \cup {NoEvent}
    BY <1>1, <1>2 DEF TypeOK
  <2>. QED  BY <1>1, <2>1 DEF TypeOK
<1>4. ListInv' /\ DeadInv'
  BY <1>1 DEF ListInv, ListsSound, DeadInv, Linked
<1>5. OwedInv'
  BY <1>1 DEF OwedInv
<1>. QED  BY <1>2, <1>3, <1>4, <1>5

LEMMA NextEventInv == ASSUME LoopInv, NextEvent PROVE LoopInv'
<1>. USE DEF LoopInv
<1>1. /\ at # NoEvent
      /\ \/ called # NoEvent
         \/ Walking("timers") /\ ~TimerDue(at)
         \/ Walking("fds") /\ ~FdReady(at)
      /\ called' = NoEvent
      /\ at' = After(IF phase = "timers" THEN timeList ELSE fdList, at)
      /\ UNCHANGED <<timeList, fdList, enabled, remove, running, left, fdOf, ready,
                     isset, phase, dead, seen, owed>>
  BY DEF NextEvent
<1>2. PICK n : n = After(IF phase = "timers" THEN timeList ELSE fdList, at) /\ n = at'
  BY <1>1
<1>3. /\ n # NoEvent => n \in (IF phase = "timers" THEN Elems(timeList) ELSE Elems(fdList))
      /\ phase # "timers" => /\ n = NoEvent => From(fdList, at) = {at}
                             /\ n # NoEvent => From(fdList, at) \subseteq {at} \cup From(fdList, n)
  BY <1>1, <1>2, WalkGoesOn
<1>4. phase # "select"
  BY <1>1 DEF ListInv
<1>5. TypeOK'
  <2>1. Elems(timeList) \subseteq Events /\ Elems(fdList) \subseteq Events
    BY ElementOfSeq, LenProperties DEF TypeOK, Elems, Events
  <2>2. at' \in Events \cup {NoEvent}
    BY <1>2, <1>3, <2>1
  <2>. QED  BY <1>1, <2>2 DEF TypeOK
<1>6. ListInv' /\ DeadInv'
  BY <1>1, <1>2, <1>3, <1>4 DEF ListInv, ListsSound, DeadInv, Linked
<1>7. OwedInv'
  <2>1. ASSUME phase = "fds" PROVE at \notin owed /\ owed \subseteq From(fdList, at)
    <3>1. CASE called # NoEvent
      BY <1>1, <2>1, <3>1 DEF OwedInv
    <3>2. CASE called = NoEvent
      <4>1. ~FdReady(at)
        BY <1>1, <2>1, <3>2 DEF Walking
      <4>. QED  BY <1>1, <2>1, <4>1 DEF OwedInv, FdReady
    <3>. QED  BY <3>1, <3>2
  <2>2. phase = "fds" => /\ n = NoEvent => owed = {}
                         /\ n # NoEvent => owed \subseteq From(fdList, n)
    BY <1>3, <2>1
  <2>. QED  BY <1>1, <1>2, <1>4, <2>2 DEF OwedInv
<1>. QED  BY <1>5, <1>6, <1>7

LEMMA TimersDoneInv == ASSUME LoopInv, TimersDone PROVE LoopInv'
<1>. USE DEF LoopInv
<1>1. /\ phase = "timers" /\ called = NoEvent /\ at = NoEvent /\ phase' = "fds"
      /\ at' = (IF isset = {} THEN NoEvent ELSE First(fdList))
      /\ UNCHANGED <<timeList, fdList, enabled, remove, running, left, fdOf, ready,
                     isset, called, dead, seen, owed>>
  BY DEF TimersDone, Walking
<1>2. PICK fl, n : fl = fdList /\ n = First(fl)
  OBVIOUS
<1>3. /\ n = NoEvent => Elems(fl) = {}
      /\ n # NoEvent => n \in Elems(fl) /\ From(fl, n) = Elems(fl)
  <2>1. fl \in Seq(FdEvents) /\ NoEvent \notin FdEvents
    BY <1>2, EventAssumption DEF TypeOK
  <2>. QED  BY <1>2, <2>1, FirstList
<1>4. TypeOK'
  <2>1. Elems(fdList) \subseteq Events
    BY ElementOfSeq, LenProperties DEF TypeOK, Elems, Events
  <2>2. at' \in Events \cup {NoEvent} /\ phase' \in {"select", "timers", "fds"}
    BY <1>1, <1>2, <1>3, <2>1
  <2>. QED  BY <1>1, <2>2 DEF TypeOK
<1>5. ListInv' /\ DeadInv'
  BY <1>1, <1>2, <1>3 DEF ListInv, ListsSound, DeadInv, Linked
<1>6. OwedInv'
  <2>1. \A e \in owed : e \in Elems(fl) /\ fdOf[e] \in isset
    BY <1>2 DEF OwedInv
  <2>2. at' = NoEvent => owed = {}
    BY <1>1, <1>2, <1>3, <2>1
  <2>3. at' # NoEvent => owed \subseteq From(fdList', at')
    BY <1>1, <1>2, <1>3, <2>1
  <2>. QED  BY <1>1, <2>2, <2>3 DEF OwedInv
<1>. QED  BY <1>4, <1>5, <1>6

LEMMA StripEventsInv == ASSUME LoopInv, StripEvents PROVE LoopInv'
<1>. USE DEF LoopInv
<1>1. /\ phase = "fds" /\ called = NoEvent /\ at = NoEvent
      /\ timeList' = Without(timeList, remove) /\ fdList' = Without(fdList, remove)
      /\ phase' = "select"
      /\ UNCHANGED <<enabled, remove, running, left, fdOf, ready, isset, at, called,
                     dead, seen, owed>>
  BY DEF StripEvents, Walking, Strip
<1>2. PICK tl, fl, r : tl = timeList /\ fl = fdList /\ r = remove
  OBVIOUS
<1>3. tl \in Seq(Timers) /\ fl \in Seq(FdEvents) /\ Distinct(tl) /\ Distinct(fl)
  BY <1>2 DEF TypeOK, ListInv
<1>4. /\ Without(tl, r) \in Seq(Timers) /\ Distinct(Without(tl, r))
      /\ Elems(Without(tl, r)) = Elems(tl) \ r
  BY <1>3, WithoutList
<1>5. /\ Without(fl, r) \in Seq(FdEvents) /\ Distinct(Without(fl, r))
      /\ Elems(Without(fl, r)) = Elems(fl) \ r
  BY <1>3, WithoutList
<1>6. /\ timeList' \in Seq(Timers) /\ Distinct(timeList')
      /\ fdList' \in Seq(FdEvents) /\ Distinct(fdList') /\ Linked' = Linked \ remove
  BY <1>1, <1>2, <1>4, <1>5 DEF Linked
<1>7. TypeOK'
  BY <1>1, <1>6 DEF TypeOK
<1>8. ListInv' /\ DeadInv'
  BY <1>1, <1>6 DEF ListInv, ListsSound, DeadInv
<1>9. OwedInv'
  <2>1. owed' = {}
    BY <1>1 DEF OwedInv
  <2>. QED  BY <1>1, <2>1 DEF OwedInv
<1>. QED  BY <1>7, <1>8, <1>9

-----------------------------------------------------------------------------
LEMMA InitInv == Init => LoopInv
<1>. SUFFICES ASSUME Init PROVE LoopInv
  OBVIOUS
<1>1. PICK e \in FdEvents : fdList = <<e>> /\ enabled = {e}
  BY DEF Init
<1>2. PICK fd \in Fds : fdOf = [x \in FdEvents |-> fd]
  BY DEF Init
<1>3. fdList \in Seq(FdEvents) /\ timeList \in Seq(Timers) /\ Distinct(fdList) /\ Distinct(timeList)
  <2>1. <<e>> \in Seq(FdEvents) /\ DOMAIN <<e>> = {1} /\ timeList = << >>
        /\ << >> \in Seq(Timers) /\ DOMAIN << >> = {}
    BY DEF Init
  <2>. QED  BY <1>1, <2>1 DEF Distinct
<1>4. TypeOK
  <2>1. left \in [Timers -> Int] /\ fdOf \in [FdEvents -> Fds] /\ enabled \subseteq Events
    BY <1>1, <1>2, EventAssumption DEF Init, Events
  <2>. QED  BY <1>3, <2>1 DEF TypeOK, Init
<1>5. ListInv /\ DeadInv /\ OwedInv
  BY <1>3 DEF Init, ListInv, ListsSound, DeadInv, OwedInv
<1>. QED  BY <1>4, <1>5 DEF LoopInv

LEMMA StepInv == LoopInv /\ [Next]_vars => LoopInv'
<1>. SUFFICES ASSUME LoopInv, [Next]_vars PROVE LoopInv'
  OBVIOUS
<1>1. CASE LoopStep
  BY <1>1, SelectInv, FireTimerInv, FireFdInv, NextEventInv, TimersDoneInv, StripEventsInv
  DEF LoopStep
<1>2. CASE Callback
  BY <1>2, RemoveEventInv, AddFdEventInv, AddTimerEventInv, QuietCallbackInv DEF Callback
<1>3. CASE Tick \/ DataArrives
  BY <1>3, QuietCallbackInv
<1>4. CASE UNCHANGED vars
  <2>1. UNCHANGED <<timeList, fdList, enabled, remove, running, left, fdOf, ready, isset,
                    phase, at, called, dead, seen, owed>>
    BY <1>4 DEF vars
  <2>2. TypeOK'
    BY <2>1 DEF LoopInv, TypeOK
  <2>. QED  BY <2>1, <2>2 DEF LoopInv, ListInv, ListsSound, DeadInv, OwedInv, Linked
<1>. QED  BY <1>1, <1>2, <1>3, <1>4 DEF Next

LEMMA LoopInvariance == Spec => []LoopInv
  BY InitInv, StepInv, PTL DEF Spec

\* The lists, the flags and the answer of select() have their types.
THEOREM TypesHold == Spec => []TypeOK
<1>1. LoopInv => TypeOK
  BY DEF LoopInv
<1>. QED  BY <1>1, LoopInvariance, PTL

\* For any number of events, and whatever the callbacks do to the lists under the
\* walk: the walk never stands on an event that was unlinked, and no removed event
\* is linked when a pass begins.
THEOREM ListsStaySound == Spec => []ListsSound
<1>1. LoopInv => ListsSound
  BY DEF LoopInv, ListInv
<1>. QED  BY <1>1, LoopInvariance, PTL

\* A pass calls every descriptor event that select() found ready and that no
\* callback has removed.
THEOREM PassesServeReady == Spec => []PassServesReady
<1>1. LoopInv => PassServesReady
  BY DEF LoopInv, OwedInv, PassServesReady
<1>. QED  BY <1>1, LoopInvariance, PTL

\* No callback runs for an event that was removed, nor for one that select() has
\* not looked at in this pass.
THEOREM OnlyLiveAreCalled == Spec => OnlyLiveCalled
<1>1. LoopInv /\ [Next]_vars => [\A e \in Events : Calls(e) => e \notin dead /\ e \in seen]_vars
  <2>. SUFFICES ASSUME LoopInv, Next, NEW e \in Events, called = NoEvent, called' = e
                PROVE  e \notin dead /\ e \in seen
    BY DEF Calls
  <2>0. e # NoEvent
    BY EventAssumption DEF Events
  <2>1. CASE FireTimer
    BY <2>1, FireTimerInv DEF FireTimer
  <2>2. CASE FireFd
    BY <2>2, FireFdInv DEF FireFd
  <2>3. CASE Select \/ NextEvent \/ TimersDone \/ StripEvents
    BY <2>0, <2>3 DEF Select, NextEvent, TimersDone, StripEvents
  <2>4. CASE Callback \/ Tick \/ DataArrives
    BY <2>0, <2>4 DEF Callback, Tick, DataArrives, loopVars
  <2>. QED  BY <2>1, <2>2, <2>3, <2>4 DEF Next, LoopStep
<1>. QED  BY <1>1, LoopInvariance, PTL DEF Spec, OnlyLiveCalled
=============================================================================
