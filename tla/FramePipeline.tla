--------------------------- MODULE FramePipeline ----------------------------
(***************************************************************************)
(* The path of a media frame through the RTSP server: the frame heap and   *)
(* the exchangers of frame.c, the encoder threads of encoder-jpeg.c and    *)
(* encoder-alaw.c that allocate, fill and deliver frames, and the event    *)
(* loop that picks them up (exchanger_read) and hands them to the waiting  *)
(* destinations of a stream (stream.c).                                    *)
(*                                                                         *)
(* Threads interleave between the critical sections of the code.  A        *)
(* critical section that cannot be left half-way is one step; the one of   *)
(* deliver_frame is two, because the byte written to the pipe inside it is *)
(* visible to the event loop before the mutex is released.  The heap mutex *)
(* is modelled by heapMutexHeld because unref_frame has a path that        *)
(* returns without releasing it.                                           *)
(*                                                                         *)
(* f->destructor is set by clone_frame alone, which nothing in the server  *)
(* calls, so a frame's destructor is always NULL here.                     *)
(***************************************************************************)
EXTENDS Integers, Sequences, FiniteSets

CONSTANTS Frames,      \* the frames malloc'ed by init_frame_heap
          HeapSlots,   \* its second argument: the number of frames
          Encoders,    \* the encoder threads; each owns one exchanger
          Slots,       \* Slots[e]: the slots argument of e's new_exchanger
          Dests,       \* the stream destinations (one per live track)
          Source,      \* Source[d]: the encoder whose stream feeds d
          Loop,        \* the event loop's thread
          NoFrame      \* a NULL frame pointer

ASSUME HeapAssumption == /\ HeapSlots \in Nat \ {0}
                         /\ IsFiniteSet(Frames)
                         /\ Cardinality(Frames) = HeapSlots
                         /\ NoFrame \notin Frames

ASSUME ExchangerAssumption == /\ Slots \in [Encoders -> Nat \ {0}]
                              /\ Loop \notin Encoders

ASSUME StreamAssumption == Source \in [Dests -> Encoders]

VARIABLES heap,          \* heap[i]: the f field of heap slot i
          take, put,     \* frame_heap_take and frame_heap_put
          heapMutexHeld, \* frame_heap_mutex was left locked by unref_frame
          ref,           \* f->ref_count
          ring,          \* ring[e][i]: the f field of slot i of e's exchanger
          slaveCur,      \* ex->slave_cur
          masterRead,    \* ex->master_read
          exHeld,        \* exHeld[e]: the encoder is inside ex->mutex
          pipe,          \* bytes in the exchanger's pipe
          running,       \* en->running
          waiting,       \* dest->waiting
          pc,            \* where each thread is
          frm,           \* the frame pointer each thread is working on
          ready,         \* exchangers select() found readable, not yet served
          cur,           \* the exchanger the event loop is serving
          todo           \* rest of the dest_list walk

heapVars == <<heap, take, put, heapMutexHeld>>
exVars   == <<ring, slaveCur, masterRead, exHeld, pipe>>
strVars  == <<running, waiting>>
loopVars == <<ready, cur, todo>>
vars     == <<heap, take, put, heapMutexHeld, ref, ring, slaveCur, masterRead,
              exHeld, pipe, running, waiting, pc, frm, ready, cur, todo>>

Threads == Encoders \cup {Loop}
HeapIndex == 0 .. HeapSlots - 1
RingIndex(e) == 0 .. Slots[e] - 1

\* Slots form a circular list; next is the link.  (Faulty: one slot too many.)
NextSlotPastEnd(i, n) == IF i = n THEN 0 ELSE i + 1
NextSlot(i, n) == IF i = n - 1 THEN 0 ELSE i + 1

DestsOf(e) == {d \in Dests : Source[d] = e}

-----------------------------------------------------------------------------
\* new_frame, under the heap mutex: the frame at frame_heap_take, if any.
HeapHasFrame == heap[take] # NoFrame

\* (Faulty: the slot keeps its pointer.)
TakeButKeep(t) == /\ take' = NextSlot(take, HeapSlots)
                  /\ ref' = [ref EXCEPT ![heap[take]] = 1]
                  /\ frm' = [frm EXCEPT ![t] = heap[take]]
                  /\ UNCHANGED <<heap, put, heapMutexHeld>>

TakeFromHeap(t) == /\ heap' = [heap EXCEPT ![take] = NoFrame]
                   /\ take' = NextSlot(take, HeapSlots)
                   /\ ref' = [ref EXCEPT ![heap[take]] = 1]
                   /\ frm' = [frm EXCEPT ![t] = heap[take]]
                   /\ UNCHANGED <<put, heapMutexHeld>>

\* ref_frame
RefFrame(f) == ref' = [ref EXCEPT ![f] = @ + 1]

\* unref_frame up to its return for r > 0.  `back' is where the caller goes on,
\* `last' the point in unref_frame behind that return.
UnrefFrame(t, back, last) ==
    /\ ref' = [ref EXCEPT ![frm[t]] = @ - 1]
    /\ pc' = [pc EXCEPT ![t] = IF ref[frm[t]] - 1 > 0 THEN back ELSE last]

\* The rest of unref_frame: the frame returns to frame_heap_put, unless that
\* slot is occupied, where the code logs and returns with the mutex locked.
\* (Faulty: frame_heap_put does not advance.)
PutInPlace(t) ==
    /\ ~heapMutexHeld
    /\ IF heap[put] # NoFrame
         THEN heapMutexHeld' = TRUE /\ UNCHANGED heap
         ELSE heap' = [heap EXCEPT ![put] = frm[t]] /\ UNCHANGED heapMutexHeld
    /\ UNCHANGED <<put, take, ref>>

PutInHeap(t) ==
    /\ ~heapMutexHeld
    /\ IF heap[put] # NoFrame
         THEN /\ heapMutexHeld' = TRUE
              /\ UNCHANGED <<heap, put>>
         ELSE /\ heap' = [heap EXCEPT ![put] = frm[t]]
              /\ put' = NextSlot(put, HeapSlots)
              /\ UNCHANGED heapMutexHeld
    /\ UNCHANGED <<take, ref>>

-----------------------------------------------------------------------------
(***************************************************************************)
(* set_waiting(dest, w): the source of dest runs while somebody waits.     *)
(***************************************************************************)
SetWaiting(d, w) ==
    /\ waiting[d] # w
    /\ waiting' = [waiting EXCEPT ![d] = w]
    /\ running' = [running EXCEPT ![Source[d]] =
                     w \/ \E o \in DestsOf(Source[d]) \ {d} : waiting[o] /\ @]

(***************************************************************************)
(* The encoder threads.                                                    *)
(***************************************************************************)
\* Top of jpeg_loop and alaw_loop: en->running is read without a lock.
CheckRunning(e) == /\ pc[e] = "top"
                   /\ running[e]
                   /\ pc' = [pc EXCEPT ![e] = "capture"]
                   /\ UNCHANGED <<heapVars, ref, exVars, strVars, frm, loopVars>>

\* No frame this time: the device fails, the data is larger than a frame, or
\* new_frame returns NULL.
GiveUp(e) == /\ pc[e] = "capture"
             /\ pc' = [pc EXCEPT ![e] = "top"]
             /\ UNCHANGED <<heapVars, ref, exVars, strVars, frm, loopVars>>

NewFrame(e) == /\ pc[e] = "capture"
               /\ ~heapMutexHeld
               /\ HeapHasFrame
               /\ TakeFromHeap(e)
               /\ pc' = [pc EXCEPT ![e] = "deliver"]
               /\ UNCHANGED <<exVars, strVars, loopVars>>

\* deliver_frame, whose mutex only the event loop contends for.  Once the frame
\* is stored the encoder has given it away.
RingFull(e) == NextSlot(slaveCur[e], Slots[e]) = masterRead[e]

\* (Faulty: the byte is written for the dropped frame, too; the oldest frame of
\* the ring is dropped instead, and the new one takes its place.)
DeliverFullSignals(e) ==
    /\ pc[e] = "deliver"
    /\ RingFull(e)
    /\ pipe' = [pipe EXCEPT ![e] = @ + 1]
    /\ pc' = [pc EXCEPT ![e] = "unref"]
    /\ UNCHANGED <<heapVars, ref, ring, slaveCur, masterRead, exHeld, strVars, frm,
                   loopVars>>

DeliverFullReplaces(e) ==
    /\ pc[e] = "deliver"
    /\ RingFull(e)
    /\ ring' = [ring EXCEPT ![e][masterRead[e]] = frm[e]]
    /\ frm' = [frm EXCEPT ![e] = ring[e][masterRead[e]]]
    /\ pc' = [pc EXCEPT ![e] = "unref"]
    /\ UNCHANGED <<heapVars, ref, slaveCur, masterRead, exHeld, pipe, strVars,
                   loopVars>>

DeliverFull(e) == /\ pc[e] = "deliver"
                  /\ RingFull(e)
                  /\ pc' = [pc EXCEPT ![e] = "unref"]
                  /\ UNCHANGED <<heapVars, ref, exVars, strVars, frm, loopVars>>

\* (Faulty: no byte is written to the pipe.)
DeliverSilently(e) ==
    /\ pc[e] = "deliver"
    /\ ~RingFull(e)
    /\ exHeld' = [exHeld EXCEPT ![e] = TRUE]
    /\ ring' = [ring EXCEPT ![e][slaveCur[e]] = frm[e]]
    /\ pc' = [pc EXCEPT ![e] = "advance"]
    /\ frm' = [frm EXCEPT ![e] = NoFrame]
    /\ UNCHANGED <<heapVars, ref, slaveCur, masterRead, pipe, strVars, loopVars>>

DeliverStore(e) ==
    /\ pc[e] = "deliver"
    /\ ~RingFull(e)
    /\ exHeld' = [exHeld EXCEPT ![e] = TRUE]
    /\ ring' = [ring EXCEPT ![e][slaveCur[e]] = frm[e]]
    /\ pipe' = [pipe EXCEPT ![e] = @ + 1]
    /\ pc' = [pc EXCEPT ![e] = "advance"]
    /\ frm' = [frm EXCEPT ![e] = NoFrame]
    /\ UNCHANGED <<heapVars, ref, slaveCur, masterRead, strVars, loopVars>>

DeliverAdvance(e) ==
    /\ pc[e] = "advance"
    /\ slaveCur' = [slaveCur EXCEPT ![e] = NextSlot(@, Slots[e])]
    /\ exHeld' = [exHeld EXCEPT ![e] = FALSE]
    /\ pc' = [pc EXCEPT ![e] = "top"]
    /\ UNCHANGED <<heapVars, ref, ring, masterRead, pipe, strVars, frm, loopVars>>

\* unref_frame of the frame that met a full ring
EncoderUnref(e) == /\ pc[e] = "unref"
                   /\ UnrefFrame(e, "top", "put")
                   /\ frm' = [frm EXCEPT ![e] = IF ref[frm[e]] - 1 > 0
                                                THEN NoFrame ELSE @]
                   /\ UNCHANGED <<heapVars, exVars, strVars, loopVars>>

EncoderPut(e) == /\ pc[e] = "put"
                 /\ PutInHeap(e)
                 /\ pc' = [pc EXCEPT ![e] = "top"]
                 /\ frm' = [frm EXCEPT ![e] = NoFrame]
                 /\ UNCHANGED <<exVars, strVars, loopVars>>

EncoderStep(e) == \/ CheckRunning(e) \/ GiveUp(e) \/ NewFrame(e)
                  \/ DeliverFull(e) \/ DeliverStore(e) \/ DeliverAdvance(e)
                  \/ EncoderUnref(e) \/ EncoderPut(e)

-----------------------------------------------------------------------------
(***************************************************************************)
(* The event loop thread.                                                  *)
(***************************************************************************)
\* event_loop: select() reports the exchangers with a byte to read.
Select == /\ pc[Loop] = "dispatch"
          /\ ready = {}
          /\ ready' = {e \in Encoders : pipe[e] > 0}
          /\ ready' # {}
          /\ UNCHANGED <<heapVars, ref, exVars, strVars, pc, frm, cur, todo>>

\* Any other event of the loop: RTSP requests change who waits.
HandleRequest == /\ pc[Loop] = "dispatch"
                 /\ \E d \in Dests, w \in BOOLEAN : SetWaiting(d, w)
                 /\ UNCHANGED <<heapVars, ref, exVars, pc, frm, loopVars>>

\* exchanger_read: one byte per dispatch ...
ReadByte(e) == /\ pc[Loop] = "dispatch"
               /\ e \in ready
               /\ pipe[e] > 0
               /\ ready' = ready \ {e}
               /\ pipe' = [pipe EXCEPT ![e] = @ - 1]
               /\ cur' = e
               /\ pc' = [pc EXCEPT ![Loop] = "take"]
               /\ UNCHANGED <<heapVars, ref, ring, slaveCur, masterRead, exHeld,
                              strVars, frm, todo>>

\* ... then, under ex->mutex, the slot at master_read.
LostFrame == ring[cur][masterRead[cur]] = NoFrame

\* Where master_read goes.
MasterNext == NextSlot(masterRead[cur], Slots[cur])

TakeFrame ==
    /\ pc[Loop] = "take"
    /\ ~exHeld[cur]
    /\ IF LostFrame
         THEN /\ masterRead' = [masterRead EXCEPT ![cur] = slaveCur[cur]]
              /\ pc' = [pc EXCEPT ![Loop] = "dispatch"]
              /\ UNCHANGED <<ring, frm, todo>>
         ELSE /\ frm' = [frm EXCEPT ![Loop] = ring[cur][masterRead[cur]]]
              /\ ring' = [ring EXCEPT ![cur][masterRead[cur]] = NoFrame]
              /\ masterRead' = [masterRead EXCEPT ![cur] = MasterNext]
              /\ pc' = [pc EXCEPT ![Loop] = "walk"]
              /\ todo' = DestsOf(cur)
    /\ UNCHANGED <<heapVars, ref, slaveCur, exHeld, pipe, strVars, ready, cur>>

\* deliver_frame_to_stream: the walk of dest_list.
SkipDest(d) == /\ pc[Loop] = "walk"
               /\ d \in todo
               /\ ~waiting[d]
               /\ todo' = todo \ {d}
               /\ UNCHANGED <<heapVars, ref, exVars, strVars, pc, frm, ready, cur>>

RefForDest(d) == /\ pc[Loop] = "walk"
                 /\ d \in todo
                 /\ waiting[d]
                 /\ RefFrame(frm[Loop])
                 /\ todo' = todo \ {d}
                 /\ pc' = [pc EXCEPT ![Loop] = "process"]
                 /\ UNCHANGED <<heapVars, exVars, strVars, frm, ready, cur>>

\* dest->process_frame: sending may end sessions and so stop waiting on any
\* destination; every path of it ends in unref_frame.
ProcessFrame ==
    /\ pc[Loop] = "process"
    /\ \E D \in SUBSET Dests :
         /\ waiting' = [d \in Dests |-> waiting[d] /\ d \notin D]
         /\ running' = [e \in Encoders |->
                          running[e] /\ \/ \A d \in DestsOf(e) \cap D : ~waiting[d]
                                        \/ \E d \in DestsOf(e) \ D : waiting[d]]
    /\ pc' = [pc EXCEPT ![Loop] = "unrefDest"]
    /\ UNCHANGED <<heapVars, ref, exVars, frm, loopVars>>

UnrefForDest == /\ pc[Loop] = "unrefDest"
                /\ UnrefFrame(Loop, "walk", "putDest")
                /\ UNCHANGED <<heapVars, exVars, strVars, frm, loopVars>>

\* The last unref_frame of deliver_frame_to_stream.
UnrefDelivered == /\ pc[Loop] = "walk"
                  /\ todo = {}
                  /\ UnrefFrame(Loop, "dispatch", "put")
                  /\ frm' = [frm EXCEPT ![Loop] = IF ref[frm[Loop]] - 1 > 0
                                                  THEN NoFrame ELSE @]
                  /\ UNCHANGED <<heapVars, exVars, strVars, loopVars>>

\* unref_frame's return to the heap; the walk goes on if a destination's
\* unref_frame was the last one.
LoopPut == /\ pc[Loop] \in {"put", "putDest"}
           /\ PutInHeap(Loop)
           /\ pc' = [pc EXCEPT ![Loop] = IF @ = "put" THEN "dispatch" ELSE "walk"]
           /\ frm' = [frm EXCEPT ![Loop] = IF pc[Loop] = "put" THEN NoFrame ELSE @]
           /\ UNCHANGED <<exVars, strVars, loopVars>>

\* Steps that serve exchangers, without the requests of clients.
LoopStep == \/ Select \/ TakeFrame \/ ProcessFrame \/ UnrefForDest
            \/ UnrefDelivered \/ LoopPut
            \/ \E e \in Encoders : ReadByte(e)
            \/ \E d \in Dests : SkipDest(d) \/ RefForDest(d)

-----------------------------------------------------------------------------
\* init_frame_heap and new_exchanger.  Destinations and encoders may have been
\* switched on by the configuration before the event loop starts.
Init == /\ heap \in [HeapIndex -> Frames]
        /\ \A i, j \in HeapIndex : heap[i] = heap[j] => i = j
        /\ \A f \in Frames : \E i \in HeapIndex : heap[i] = f
        /\ take = 0 /\ put = 0
        /\ heapMutexHeld = FALSE
        /\ ref = [f \in Frames |-> 0]
        /\ ring = [e \in Encoders |-> [i \in RingIndex(e) |-> NoFrame]]
        /\ slaveCur = [e \in Encoders |-> 0]
        /\ masterRead = [e \in Encoders |-> 0]
        /\ exHeld = [e \in Encoders |-> FALSE]
        /\ pipe = [e \in Encoders |-> 0]
        /\ waiting \in [Dests -> BOOLEAN]
        /\ running = [e \in Encoders |-> \E d \in DestsOf(e) : waiting[d]]
        /\ pc = [t \in Threads |-> IF t = Loop THEN "dispatch" ELSE "top"]
        /\ frm = [t \in Threads |-> NoFrame]
        /\ ready = {}
        /\ cur \in Encoders
        /\ todo = {}

Next == \/ \E e \in Encoders : EncoderStep(e)
        \/ LoopStep
        \/ HandleRequest

Spec == Init /\ [][Next]_vars

\* Threads are scheduled fairly and system calls return.
Fairness == /\ \A e \in Encoders : WF_vars(EncoderStep(e))
            /\ WF_vars(LoopStep)

FairSpec == Spec /\ Fairness

-----------------------------------------------------------------------------
EncoderPCs == {"top", "capture", "deliver", "advance", "unref", "put"}
LoopPCs == {"dispatch", "take", "walk", "process", "unrefDest", "putDest", "put"}

HeapType == /\ heap \in [HeapIndex -> Frames \cup {NoFrame}]
            /\ take \in HeapIndex
            /\ put \in HeapIndex
            /\ heapMutexHeld \in BOOLEAN
            /\ ref \in [Frames -> Int]

ExchangerType == /\ DOMAIN ring = Encoders
                 /\ \A e \in Encoders :
                      /\ ring[e] \in [RingIndex(e) -> Frames \cup {NoFrame}]
                      /\ slaveCur[e] \in RingIndex(e)
                      /\ masterRead[e] \in RingIndex(e)
                 /\ slaveCur \in [Encoders -> Nat]
                 /\ masterRead \in [Encoders -> Nat]
                 /\ exHeld \in [Encoders -> BOOLEAN]
                 /\ pipe \in [Encoders -> Nat]

StreamType == /\ waiting \in [Dests -> BOOLEAN]
              /\ running \in [Encoders -> BOOLEAN]

ThreadType == /\ pc \in [Threads -> EncoderPCs \cup LoopPCs]
              /\ \A e \in Encoders : pc[e] \in EncoderPCs
              /\ pc[Loop] \in LoopPCs
              /\ frm \in [Threads -> Frames \cup {NoFrame}]
              /\ ready \in SUBSET Encoders
              /\ cur \in Encoders
              /\ todo \in SUBSET Dests

\* The type invariant of the pipeline's state.
TypeOK == HeapType /\ ExchangerType /\ StreamType /\ ThreadType

\* unref_frame never meets an occupied frame_heap_put, the case in which it
\* returns with frame_heap_mutex locked and every thread stops at the heap.
HeapMutexReleased == ~heapMutexHeld

\* exchanger_read never takes its "We lost a frame!" path: whenever it holds
\* the byte of a frame and the mutex, that frame is at master_read.
NoLostFrame == pc[Loop] = "take" /\ ~exHeld[cur] => ~LostFrame

\* Frame f is in the heap, in the ring of e, in the hands of thread t.
InHeap(f) == \E i \in HeapIndex : heap[i] = f
InRing(f, e) == \E i \in RingIndex(e) : ring[e][i] = f
HeldBy(f, t) == frm[t] = f

HeapDistinct == \A i, j \in HeapIndex :
    heap[i] \in Frames /\ heap[i] = heap[j] => i = j

RingDistinct == \A e, x \in Encoders : \A i \in RingIndex(e), j \in RingIndex(x) :
    ring[e][i] \in Frames /\ ring[e][i] = ring[x][j] => e = x /\ i = j

RingNotInHeap == \A e \in Encoders : \A i \in RingIndex(e), j \in HeapIndex :
    ring[e][i] \in Frames => ring[e][i] # heap[j]

HeldNotInHeap == \A t \in Threads : \A j \in HeapIndex :
    frm[t] \in Frames => frm[t] # heap[j]

HeldNotInRing == \A t \in Threads, e \in Encoders : \A i \in RingIndex(e) :
    frm[t] \in Frames => frm[t] # ring[e][i]

HeldDistinct == \A t, u \in Threads : frm[t] \in Frames /\ frm[t] = frm[u] => t = u

\* A frame has one owner at a time: no slot of the heap or of a ring holds a
\* frame that another slot holds or that some thread works on, so an encoder
\* never fills a frame the event loop still sends.
OneOwner == /\ HeapDistinct /\ RingDistinct /\ RingNotInHeap
            /\ HeldNotInHeap /\ HeldNotInRing /\ HeldDistinct

\* No frame is ever forgotten: dropped frames (full ring, nobody waiting) and
\* processed ones are always on their way back to the heap.
NoFrameLeaks == \A f \in Frames :
    InHeap(f) \/ (\E e \in Encoders : InRing(f, e)) \/ (\E t \in Threads : HeldBy(f, t))

\* f->ref_count is the number of owners of f: one for its place in an encoder,
\* a ring or the dest_list walk, one more while a destination processes it,
\* and none once unref_frame has decided to return it.
RefCountsOwners ==
    /\ \A e \in Encoders : \A i \in RingIndex(e) :
          ring[e][i] \in Frames => ref[ring[e][i]] = 1
    /\ \A t \in Threads : frm[t] \in Frames =>
          ref[frm[t]] = IF pc[t] \in {"process", "unrefDest"} THEN 2
                        ELSE IF pc[t] \in {"put", "putDest"} THEN 0 ELSE 1

\* Each frame has one owner, none is forgotten, and ref_count is right.
FramesOwned == OneOwner /\ NoFrameLeaks /\ RefCountsOwners

-----------------------------------------------------------------------------
\* The refinement mapping to FrameChannel.
\* Inside deliver_frame the frame at slave_cur counts as queued already.
QueueLen(e) == (IF slaveCur[e] >= masterRead[e]
                THEN slaveCur[e] - masterRead[e]
                ELSE slaveCur[e] - masterRead[e] + Slots[e])
               + (IF exHeld[e] THEN 1 ELSE 0)

QueueIndex(e, k) == IF masterRead[e] + k - 1 < Slots[e]
                    THEN masterRead[e] + k - 1
                    ELSE masterRead[e] + k - 1 - Slots[e]

freeBar   == {f \in Frames : InHeap(f)}
inHandBar == [e \in Encoders |-> {frm[e]} \ {NoFrame}]
queueBar  == [e \in Encoders |->
                [k \in 1 .. QueueLen(e) |-> ring[e][QueueIndex(e, k)]]]
inUseBar  == {frm[Loop]} \ {NoFrame}

Channel == INSTANCE FrameChannel
             WITH Capacity <- [e \in Encoders |-> Slots[e] - 1],
                  free <- freeBar, inHand <- inHandBar,
                  queue <- queueBar, inUse <- inUseBar

\* Rings, pipes, mutexes and reference counts implement a pool of frames and
\* one FIFO of slots - 1 frames per encoder: nothing is lost, duplicated,
\* reordered or handed out twice.
ImplementsChannel == Channel!ChSpec

\* Every frame that left the heap returns to it.
FramesReturn == \A f \in Frames : ~InHeap(f) ~> InHeap(f)
=============================================================================
