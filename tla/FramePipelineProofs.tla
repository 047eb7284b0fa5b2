------------------------ MODULE FramePipelineProofs -------------------------
(***************************************************************************)
(* Proofs about FramePipeline for any number of frames, encoders, slots    *)
(* and destinations.                                                       *)
(***************************************************************************)
EXTENDS FramePipeline, FiniteSetTheorems, SequenceTheorems, TLAPS

\* Index i lies in the cyclic interval that starts at a and ends before b.
Between(i, a, b) == IF a <= b THEN a <= i /\ i < b ELSE a <= i \/ i < b

\* The frames of the heap lie from frame_heap_take to frame_heap_put; when the
\* two meet the heap is full or empty.
HeapShape ==
    /\ heap[take] = NoFrame => put = take
    /\ \A i \in HeapIndex : heap[i] \in Frames <=>
          heap[take] \in Frames /\ (put = take \/ Between(i, take, put))

\* The frames of a ring lie from master_read to slave_cur; the slot at
\* slave_cur is occupied only inside deliver_frame, when the ring had room.
RingShape == \A e \in Encoders :
    /\ \A i \in RingIndex(e) : ring[e][i] \in Frames <=>
          Between(i, masterRead[e], slaveCur[e]) \/ (exHeld[e] /\ i = slaveCur[e])
    /\ exHeld[e] => ~RingFull(e)

\* The pipe holds a byte for each frame of the ring, except for the one the
\* event loop has read and not yet redeemed.
Redeeming(e) == IF pc[Loop] = "take" /\ cur = e THEN 1 ELSE 0
PipeBytes == \A e \in Encoders : pipe[e] + Redeeming(e) = QueueLen(e)

\* What a thread's position says about its frame pointer and its mutex.
Positions ==
    /\ \A e \in Encoders :
          /\ exHeld[e] <=> pc[e] = "advance"
          /\ frm[e] \in Frames <=> pc[e] \in {"deliver", "unref", "put"}
    /\ frm[Loop] \in Frames <=> pc[Loop] \in {"walk", "process", "unrefDest", "put"}
    /\ pc[Loop] # "putDest"

\* The inductive invariant.
IInv == /\ TypeOK
        /\ HeapMutexReleased
        /\ HeapShape
        /\ RingShape
        /\ PipeBytes
        /\ Positions
        /\ OneOwner
        /\ RefCountsOwners
        /\ NoFrameLeaks

-----------------------------------------------------------------------------
(***************************************************************************)
(* What a step leaves alone.                                               *)
(***************************************************************************)

\* Steps that do not touch the heap keep its shape.
LEMMA HeapShapeKept ==
    ASSUME HeapShape, UNCHANGED <<heap, take, put>>
    PROVE  HeapShape'
  BY DEF HeapShape, HeapIndex

\* Steps that do not touch the exchangers keep the shape of their rings.
LEMMA RingShapeKept ==
    ASSUME RingShape, UNCHANGED <<ring, slaveCur, masterRead, exHeld>>
    PROVE  RingShape'
  BY DEF RingShape, RingIndex, RingFull

\* Steps that move no frame change no ownership.
LEMMA OwnershipKept ==
    ASSUME OneOwner, NoFrameLeaks, UNCHANGED <<heap, ring, frm>>
    PROVE  OneOwner' /\ NoFrameLeaks'
<1>1. OneOwner'
  <2>1. HeapDistinct' /\ RingDistinct' /\ RingNotInHeap'
    BY DEF OneOwner, HeapDistinct, RingDistinct, RingNotInHeap, HeapIndex, RingIndex
  <2>2. HeldNotInHeap' /\ HeldNotInRing' /\ HeldDistinct'
    BY DEF OneOwner, HeldNotInHeap, HeldNotInRing, HeldDistinct,
           HeapIndex, RingIndex, Threads
  <2>. QED  BY <2>1, <2>2 DEF OneOwner
<1>2. NoFrameLeaks'
  BY DEF NoFrameLeaks, InHeap, InRing, HeldBy, HeapIndex, RingIndex, Threads
<1>. QED  BY <1>1, <1>2

(***************************************************************************)
(* The four moves of a frame: heap to thread (new_frame), thread to heap   *)
(* (unref_frame), thread to ring (deliver_frame), ring to thread           *)
(* (exchanger_read).  Each keeps one owner per frame and forgets none.     *)
(***************************************************************************)

\* Pointwise, the update of one slot of one ring.
RingSet(e, k, v) == \A x \in Encoders : \A j \in RingIndex(x) :
    ring'[x][j] = IF x = e /\ j = k THEN v ELSE ring[x][j]

\* Pointwise, the update of one slot of the heap.
HeapSet(k, v) == \A j \in HeapIndex : heap'[j] = IF j = k THEN v ELSE heap[j]

\* Pointwise, the update of one thread's frame pointer.
FrmSet(t, v) == \A u \in Threads : frm'[u] = IF u = t THEN v ELSE frm[u]

\* new_frame moves the frame at frame_heap_take to the calling thread.
LEMMA MoveHeapToThread ==
    ASSUME OneOwner, NoFrameLeaks, NoFrame \notin Frames,
           NEW t \in Threads, frm[t] = NoFrame,
           NEW k \in HeapIndex, heap[k] \in Frames,
           HeapSet(k, NoFrame), FrmSet(t, heap[k]), UNCHANGED ring
    PROVE  OneOwner' /\ NoFrameLeaks'
<1>. USE DEF HeapSet, FrmSet
<1>1. HeapDistinct' /\ RingNotInHeap'
  BY DEF OneOwner, HeapDistinct, RingNotInHeap, HeapIndex, RingIndex
<1>2. RingDistinct'
  BY DEF OneOwner, RingDistinct, RingIndex
<1>3. HeldNotInHeap'
  BY DEF OneOwner, HeapDistinct, HeldNotInHeap, HeapIndex, Threads
<1>4. HeldNotInRing'
  BY DEF OneOwner, RingNotInHeap, HeldNotInRing, RingIndex, HeapIndex, Threads
<1>5. HeldDistinct'
  BY DEF OneOwner, HeldNotInHeap, HeldDistinct, Threads
<1>6. NoFrameLeaks'
  <2>. SUFFICES ASSUME NEW f \in Frames
                PROVE  \/ InHeap(f)'
                       \/ \E e \in Encoders : InRing(f, e)'
                       \/ \E u \in Threads : HeldBy(f, u)'
    BY DEF NoFrameLeaks, Threads
  <2>1. CASE InHeap(f)
    BY <2>1 DEF InHeap, HeldBy, HeapIndex
  <2>2. CASE \E e \in Encoders : InRing(f, e)
    BY <2>2 DEF InRing, RingIndex
  <2>3. CASE \E u \in Threads : HeldBy(f, u)
    BY <2>3 DEF HeldBy
  <2>. QED  BY <2>1, <2>2, <2>3 DEF NoFrameLeaks
<1>. QED  BY <1>1, <1>2, <1>3, <1>4, <1>5, <1>6 DEF OneOwner

\* unref_frame moves the calling thread's frame to an empty frame_heap_put.
LEMMA MoveThreadToHeap ==
    ASSUME OneOwner, NoFrameLeaks, NoFrame \notin Frames,
           NEW t \in Threads, frm[t] \in Frames,
           NEW k \in HeapIndex, heap[k] = NoFrame,
           HeapSet(k, frm[t]), FrmSet(t, NoFrame), UNCHANGED ring
    PROVE  OneOwner' /\ NoFrameLeaks'
<1>. USE DEF HeapSet, FrmSet
<1>1. HeapDistinct'
  BY DEF OneOwner, HeapDistinct, HeldNotInHeap, HeapIndex
<1>2. RingDistinct'
  BY DEF OneOwner, RingDistinct, RingIndex
<1>3. RingNotInHeap'
  BY DEF OneOwner, RingNotInHeap, HeldNotInRing, RingIndex, HeapIndex
<1>4. HeldNotInHeap'
  BY DEF OneOwner, HeldDistinct, HeldNotInHeap, HeapIndex, Threads
<1>5. HeldNotInRing' /\ HeldDistinct'
  BY DEF OneOwner, HeldNotInRing, HeldDistinct, RingIndex, Threads
<1>6. NoFrameLeaks'
  <2>. SUFFICES ASSUME NEW f \in Frames
                PROVE  \/ InHeap(f)'
                       \/ \E e \in Encoders : InRing(f, e)'
                       \/ \E u \in Threads : HeldBy(f, u)'
    BY DEF NoFrameLeaks, Threads
  <2>1. CASE InHeap(f)
    BY <2>1 DEF InHeap, HeapIndex
  <2>2. CASE \E e \in Encoders : InRing(f, e)
    BY <2>2 DEF InRing, RingIndex
  <2>3. CASE \E u \in Threads : HeldBy(f, u)
    BY <2>3 DEF HeldBy, InHeap, HeapIndex
  <2>. QED  BY <2>1, <2>2, <2>3 DEF NoFrameLeaks
<1>. QED  BY <1>1, <1>2, <1>3, <1>4, <1>5, <1>6 DEF OneOwner

\* deliver_frame moves the encoder's frame to the empty slot at slave_cur.
LEMMA MoveThreadToRing ==
    ASSUME OneOwner, NoFrameLeaks, NoFrame \notin Frames,
           NEW t \in Threads, frm[t] \in Frames,
           NEW e \in Encoders, NEW k \in RingIndex(e), ring[e][k] = NoFrame,
           RingSet(e, k, frm[t]), FrmSet(t, NoFrame), UNCHANGED heap
    PROVE  OneOwner' /\ NoFrameLeaks'
<1>. USE DEF RingSet, FrmSet
<1>1. HeapDistinct'
  BY DEF OneOwner, HeapDistinct, HeapIndex
<1>2. RingDistinct'
  BY DEF OneOwner, RingDistinct, HeldNotInRing, RingIndex
<1>3. RingNotInHeap'
  BY DEF OneOwner, RingNotInHeap, HeldNotInHeap, RingIndex, HeapIndex
<1>4. HeldNotInHeap' /\ HeldDistinct'
  BY DEF OneOwner, HeldDistinct, HeldNotInHeap, HeapIndex, Threads
<1>5. HeldNotInRing'
  BY DEF OneOwner, HeldNotInRing, HeldDistinct, RingIndex, Threads
<1>6. NoFrameLeaks'
  <2>. SUFFICES ASSUME NEW f \in Frames
                PROVE  \/ InHeap(f)'
                       \/ \E x \in Encoders : InRing(f, x)'
                       \/ \E u \in Threads : HeldBy(f, u)'
    BY DEF NoFrameLeaks, Threads
  <2>1. CASE InHeap(f)
    BY <2>1 DEF InHeap, HeapIndex
  <2>2. CASE \E x \in Encoders : InRing(f, x)
    BY <2>2 DEF InRing, RingIndex
  <2>3. CASE \E u \in Threads : HeldBy(f, u)
    BY <2>3 DEF HeldBy, InRing, RingIndex
  <2>. QED  BY <2>1, <2>2, <2>3 DEF NoFrameLeaks
<1>. QED  BY <1>1, <1>2, <1>3, <1>4, <1>5, <1>6 DEF OneOwner

\* exchanger_read moves the frame at master_read to the event loop.
LEMMA MoveRingToThread ==
    ASSUME OneOwner, NoFrameLeaks, NoFrame \notin Frames,
           NEW t \in Threads, frm[t] = NoFrame,
           NEW e \in Encoders, NEW k \in RingIndex(e), ring[e][k] \in Frames,
           RingSet(e, k, NoFrame), FrmSet(t, ring[e][k]), UNCHANGED heap
    PROVE  OneOwner' /\ NoFrameLeaks'
<1>. USE DEF RingSet, FrmSet
<1>1. HeapDistinct'
  BY DEF OneOwner, HeapDistinct, HeapIndex
<1>2. RingDistinct' /\ RingNotInHeap'
  BY DEF OneOwner, RingDistinct, RingNotInHeap, RingIndex, HeapIndex
<1>3. HeldNotInHeap'
  BY DEF OneOwner, RingNotInHeap, HeldNotInHeap, HeapIndex, RingIndex, Threads
<1>4. HeldNotInRing'
  BY DEF OneOwner, HeldNotInRing, RingDistinct, RingIndex, Threads
<1>5. HeldDistinct'
  BY DEF OneOwner, HeldNotInRing, HeldDistinct, RingIndex, Threads
<1>6. NoFrameLeaks'
  <2>. SUFFICES ASSUME NEW f \in Frames
                PROVE  \/ InHeap(f)'
                       \/ \E x \in Encoders : InRing(f, x)'
                       \/ \E u \in Threads : HeldBy(f, u)'
    BY DEF NoFrameLeaks, Threads
  <2>1. CASE InHeap(f)
    BY <2>1 DEF InHeap, HeapIndex
  <2>2. CASE \E x \in Encoders : InRing(f, x)
    BY <2>2 DEF InRing, HeldBy, RingIndex
  <2>3. CASE \E u \in Threads : HeldBy(f, u)
    BY <2>3 DEF HeldBy
  <2>. QED  BY <2>1, <2>2, <2>3 DEF NoFrameLeaks
<1>. QED  BY <1>1, <1>2, <1>3, <1>4, <1>5, <1>6 DEF OneOwner

\* A thread that holds a frame finds frame_heap_put empty: an occupied one
\* would mean as many frames in the heap as there are frames.
LEMMA PutSlotEmpty ==
    ASSUME HeapType, ThreadType, HeapShape, OneOwner,
           NEW t \in Threads, frm[t] \in Frames
    PROVE  heap[put] = NoFrame
<1>. SUFFICES ASSUME heap[put] \in Frames PROVE FALSE
  BY DEF HeapType
<1>1. \A i \in HeapIndex : heap[i] \in Frames
  BY HeapAssumption DEF HeapType, HeapShape, Between, HeapIndex
<1>2. heap \in [HeapIndex -> Frames \ {frm[t]}]
  BY <1>1 DEF HeapType, OneOwner, HeldNotInHeap
<1>3. IsFiniteSet(Frames \ {frm[t]}) /\ Cardinality(Frames \ {frm[t]}) = HeapSlots - 1
  BY HeapAssumption, FS_RemoveElement
<1>4. IsFiniteSet(HeapIndex) /\ Cardinality(HeapIndex) = HeapSlots
  BY HeapAssumption, FS_Interval DEF HeapIndex
<1>5. \E x, y \in HeapIndex : x # y /\ heap[x] = heap[y]
  <2>1. Cardinality(Frames \ {frm[t]}) < Cardinality(HeapIndex)
    BY <1>3, <1>4, HeapAssumption
  <2>. QED  BY <1>2, <1>3, <1>4, <2>1, FS_PigeonHole
<1>. QED  BY <1>1, <1>5 DEF OneOwner, HeapDistinct

-----------------------------------------------------------------------------
(***************************************************************************)
(* Facts about one step of the rings and of the heap.                      *)
(***************************************************************************)

\* The link of a circular list of n slots stays in the list.
LEMMA NextSlotInRange ==
    ASSUME NEW n \in Nat \ {0}, NEW i \in 0 .. n - 1
    PROVE  NextSlot(i, n) \in 0 .. n - 1
  BY DEF NextSlot

\* When exchanger_read holds a byte and the mutex, there is a frame at
\* master_read.
LEMMA FrameAtMasterRead ==
    ASSUME IInv, pc[Loop] = "take", ~exHeld[cur]
    PROVE  ring[cur][masterRead[cur]] \in Frames
<1>1. /\ cur \in Encoders
      /\ Slots[cur] \in Nat \ {0}
      /\ masterRead[cur] \in RingIndex(cur) /\ slaveCur[cur] \in RingIndex(cur)
      /\ pipe[cur] \in Nat
  BY ExchangerAssumption DEF IInv, TypeOK, ThreadType, ExchangerType
<1>2. pipe[cur] + 1 = QueueLen(cur)
  BY <1>1 DEF IInv, PipeBytes, Redeeming
<1>3. slaveCur[cur] # masterRead[cur]
  BY <1>1, <1>2 DEF QueueLen, RingIndex
<1>4. Between(masterRead[cur], masterRead[cur], slaveCur[cur])
  BY <1>1, <1>3 DEF Between, RingIndex
<1>. QED  BY <1>1, <1>4 DEF IInv, RingShape

\* unref_frame's return of a frame to the heap keeps the heap in shape.
LEMMA PutKeepsHeap ==
    ASSUME IInv, NEW t \in Threads, frm[t] \in Frames, PutInHeap(t)
    PROVE  /\ HeapType' /\ HeapMutexReleased' /\ HeapShape'
           /\ heap[put] = NoFrame /\ HeapSet(put, frm[t]) /\ UNCHANGED ref
<1>1. heap[put] = NoFrame
  BY PutSlotEmpty DEF IInv, TypeOK
<1>2. /\ heap' = [heap EXCEPT ![put] = frm[t]]
      /\ put' = NextSlot(put, HeapSlots)
      /\ UNCHANGED <<heapMutexHeld, take, ref>>
  BY <1>1 DEF PutInHeap
<1>3. put' \in HeapIndex
  BY <1>2, NextSlotInRange, HeapAssumption DEF IInv, TypeOK, HeapType, HeapIndex
<1>4. HeapType' /\ HeapMutexReleased'
  BY <1>2, <1>3 DEF IInv, TypeOK, HeapType, HeapMutexReleased, HeapIndex
<1>5. HeapSet(put, frm[t])
  BY <1>2 DEF HeapSet, IInv, TypeOK, HeapType
<1>6. HeapShape'
  <2>1. \A i \in HeapIndex : heap[i] \in Frames <=>
          heap[take] \in Frames /\ Between(i, take, put)
    BY <1>1, HeapAssumption DEF IInv, TypeOK, HeapType, HeapShape, HeapIndex
  <2>2. take \in 0 .. HeapSlots - 1 /\ put \in 0 .. HeapSlots - 1
    BY DEF IInv, TypeOK, HeapType, HeapIndex
  <2>3. CASE put = take
    <3>1. \A i \in HeapIndex : heap[i] \notin Frames
      BY <2>1, <2>2, <2>3 DEF Between, HeapIndex
    <3>2. \A i \in HeapIndex : heap'[i] \in Frames <=> i = take
      BY <1>5, <2>3, <3>1 DEF HeapSet
    <3>. QED  BY <1>2, <2>2, <2>3, <3>2, HeapAssumption
              DEF HeapShape, Between, NextSlot, HeapIndex
  <2>4. CASE put # take
    <3>1. heap[take] \in Frames
      BY <1>1, <2>2, <2>4, HeapAssumption DEF IInv, TypeOK, HeapType, HeapShape, HeapIndex
    <3>2. \A i \in HeapIndex : heap'[i] \in Frames <=> Between(i, take, put) \/ i = put
      BY <1>5, <2>1, <3>1 DEF HeapSet
    <3>3. heap'[take] \in Frames
      BY <1>5, <2>2, <3>1, <2>4 DEF HeapSet, HeapIndex
    <3>. QED  BY <1>2, <2>2, <2>4, <3>2, <3>3, HeapAssumption
              DEF HeapShape, Between, NextSlot, HeapIndex
  <2>. QED  BY <2>3, <2>4
<1>. QED  BY <1>1, <1>2, <1>4, <1>5, <1>6

-----------------------------------------------------------------------------
(***************************************************************************)
(* Every step keeps the inductive invariant.                               *)
(***************************************************************************)

\* Reading en->running keeps the invariant.
LEMMA CheckRunningInv == ASSUME IInv, NEW e \in Encoders, CheckRunning(e) PROVE IInv'
<1>. USE DEF IInv, TypeOK
<1>1. HeapType'
  BY DEF CheckRunning, HeapType, heapVars
<1>2. ExchangerType'
  BY DEF CheckRunning, ExchangerType, exVars, RingIndex
<1>3. StreamType'
  BY DEF CheckRunning, StreamType, strVars
<1>4. ThreadType'
  BY ExchangerAssumption DEF CheckRunning, ThreadType, EncoderPCs, LoopPCs,
     Threads, loopVars
<1>5. HeapMutexReleased'
  BY DEF CheckRunning, HeapMutexReleased, heapVars
<1>6. HeapShape'
  BY HeapShapeKept DEF CheckRunning, heapVars
<1>7. RingShape'
  BY RingShapeKept DEF CheckRunning, exVars
<1>8. PipeBytes'
  BY ExchangerAssumption DEF CheckRunning, PipeBytes, QueueLen, Redeeming,
     ThreadType, Threads, exVars, loopVars
<1>9. Positions'
  BY ExchangerAssumption, HeapAssumption DEF CheckRunning, Positions,
     ThreadType, Threads, exVars
<1>10. OneOwner' /\ NoFrameLeaks'
  BY OwnershipKept DEF CheckRunning, heapVars, exVars
<1>11. RefCountsOwners'
  BY ExchangerAssumption DEF CheckRunning, RefCountsOwners, Positions,
     ThreadType, Threads, exVars
<1>. QED  BY <1>1, <1>2, <1>3, <1>4, <1>5, <1>6, <1>7, <1>8, <1>9, <1>10, <1>11

\* A capture that yields no frame keeps the invariant.
LEMMA GiveUpInv == ASSUME IInv, NEW e \in Encoders, GiveUp(e) PROVE IInv'
<1>. USE DEF IInv, TypeOK
<1>1. HeapType'
  BY DEF GiveUp, HeapType, heapVars
<1>2. ExchangerType'
  BY DEF GiveUp, ExchangerType, exVars, RingIndex
<1>3. StreamType'
  BY DEF GiveUp, StreamType, strVars
<1>4. ThreadType'
  BY ExchangerAssumption DEF GiveUp, ThreadType, EncoderPCs, LoopPCs, Threads,
     loopVars
<1>5. HeapMutexReleased'
  BY DEF GiveUp, HeapMutexReleased, heapVars
<1>6. HeapShape'
  BY HeapShapeKept DEF GiveUp, heapVars
<1>7. RingShape'
  BY RingShapeKept DEF GiveUp, exVars
<1>8. PipeBytes'
  BY ExchangerAssumption DEF GiveUp, PipeBytes, QueueLen, Redeeming,
     ThreadType, Threads, exVars, loopVars
<1>9. Positions'
  BY ExchangerAssumption, HeapAssumption DEF GiveUp, Positions, ThreadType,
     Threads, exVars
<1>10. OneOwner' /\ NoFrameLeaks'
  BY OwnershipKept DEF GiveUp, heapVars, exVars
<1>11. RefCountsOwners'
  BY ExchangerAssumption DEF GiveUp, RefCountsOwners, Positions, ThreadType,
     Threads, exVars
<1>. QED  BY <1>1, <1>2, <1>3, <1>4, <1>5, <1>6, <1>7, <1>8, <1>9, <1>10, <1>11

\* new_frame keeps the invariant.
LEMMA NewFrameInv == ASSUME IInv, NEW e \in Encoders, NewFrame(e) PROVE IInv'
<1>. USE DEF IInv, TypeOK
<1>1. HeapType'
  BY HeapAssumption DEF NewFrame, HeapHasFrame, TakeFromHeap, HeapType,
     NextSlot, HeapIndex
<1>2. ExchangerType'
  BY DEF NewFrame, HeapHasFrame, TakeFromHeap, ExchangerType, exVars,
     RingIndex
<1>3. StreamType'
  BY DEF NewFrame, HeapHasFrame, TakeFromHeap, StreamType, strVars
<1>4. ThreadType'
  BY ExchangerAssumption DEF NewFrame, HeapHasFrame, TakeFromHeap, ThreadType,
     EncoderPCs, LoopPCs, Threads, loopVars, HeapType
<1>5. HeapMutexReleased'
  BY DEF NewFrame, HeapHasFrame, TakeFromHeap, HeapMutexReleased
<1>6. HeapShape'
  BY HeapAssumption DEF NewFrame, HeapHasFrame, TakeFromHeap, HeapType,
     HeapShape, Between, NextSlot, HeapIndex
<1>7. RingShape'
  BY RingShapeKept DEF NewFrame, HeapHasFrame, TakeFromHeap, exVars
<1>8. PipeBytes'
  BY ExchangerAssumption DEF NewFrame, HeapHasFrame, TakeFromHeap, PipeBytes,
     QueueLen, Redeeming, ThreadType, Threads, exVars, loopVars
<1>9. Positions'
  BY ExchangerAssumption, HeapAssumption DEF NewFrame, HeapHasFrame,
     TakeFromHeap, Positions, ThreadType, Threads, exVars, HeapType
<1>10. OneOwner' /\ NoFrameLeaks'
  <2>1. /\ e \in Threads /\ frm[e] = NoFrame
        /\ take \in HeapIndex /\ heap[take] \in Frames
    BY DEF NewFrame, HeapHasFrame, Positions, Threads, ThreadType, HeapType
  <2>2. HeapSet(take, NoFrame) /\ FrmSet(e, heap[take])
    BY <2>1 DEF NewFrame, TakeFromHeap, HeapSet, FrmSet, HeapType, ThreadType
  <2>. QED  BY <2>1, <2>2, MoveHeapToThread, HeapAssumption DEF NewFrame, exVars
<1>11. RefCountsOwners'
  BY ExchangerAssumption DEF NewFrame, HeapHasFrame, TakeFromHeap,
     RefCountsOwners, Positions, ThreadType, Threads, exVars, OneOwner,
     HeldDistinct, HeldNotInRing, RingNotInHeap, HeldNotInHeap, HeapType
<1>. QED  BY <1>1, <1>2, <1>3, <1>4, <1>5, <1>6, <1>7, <1>8, <1>9, <1>10, <1>11

\* Meeting a full ring keeps the invariant.
LEMMA DeliverFullInv == ASSUME IInv, NEW e \in Encoders, DeliverFull(e) PROVE IInv'
<1>. USE DEF IInv, TypeOK
<1>1. HeapType'
  BY DEF DeliverFull, HeapType, heapVars
<1>2. ExchangerType'
  BY DEF DeliverFull, ExchangerType, exVars, RingIndex
<1>3. StreamType'
  BY DEF DeliverFull, StreamType, strVars
<1>4. ThreadType'
  BY ExchangerAssumption DEF DeliverFull, ThreadType, EncoderPCs, LoopPCs,
     Threads, loopVars
<1>5. HeapMutexReleased'
  BY DEF DeliverFull, HeapMutexReleased, heapVars
<1>6. HeapShape'
  BY HeapShapeKept DEF DeliverFull, heapVars
<1>7. RingShape'
  BY RingShapeKept DEF DeliverFull, exVars
<1>8. PipeBytes'
  BY ExchangerAssumption DEF DeliverFull, PipeBytes, QueueLen, Redeeming,
     ThreadType, Threads, exVars, loopVars
<1>9. Positions'
  BY ExchangerAssumption, HeapAssumption DEF DeliverFull, Positions,
     ThreadType, Threads, exVars
<1>10. OneOwner' /\ NoFrameLeaks'
  BY OwnershipKept DEF DeliverFull, heapVars, exVars
<1>11. RefCountsOwners'
  BY ExchangerAssumption DEF DeliverFull, RefCountsOwners, Positions,
     ThreadType, Threads, exVars
<1>. QED  BY <1>1, <1>2, <1>3, <1>4, <1>5, <1>6, <1>7, <1>8, <1>9, <1>10, <1>11

\* Storing a frame in the ring keeps the invariant.
LEMMA DeliverStoreInv == ASSUME IInv, NEW e \in Encoders, DeliverStore(e) PROVE IInv'
<1>. USE DEF IInv, TypeOK
<1>1. /\ e \in Threads /\ frm[e] \in Frames /\ ~exHeld[e]
      /\ Slots[e] \in Nat \ {0}
      /\ slaveCur[e] \in 0 .. Slots[e] - 1 /\ masterRead[e] \in 0 .. Slots[e] - 1
  BY ExchangerAssumption DEF DeliverStore, Positions, Threads, ExchangerType, RingIndex
<1>2. ring[e][slaveCur[e]] = NoFrame
  BY <1>1 DEF RingShape, Between, ExchangerType, RingIndex
<1>3. RingSet(e, slaveCur[e], frm[e])
  BY <1>1 DEF DeliverStore, RingSet, ExchangerType
<1>4. FrmSet(e, NoFrame)
  BY <1>1 DEF DeliverStore, FrmSet, ThreadType
<1>5. HeapType' /\ HeapMutexReleased' /\ HeapShape'
  BY HeapShapeKept DEF DeliverStore, HeapType, HeapMutexReleased, heapVars
<1>6. ExchangerType'
  <2>1. ring'[e] = [ring[e] EXCEPT ![slaveCur[e]] = frm[e]]
    BY DEF DeliverStore, ExchangerType
  <2>2. \A x \in Encoders : x # e => ring'[x] = ring[x]
    BY DEF DeliverStore, ExchangerType
  <2>3. \A x \in Encoders : ring'[x] \in [RingIndex(x) -> Frames \cup {NoFrame}]
    BY <1>1, <2>1, <2>2 DEF ExchangerType
  <2>. QED  BY <2>3 DEF DeliverStore, ExchangerType, RingIndex
<1>7. StreamType' /\ ThreadType'
  BY ExchangerAssumption
  DEF DeliverStore, StreamType, ThreadType, EncoderPCs, LoopPCs, Threads, strVars, loopVars
<1>8. RingShape'
  <2>. SUFFICES ASSUME NEW x \in Encoders
                PROVE  /\ \A i \in RingIndex(x) : ring'[x][i] \in Frames <=>
                             \/ Between(i, masterRead[x], slaveCur[x])
                             \/ exHeld'[x] /\ i = slaveCur[x]
                       /\ exHeld'[x] => ~RingFull(x)
    BY DEF RingShape, DeliverStore, RingFull, RingIndex
  <2>1. CASE x = e
    BY <1>1, <1>3, <2>1 DEF RingShape, RingSet, DeliverStore, ExchangerType
  <2>2. CASE x # e
    BY <1>3, <2>2 DEF RingShape, RingSet, DeliverStore, ExchangerType
  <2>. QED  BY <2>1, <2>2
<1>9. PipeBytes'
  <2>. SUFFICES ASSUME NEW x \in Encoders
                PROVE  (pipe[x] + Redeeming(x) = QueueLen(x))'
    BY DEF PipeBytes
  <2>0. Redeeming(x)' = Redeeming(x)
    BY ExchangerAssumption DEF DeliverStore, Redeeming, ThreadType, Threads, loopVars
  <2>1. CASE x = e
    <3>1. pipe'[x] = pipe[x] + 1 /\ exHeld'[x] = TRUE
      BY <2>1 DEF DeliverStore, ExchangerType
    <3>2. QueueLen(x)' = QueueLen(x) + 1
      BY <1>1, <2>1, <3>1 DEF DeliverStore, QueueLen
    <3>3. Redeeming(x) \in Nat /\ pipe[x] \in Nat
      BY DEF Redeeming, ExchangerType
    <3>. QED  BY <2>0, <3>1, <3>2, <3>3 DEF PipeBytes
  <2>2. CASE x # e
    <3>1. pipe'[x] = pipe[x] /\ exHeld'[x] = exHeld[x]
      BY <2>2 DEF DeliverStore, ExchangerType
    <3>2. QueueLen(x)' = QueueLen(x)
      BY <3>1 DEF DeliverStore, QueueLen
    <3>. QED  BY <2>0, <3>1, <3>2 DEF PipeBytes
  <2>. QED  BY <2>1, <2>2
<1>10. Positions'
  BY ExchangerAssumption, HeapAssumption
  DEF DeliverStore, Positions, ThreadType, Threads, ExchangerType
<1>11. OneOwner' /\ NoFrameLeaks'
  BY <1>1, <1>2, <1>3, <1>4, MoveThreadToRing, HeapAssumption DEF DeliverStore, heapVars, RingIndex
<1>12. RefCountsOwners'
  <2>1. \A u \in Threads \ {e} : pc'[u] = pc[u]
    BY DEF DeliverStore, ThreadType
  <2>2. UNCHANGED ref /\ ref[frm[e]] = 1
    BY <1>1 DEF DeliverStore, RefCountsOwners
  <2>. QED  BY <1>3, <1>4, <2>1, <2>2, HeapAssumption
            DEF RefCountsOwners, FrmSet, RingSet, RingIndex, Threads
<1>. QED  BY <1>5, <1>6, <1>7, <1>8, <1>9, <1>10, <1>11, <1>12

\* Advancing slave_cur keeps the invariant.
LEMMA DeliverAdvanceInv == ASSUME IInv, NEW e \in Encoders, DeliverAdvance(e) PROVE IInv'
<1>. USE DEF IInv, TypeOK
<1>1. /\ exHeld[e] /\ Slots[e] \in Nat \ {0}
      /\ slaveCur[e] \in 0 .. Slots[e] - 1 /\ masterRead[e] \in 0 .. Slots[e] - 1
      /\ slaveCur'[e] = NextSlot(slaveCur[e], Slots[e]) /\ exHeld'[e] = FALSE
      /\ NextSlot(slaveCur[e], Slots[e]) # masterRead[e]
      /\ NextSlot(slaveCur[e], Slots[e]) \in 0 .. Slots[e] - 1
  BY ExchangerAssumption, NextSlotInRange
  DEF DeliverAdvance, Positions, ExchangerType, RingIndex, RingShape, RingFull
<1>2. \A x \in Encoders : x # e => slaveCur'[x] = slaveCur[x] /\ exHeld'[x] = exHeld[x]
  BY DEF DeliverAdvance, ExchangerType
<1>3. HeapType' /\ HeapMutexReleased' /\ HeapShape'
  BY HeapShapeKept DEF DeliverAdvance, HeapType, HeapMutexReleased, heapVars
<1>4. ExchangerType'
  <2>1. \A x \in Encoders : slaveCur'[x] \in RingIndex(x)
    BY <1>1, <1>2 DEF ExchangerType, RingIndex
  <2>2. slaveCur' \in [Encoders -> Nat]
    BY <1>1 DEF DeliverAdvance, ExchangerType
  <2>. QED  BY <2>1, <2>2 DEF DeliverAdvance, ExchangerType, RingIndex
<1>5. StreamType' /\ ThreadType'
  BY ExchangerAssumption
  DEF DeliverAdvance, StreamType, ThreadType, EncoderPCs, LoopPCs, Threads, strVars, loopVars
<1>6. RingShape'
  <2>. SUFFICES ASSUME NEW x \in Encoders
                PROVE  /\ \A i \in RingIndex(x) : ring[x][i] \in Frames <=>
                             \/ Between(i, masterRead[x], slaveCur'[x])
                             \/ exHeld'[x] /\ i = slaveCur'[x]
                       /\ exHeld'[x] => ~RingFull(x)'
    BY DEF RingShape, DeliverAdvance, RingFull, RingIndex
  <2>1. CASE x = e
    <3>1. \A i \in RingIndex(e) :
            Between(i, masterRead[e], slaveCur'[e]) <=>
            Between(i, masterRead[e], slaveCur[e]) \/ i = slaveCur[e]
      BY <1>1 DEF Between, NextSlot, RingIndex
    <3>. QED  BY <1>1, <2>1, <3>1 DEF RingShape
  <2>2. CASE x # e
    BY <1>2, <2>2 DEF RingShape, DeliverAdvance, RingFull
  <2>. QED  BY <2>1, <2>2
<1>7. PipeBytes'
  <2>. SUFFICES ASSUME NEW x \in Encoders
                PROVE  (pipe[x] + Redeeming(x) = QueueLen(x))'
    BY DEF PipeBytes
  <2>0. Redeeming(x)' = Redeeming(x) /\ pipe'[x] = pipe[x]
    BY ExchangerAssumption DEF DeliverAdvance, Redeeming, ThreadType, Threads, loopVars
  <2>1. CASE x = e
    <3>1. QueueLen(x)' = QueueLen(x)
      BY <1>1, <2>1 DEF DeliverAdvance, QueueLen, NextSlot
    <3>. QED  BY <2>0, <3>1 DEF PipeBytes
  <2>2. CASE x # e
    <3>1. QueueLen(x)' = QueueLen(x)
      BY <1>2, <2>2 DEF DeliverAdvance, QueueLen
    <3>. QED  BY <2>0, <3>1 DEF PipeBytes
  <2>. QED  BY <2>1, <2>2
<1>8. Positions'
  BY ExchangerAssumption, HeapAssumption
  DEF DeliverAdvance, Positions, ThreadType, Threads, ExchangerType
<1>9. OneOwner' /\ NoFrameLeaks'
  BY OwnershipKept DEF DeliverAdvance, heapVars
<1>10. RefCountsOwners'
  BY ExchangerAssumption DEF DeliverAdvance, RefCountsOwners, Positions, ThreadType, Threads, RingIndex
<1>. QED  BY <1>3, <1>4, <1>5, <1>6, <1>7, <1>8, <1>9, <1>10

\* The encoder's unref_frame of a dropped frame keeps the invariant.
LEMMA EncoderUnrefInv == ASSUME IInv, NEW e \in Encoders, EncoderUnref(e) PROVE IInv'
<1>. USE DEF IInv, TypeOK
<1>1. HeapType'
  BY DEF EncoderUnref, UnrefFrame, HeapType, heapVars, Positions, Threads
<1>2. ExchangerType'
  BY DEF EncoderUnref, UnrefFrame, ExchangerType, exVars, RingIndex
<1>3. StreamType'
  BY DEF EncoderUnref, UnrefFrame, StreamType, strVars
<1>4. ThreadType'
  BY ExchangerAssumption DEF EncoderUnref, UnrefFrame, ThreadType, EncoderPCs,
     LoopPCs, Threads, loopVars
<1>5. HeapMutexReleased'
  BY DEF EncoderUnref, UnrefFrame, HeapMutexReleased, heapVars
<1>6. HeapShape'
  BY HeapShapeKept DEF EncoderUnref, UnrefFrame, heapVars
<1>7. RingShape'
  BY RingShapeKept DEF EncoderUnref, UnrefFrame, exVars
<1>8. PipeBytes'
  BY ExchangerAssumption DEF EncoderUnref, UnrefFrame, PipeBytes, QueueLen,
     Redeeming, ThreadType, Threads, exVars, loopVars
<1>9. Positions'
  BY ExchangerAssumption, HeapAssumption DEF EncoderUnref, UnrefFrame,
     Positions, ThreadType, Threads, exVars, RefCountsOwners
<1>10. OneOwner' /\ NoFrameLeaks'
  BY OwnershipKept DEF EncoderUnref, UnrefFrame, heapVars, exVars, Positions,
     RefCountsOwners, ThreadType, Threads
<1>11. RefCountsOwners'
  BY ExchangerAssumption DEF EncoderUnref, UnrefFrame, RefCountsOwners,
     Positions, ThreadType, Threads, exVars, OneOwner, HeldDistinct,
     HeldNotInRing, RingNotInHeap, HeldNotInHeap, HeapType
<1>. QED  BY <1>1, <1>2, <1>3, <1>4, <1>5, <1>6, <1>7, <1>8, <1>9, <1>10, <1>11

\* The return of a dropped frame to the heap keeps the invariant.
LEMMA EncoderPutInv == ASSUME IInv, NEW e \in Encoders, EncoderPut(e) PROVE IInv'
<1>. USE DEF IInv, TypeOK
<1>1. e \in Threads /\ frm[e] \in Frames
  BY DEF EncoderPut, Positions, Threads
<1>2. FrmSet(e, NoFrame)
  BY <1>1 DEF EncoderPut, FrmSet, ThreadType, Positions
<1>3. /\ HeapType' /\ HeapMutexReleased' /\ HeapShape'
      /\ heap[put] = NoFrame /\ HeapSet(put, frm[e]) /\ UNCHANGED ref
  BY <1>1, PutKeepsHeap DEF EncoderPut
<1>4. ExchangerType' /\ StreamType'
  BY DEF EncoderPut, ExchangerType, StreamType, exVars, strVars, RingIndex
<1>5. ThreadType'
  BY ExchangerAssumption DEF EncoderPut, ThreadType, EncoderPCs, LoopPCs, Threads, loopVars
<1>6. RingShape'
  BY RingShapeKept DEF EncoderPut, exVars
<1>7. PipeBytes'
  BY ExchangerAssumption DEF EncoderPut, PipeBytes, QueueLen, Redeeming, ThreadType,
     Threads, exVars, loopVars
<1>8. Positions'
  BY ExchangerAssumption, HeapAssumption
  DEF EncoderPut, Positions, ThreadType, Threads, exVars
<1>9. OneOwner' /\ NoFrameLeaks'
  BY <1>1, <1>2, <1>3, MoveThreadToHeap, HeapAssumption DEF EncoderPut, HeapType, exVars
<1>10. RefCountsOwners'
  <2>1. \A u \in Threads \ {e} : pc'[u] = pc[u]
    BY DEF EncoderPut, ThreadType
  <2>2. UNCHANGED ring
    BY DEF EncoderPut, exVars
  <2>. QED  BY <1>2, <1>3, <2>1, <2>2, HeapAssumption DEF RefCountsOwners, FrmSet, RingIndex, Threads
<1>. QED  BY <1>3, <1>4, <1>5, <1>6, <1>7, <1>8, <1>9, <1>10

\* select() keeps the invariant.
LEMMA SelectInv == ASSUME IInv, Select PROVE IInv'
<1>. USE DEF IInv, TypeOK
<1>1. HeapType'
  BY DEF Select, HeapType, heapVars
<1>2. ExchangerType'
  BY DEF Select, ExchangerType, exVars, RingIndex
<1>3. StreamType'
  BY DEF Select, StreamType, strVars
<1>4. ThreadType'
  BY ExchangerAssumption DEF Select, ThreadType, EncoderPCs, LoopPCs, Threads
<1>5. HeapMutexReleased'
  BY DEF Select, HeapMutexReleased, heapVars
<1>6. HeapShape'
  BY HeapShapeKept DEF Select, heapVars
<1>7. RingShape'
  BY RingShapeKept DEF Select, exVars
<1>8. PipeBytes'
  BY ExchangerAssumption DEF Select, PipeBytes, QueueLen, Redeeming,
     ThreadType, Threads, exVars
<1>9. Positions'
  BY ExchangerAssumption, HeapAssumption DEF Select, Positions, ThreadType,
     Threads, exVars
<1>10. OneOwner' /\ NoFrameLeaks'
  BY OwnershipKept DEF Select, heapVars, exVars
<1>11. RefCountsOwners'
  BY ExchangerAssumption DEF Select, RefCountsOwners, Positions, ThreadType,
     Threads, exVars
<1>. QED  BY <1>1, <1>2, <1>3, <1>4, <1>5, <1>6, <1>7, <1>8, <1>9, <1>10, <1>11

\* A client request keeps the invariant.
LEMMA HandleRequestInv == ASSUME IInv, HandleRequest PROVE IInv'
<1>. USE DEF IInv, TypeOK
<1>1. HeapType'
  BY DEF HandleRequest, SetWaiting, HeapType, heapVars
<1>2. ExchangerType'
  BY DEF HandleRequest, SetWaiting, ExchangerType, exVars, RingIndex
<1>3. StreamType'
  BY StreamAssumption DEF HandleRequest, SetWaiting, StreamType
<1>4. ThreadType'
  BY ExchangerAssumption DEF HandleRequest, SetWaiting, ThreadType,
     EncoderPCs, LoopPCs, Threads, loopVars
<1>5. HeapMutexReleased'
  BY DEF HandleRequest, SetWaiting, HeapMutexReleased, heapVars
<1>6. HeapShape'
  BY HeapShapeKept DEF HandleRequest, SetWaiting, heapVars
<1>7. RingShape'
  BY RingShapeKept DEF HandleRequest, SetWaiting, exVars
<1>8. PipeBytes'
  BY ExchangerAssumption DEF HandleRequest, SetWaiting, PipeBytes, QueueLen,
     Redeeming, ThreadType, Threads, exVars, loopVars
<1>9. Positions'
  BY ExchangerAssumption, HeapAssumption DEF HandleRequest, SetWaiting,
     Positions, ThreadType, Threads, exVars
<1>10. OneOwner' /\ NoFrameLeaks'
  BY OwnershipKept DEF HandleRequest, SetWaiting, heapVars, exVars
<1>11. RefCountsOwners'
  BY ExchangerAssumption DEF HandleRequest, SetWaiting, RefCountsOwners,
     Positions, ThreadType, Threads, exVars
<1>. QED  BY <1>1, <1>2, <1>3, <1>4, <1>5, <1>6, <1>7, <1>8, <1>9, <1>10, <1>11

\* Reading a byte of the pipe keeps the invariant.
LEMMA ReadByteInv == ASSUME IInv, NEW e \in Encoders, ReadByte(e) PROVE IInv'
<1>. USE DEF IInv, TypeOK
<1>1. HeapType'
  BY DEF ReadByte, HeapType, heapVars
<1>2. ExchangerType'
  BY ExchangerAssumption DEF ReadByte, ExchangerType, RingIndex, NextSlot,
     ThreadType
<1>3. StreamType'
  BY DEF ReadByte, StreamType, strVars
<1>4. ThreadType'
  BY ExchangerAssumption DEF ReadByte, ThreadType, EncoderPCs, LoopPCs,
     Threads
<1>5. HeapMutexReleased'
  BY DEF ReadByte, HeapMutexReleased, heapVars
<1>6. HeapShape'
  BY HeapShapeKept DEF ReadByte, heapVars
<1>7. RingShape'
  BY RingShapeKept DEF ReadByte
<1>8. PipeBytes'
  BY ExchangerAssumption DEF ReadByte, PipeBytes, QueueLen, Redeeming,
     ThreadType, Threads, ExchangerType
<1>9. Positions'
  BY ExchangerAssumption, HeapAssumption DEF ReadByte, Positions, ThreadType,
     Threads, ExchangerType
<1>10. OneOwner' /\ NoFrameLeaks'
  BY OwnershipKept DEF ReadByte, heapVars, exVars
<1>11. RefCountsOwners'
  BY ExchangerAssumption DEF ReadByte, RefCountsOwners, Positions, ThreadType,
     Threads, exVars
<1>. QED  BY <1>1, <1>2, <1>3, <1>4, <1>5, <1>6, <1>7, <1>8, <1>9, <1>10, <1>11

\* exchanger_read's critical section keeps the invariant.
LEMMA TakeFrameInv == ASSUME IInv, TakeFrame PROVE IInv'
<1>. USE DEF IInv, TypeOK
<1>. DEFINE mr == masterRead[cur]
            f  == ring[cur][mr]
<1>1. /\ cur \in Encoders /\ Loop \in Threads /\ pc[Loop] = "take" /\ ~exHeld[cur]
      /\ Slots[cur] \in Nat \ {0} /\ frm[Loop] = NoFrame
      /\ slaveCur[cur] \in 0 .. Slots[cur] - 1 /\ mr \in 0 .. Slots[cur] - 1
  BY ExchangerAssumption
  DEF TakeFrame, ThreadType, Threads, Positions, ExchangerType, RingIndex
<1>2. f \in Frames
  BY <1>1, FrameAtMasterRead
<1>3. /\ frm' = [frm EXCEPT ![Loop] = f]
      /\ ring' = [ring EXCEPT ![cur][mr] = NoFrame]
      /\ masterRead' = [masterRead EXCEPT ![cur] = NextSlot(mr, Slots[cur])]
      /\ pc' = [pc EXCEPT ![Loop] = "walk"]
      /\ todo' = DestsOf(cur)
      /\ UNCHANGED <<heapVars, ref, slaveCur, exHeld, pipe, strVars, ready, cur>>
  BY <1>2, HeapAssumption DEF TakeFrame, LostFrame, MasterNext
<1>4. RingSet(cur, mr, NoFrame)
  BY <1>1, <1>3 DEF RingSet, ExchangerType
<1>5. FrmSet(Loop, f)
  BY <1>1, <1>3 DEF FrmSet, ThreadType
<1>6. HeapType' /\ HeapMutexReleased' /\ HeapShape'
  BY <1>3, HeapShapeKept DEF HeapType, HeapMutexReleased, heapVars
<1>7. /\ masterRead'[cur] = NextSlot(mr, Slots[cur])
      /\ NextSlot(mr, Slots[cur]) \in 0 .. Slots[cur] - 1
      /\ \A x \in Encoders : x # cur => masterRead'[x] = masterRead[x]
  BY <1>1, <1>3, NextSlotInRange DEF ExchangerType
<1>8. ExchangerType'
  <2>1. ring'[cur] = [ring[cur] EXCEPT ![mr] = NoFrame]
    BY <1>1, <1>3 DEF ExchangerType
  <2>2. \A x \in Encoders : x # cur => ring'[x] = ring[x]
    BY <1>1, <1>3 DEF ExchangerType
  <2>3. \A x \in Encoders : ring'[x] \in [RingIndex(x) -> Frames \cup {NoFrame}]
    BY <1>1, <2>1, <2>2 DEF ExchangerType
  <2>4. \A x \in Encoders : masterRead'[x] \in RingIndex(x)
    BY <1>7 DEF ExchangerType, RingIndex
  <2>5. masterRead' \in [Encoders -> Nat]
    <3>1. NextSlot(mr, Slots[cur]) \in Nat
      BY <1>7
    <3>. QED  BY <1>3, <3>1 DEF ExchangerType
  <2>6. DOMAIN ring' = Encoders
    BY <1>3 DEF ExchangerType
  <2>. QED  BY <1>3, <2>3, <2>4, <2>5, <2>6 DEF ExchangerType, RingIndex
<1>9. StreamType' /\ ThreadType'
  BY <1>1, <1>2, <1>3, ExchangerAssumption
  DEF StreamType, ThreadType, LoopPCs, Threads, strVars, DestsOf
<1>10. RingShape'
  <2>. SUFFICES ASSUME NEW x \in Encoders
                PROVE  /\ \A i \in RingIndex(x) : ring'[x][i] \in Frames <=>
                             \/ Between(i, masterRead'[x], slaveCur[x])
                             \/ exHeld[x] /\ i = slaveCur[x]
                       /\ exHeld[x] => ~RingFull(x)'
    BY <1>3 DEF RingShape, RingFull, RingIndex
  <2>1. CASE x = cur
    <3>1. Between(mr, mr, slaveCur[cur])
      BY <1>1, <1>2 DEF RingShape, RingIndex
    <3>2. \A i \in RingIndex(cur) :
            Between(i, masterRead'[cur], slaveCur[cur]) <=>
            Between(i, mr, slaveCur[cur]) /\ i # mr
      BY <1>1, <1>7, <3>1 DEF Between, NextSlot, RingIndex
    <3>3. \A i \in RingIndex(cur) : ring'[cur][i] \in Frames <=> ring[cur][i] \in Frames /\ i # mr
      BY <1>1, <1>4, HeapAssumption DEF RingSet
    <3>. QED  BY <1>1, <2>1, <3>2, <3>3 DEF RingShape
  <2>2. CASE x # cur
    BY <1>3, <1>4, <1>7, <2>2 DEF RingShape, RingSet, RingFull
  <2>. QED  BY <2>1, <2>2
<1>11. PipeBytes'
  <2>. SUFFICES ASSUME NEW x \in Encoders
                PROVE  (pipe[x] + Redeeming(x) = QueueLen(x))'
    BY DEF PipeBytes
  <2>0. Redeeming(x)' = 0 /\ pipe'[x] = pipe[x] /\ pipe[x] \in Nat
    BY <1>1, <1>3 DEF Redeeming, ThreadType, ExchangerType
  <2>1. CASE x = cur
    <3>1. Redeeming(x) = 1
      BY <1>1, <2>1 DEF Redeeming
    <3>2. mr # slaveCur[cur]
      BY <1>1, <1>2 DEF RingShape, RingIndex, Between
    <3>3. QueueLen(x)' = QueueLen(x) - 1
      BY <1>1, <1>3, <1>7, <2>1, <3>2 DEF QueueLen, NextSlot
    <3>4. pipe[x] + 1 = QueueLen(x)
      BY <3>1 DEF PipeBytes
    <3>. QED  BY <2>0, <3>3, <3>4
  <2>2. CASE x # cur
    <3>1. QueueLen(x)' = QueueLen(x)
      BY <1>3, <1>7, <2>2 DEF QueueLen
    <3>2. Redeeming(x) = 0
      BY <2>2 DEF Redeeming
    <3>. QED  BY <2>0, <3>1, <3>2 DEF PipeBytes
  <2>. QED  BY <2>1, <2>2
<1>12. Positions'
  BY <1>1, <1>2, <1>3, ExchangerAssumption DEF Positions, ThreadType, Threads
<1>13. OneOwner' /\ NoFrameLeaks'
  BY <1>1, <1>2, <1>3, <1>4, <1>5, MoveRingToThread, HeapAssumption DEF heapVars, RingIndex
<1>14. RefCountsOwners'
  <2>1. pc'[Loop] = "walk" /\ \A u \in Threads \ {Loop} : pc'[u] = pc[u]
    BY <1>3 DEF ThreadType, Threads
  <2>2. UNCHANGED ref /\ ref[f] = 1
    BY <1>1, <1>2, <1>3 DEF RefCountsOwners, RingIndex
  <2>. QED  BY <1>1, <1>2, <1>4, <1>5, <2>1, <2>2, HeapAssumption
            DEF RefCountsOwners, FrmSet, RingSet, RingIndex, Threads
<1>. QED  BY <1>6, <1>8, <1>9, <1>10, <1>11, <1>12, <1>13, <1>14

\* Passing a destination that does not wait keeps the invariant.
LEMMA SkipDestInv == ASSUME IInv, NEW d \in Dests, SkipDest(d) PROVE IInv'
<1>. USE DEF IInv, TypeOK
<1>1. HeapType'
  BY DEF SkipDest, HeapType, heapVars
<1>2. ExchangerType'
  BY DEF SkipDest, ExchangerType, exVars, RingIndex
<1>3. StreamType'
  BY DEF SkipDest, StreamType, strVars
<1>4. ThreadType'
  BY ExchangerAssumption DEF SkipDest, ThreadType, EncoderPCs, LoopPCs,
     Threads
<1>5. HeapMutexReleased'
  BY DEF SkipDest, HeapMutexReleased, heapVars
<1>6. HeapShape'
  BY HeapShapeKept DEF SkipDest, heapVars
<1>7. RingShape'
  BY RingShapeKept DEF SkipDest, exVars
<1>8. PipeBytes'
  BY ExchangerAssumption DEF SkipDest, PipeBytes, QueueLen, Redeeming,
     ThreadType, Threads, exVars
<1>9. Positions'
  BY ExchangerAssumption, HeapAssumption DEF SkipDest, Positions, ThreadType,
     Threads, exVars
<1>10. OneOwner' /\ NoFrameLeaks'
  BY OwnershipKept DEF SkipDest, heapVars, exVars
<1>11. RefCountsOwners'
  BY ExchangerAssumption DEF SkipDest, RefCountsOwners, Positions, ThreadType,
     Threads, exVars
<1>. QED  BY <1>1, <1>2, <1>3, <1>4, <1>5, <1>6, <1>7, <1>8, <1>9, <1>10, <1>11

\* ref_frame for a destination keeps the invariant.
LEMMA RefForDestInv == ASSUME IInv, NEW d \in Dests, RefForDest(d) PROVE IInv'
<1>. USE DEF IInv, TypeOK
<1>1. HeapType'
  BY DEF RefForDest, RefFrame, HeapType, heapVars, Positions, Threads
<1>2. ExchangerType'
  BY DEF RefForDest, RefFrame, ExchangerType, exVars, RingIndex
<1>3. StreamType'
  BY DEF RefForDest, RefFrame, StreamType, strVars
<1>4. ThreadType'
  BY ExchangerAssumption DEF RefForDest, RefFrame, ThreadType, EncoderPCs,
     LoopPCs, Threads
<1>5. HeapMutexReleased'
  BY DEF RefForDest, RefFrame, HeapMutexReleased, heapVars
<1>6. HeapShape'
  BY HeapShapeKept DEF RefForDest, RefFrame, heapVars
<1>7. RingShape'
  BY RingShapeKept DEF RefForDest, RefFrame, exVars
<1>8. PipeBytes'
  BY ExchangerAssumption DEF RefForDest, RefFrame, PipeBytes, QueueLen,
     Redeeming, ThreadType, Threads, exVars
<1>9. Positions'
  BY ExchangerAssumption, HeapAssumption DEF RefForDest, RefFrame, Positions,
     ThreadType, Threads, exVars, RefCountsOwners
<1>10. OneOwner' /\ NoFrameLeaks'
  BY OwnershipKept DEF RefForDest, RefFrame, heapVars, exVars, Positions,
     RefCountsOwners, ThreadType, Threads
<1>11. RefCountsOwners'
  BY ExchangerAssumption DEF RefForDest, RefFrame, RefCountsOwners, Positions,
     ThreadType, Threads, exVars, OneOwner, HeldDistinct, HeldNotInRing,
     RingNotInHeap, HeldNotInHeap, HeapType
<1>. QED  BY <1>1, <1>2, <1>3, <1>4, <1>5, <1>6, <1>7, <1>8, <1>9, <1>10, <1>11

\* process_frame keeps the invariant.
LEMMA ProcessFrameInv == ASSUME IInv, ProcessFrame PROVE IInv'
<1>. USE DEF IInv, TypeOK
<1>1. HeapType'
  BY DEF ProcessFrame, HeapType, heapVars
<1>2. ExchangerType'
  BY DEF ProcessFrame, ExchangerType, exVars, RingIndex
<1>3. StreamType'
  BY DEF ProcessFrame, StreamType
<1>4. ThreadType'
  BY ExchangerAssumption DEF ProcessFrame, ThreadType, EncoderPCs, LoopPCs,
     Threads, loopVars
<1>5. HeapMutexReleased'
  BY DEF ProcessFrame, HeapMutexReleased, heapVars
<1>6. HeapShape'
  BY HeapShapeKept DEF ProcessFrame, heapVars
<1>7. RingShape'
  BY RingShapeKept DEF ProcessFrame, exVars
<1>8. PipeBytes'
  BY ExchangerAssumption DEF ProcessFrame, PipeBytes, QueueLen, Redeeming,
     ThreadType, Threads, exVars, loopVars
<1>9. Positions'
  BY ExchangerAssumption, HeapAssumption DEF ProcessFrame, Positions,
     ThreadType, Threads, exVars
<1>10. OneOwner' /\ NoFrameLeaks'
  BY OwnershipKept DEF ProcessFrame, heapVars, exVars
<1>11. RefCountsOwners'
  BY ExchangerAssumption DEF ProcessFrame, RefCountsOwners, Positions,
     ThreadType, Threads, exVars
<1>. QED  BY <1>1, <1>2, <1>3, <1>4, <1>5, <1>6, <1>7, <1>8, <1>9, <1>10, <1>11

\* process_frame's unref_frame, never the last one, keeps the invariant.
LEMMA UnrefForDestInv == ASSUME IInv, UnrefForDest PROVE IInv'
<1>. USE DEF IInv, TypeOK
<1>1. HeapType'
  BY DEF UnrefForDest, UnrefFrame, HeapType, heapVars, Positions, Threads
<1>2. ExchangerType'
  BY DEF UnrefForDest, UnrefFrame, ExchangerType, exVars, RingIndex
<1>3. StreamType'
  BY DEF UnrefForDest, UnrefFrame, StreamType, strVars
<1>4. ThreadType'
  BY ExchangerAssumption DEF UnrefForDest, UnrefFrame, ThreadType, EncoderPCs,
     LoopPCs, Threads, loopVars
<1>5. HeapMutexReleased'
  BY DEF UnrefForDest, UnrefFrame, HeapMutexReleased, heapVars
<1>6. HeapShape'
  BY HeapShapeKept DEF UnrefForDest, UnrefFrame, heapVars
<1>7. RingShape'
  BY RingShapeKept DEF UnrefForDest, UnrefFrame, exVars
<1>8. PipeBytes'
  BY ExchangerAssumption DEF UnrefForDest, UnrefFrame, PipeBytes, QueueLen,
     Redeeming, ThreadType, Threads, exVars, loopVars
<1>9. Positions'
  BY ExchangerAssumption, HeapAssumption DEF UnrefForDest, UnrefFrame,
     Positions, ThreadType, Threads, exVars, RefCountsOwners
<1>10. OneOwner' /\ NoFrameLeaks'
  BY OwnershipKept DEF UnrefForDest, UnrefFrame, heapVars, exVars, Positions,
     RefCountsOwners, ThreadType, Threads
<1>11. RefCountsOwners'
  BY ExchangerAssumption DEF UnrefForDest, UnrefFrame, RefCountsOwners,
     Positions, ThreadType, Threads, exVars, OneOwner, HeldDistinct,
     HeldNotInRing, RingNotInHeap, HeldNotInHeap, HeapType
<1>. QED  BY <1>1, <1>2, <1>3, <1>4, <1>5, <1>6, <1>7, <1>8, <1>9, <1>10, <1>11

\* The last unref_frame of the walk keeps the invariant.
LEMMA UnrefDeliveredInv == ASSUME IInv, UnrefDelivered PROVE IInv'
<1>. USE DEF IInv, TypeOK
<1>1. HeapType'
  BY DEF UnrefDelivered, UnrefFrame, HeapType, heapVars, Positions, Threads
<1>2. ExchangerType'
  BY DEF UnrefDelivered, UnrefFrame, ExchangerType, exVars, RingIndex
<1>3. StreamType'
  BY DEF UnrefDelivered, UnrefFrame, StreamType, strVars
<1>4. ThreadType'
  BY ExchangerAssumption DEF UnrefDelivered, UnrefFrame, ThreadType,
     EncoderPCs, LoopPCs, Threads, loopVars
<1>5. HeapMutexReleased'
  BY DEF UnrefDelivered, UnrefFrame, HeapMutexReleased, heapVars
<1>6. HeapShape'
  BY HeapShapeKept DEF UnrefDelivered, UnrefFrame, heapVars
<1>7. RingShape'
  BY RingShapeKept DEF UnrefDelivered, UnrefFrame, exVars
<1>8. PipeBytes'
  BY ExchangerAssumption DEF UnrefDelivered, UnrefFrame, PipeBytes, QueueLen,
     Redeeming, ThreadType, Threads, exVars, loopVars
<1>9. Positions'
  BY ExchangerAssumption, HeapAssumption DEF UnrefDelivered, UnrefFrame,
     Positions, ThreadType, Threads, exVars, RefCountsOwners
<1>10. OneOwner' /\ NoFrameLeaks'
  BY OwnershipKept DEF UnrefDelivered, UnrefFrame, heapVars, exVars,
     Positions, RefCountsOwners, ThreadType, Threads
<1>11. RefCountsOwners'
  BY ExchangerAssumption DEF UnrefDelivered, UnrefFrame, RefCountsOwners,
     Positions, ThreadType, Threads, exVars, OneOwner, HeldDistinct,
     HeldNotInRing, RingNotInHeap, HeldNotInHeap, HeapType
<1>. QED  BY <1>1, <1>2, <1>3, <1>4, <1>5, <1>6, <1>7, <1>8, <1>9, <1>10, <1>11

\* The return of a distributed frame to the heap keeps the invariant.
LEMMA LoopPutInv == ASSUME IInv, LoopPut PROVE IInv'
<1>. USE DEF IInv, TypeOK
<1>1. Loop \in Threads /\ frm[Loop] \in Frames
  BY DEF LoopPut, Positions, Threads
<1>2. FrmSet(Loop, NoFrame)
  BY <1>1 DEF LoopPut, FrmSet, ThreadType, Positions
<1>3. /\ HeapType' /\ HeapMutexReleased' /\ HeapShape'
      /\ heap[put] = NoFrame /\ HeapSet(put, frm[Loop]) /\ UNCHANGED ref
  BY <1>1, PutKeepsHeap DEF LoopPut
<1>4. ExchangerType' /\ StreamType'
  BY DEF LoopPut, ExchangerType, StreamType, exVars, strVars, RingIndex
<1>5. ThreadType'
  BY ExchangerAssumption DEF LoopPut, ThreadType, EncoderPCs, LoopPCs, Threads, loopVars
<1>6. RingShape'
  BY RingShapeKept DEF LoopPut, exVars
<1>7. PipeBytes'
  BY ExchangerAssumption DEF LoopPut, PipeBytes, QueueLen, Redeeming, ThreadType,
     Threads, exVars, loopVars
<1>8. Positions'
  BY ExchangerAssumption, HeapAssumption
  DEF LoopPut, Positions, ThreadType, Threads, exVars
<1>9. OneOwner' /\ NoFrameLeaks'
  BY <1>1, <1>2, <1>3, MoveThreadToHeap, HeapAssumption DEF LoopPut, HeapType, exVars
<1>10. RefCountsOwners'
  <2>1. \A u \in Threads \ {Loop} : pc'[u] = pc[u]
    BY DEF LoopPut, ThreadType
  <2>2. UNCHANGED ring
    BY DEF LoopPut, exVars
  <2>. QED  BY <1>2, <1>3, <2>1, <2>2, HeapAssumption DEF RefCountsOwners, FrmSet, RingIndex, Threads
<1>. QED  BY <1>3, <1>4, <1>5, <1>6, <1>7, <1>8, <1>9, <1>10

-----------------------------------------------------------------------------
\* init_frame_heap and new_exchanger establish the invariant.
LEMMA InitInv == ASSUME Init PROVE IInv
<1>. USE DEF Init
<1>1. HeapType /\ HeapMutexReleased
  <2>1. HeapMutexReleased
    BY DEF HeapMutexReleased
  <2>2. 0 \in HeapIndex
    BY HeapAssumption DEF HeapIndex
  <2>3. heap \in [HeapIndex -> Frames \cup {NoFrame}]
    OBVIOUS
  <2>4. heapMutexHeld \in BOOLEAN
    OBVIOUS
  <2>5. ref \in [Frames -> Int]
    OBVIOUS
  <2>6. take \in HeapIndex /\ put \in HeapIndex
    BY <2>2
  <2>. QED  BY <2>1, <2>3, <2>4, <2>5, <2>6, Zenon DEF HeapType
<1>2. ExchangerType
  BY ExchangerAssumption DEF ExchangerType, RingIndex
<1>3. StreamType /\ ThreadType
  BY ExchangerAssumption DEF StreamType, ThreadType, Threads, EncoderPCs, LoopPCs
<1>4. HeapShape
  BY HeapAssumption DEF HeapShape, HeapIndex
<1>5. RingShape
  BY ExchangerAssumption, HeapAssumption DEF RingShape, RingIndex, Between
<1>6. PipeBytes
  BY ExchangerAssumption DEF PipeBytes, Redeeming, QueueLen, Threads
<1>7. Positions
  BY ExchangerAssumption, HeapAssumption DEF Positions, Threads
<1>8. OneOwner
  <2>1. \A e \in Encoders : \A i \in RingIndex(e) : ring[e][i] = NoFrame
    BY DEF RingIndex
  <2>. QED  BY <2>1, HeapAssumption
            DEF OneOwner, HeapDistinct, RingDistinct, RingNotInHeap,
                HeldNotInHeap, HeldNotInRing, HeldDistinct
<1>9. RefCountsOwners
  BY HeapAssumption DEF RefCountsOwners, RingIndex
<1>10. NoFrameLeaks
  BY DEF NoFrameLeaks, InHeap
<1>. QED  BY <1>1, <1>2, <1>3, <1>4, <1>5, <1>6, <1>7, <1>8, <1>9, <1>10 DEF IInv, TypeOK

\* A step that changes nothing keeps the invariant.
LEMMA StutterInv == ASSUME IInv, UNCHANGED vars PROVE IInv'
<1>. USE DEF IInv, TypeOK, vars
<1>1. HeapType' /\ HeapMutexReleased' /\ StreamType'
  BY DEF HeapType, HeapMutexReleased, StreamType, HeapIndex
<1>2. ExchangerType' /\ ThreadType'
  BY DEF ExchangerType, RingIndex, ThreadType, Threads
<1>3. HeapShape' /\ RingShape' /\ OneOwner' /\ NoFrameLeaks'
  BY HeapShapeKept, RingShapeKept, OwnershipKept
<1>4. PipeBytes' /\ Positions'
  BY DEF PipeBytes, Redeeming, QueueLen, Positions
<1>5. RefCountsOwners'
  BY DEF RefCountsOwners, RingIndex, Threads
<1>. QED  BY <1>1, <1>2, <1>3, <1>4, <1>5

\* Every step of every thread keeps the invariant.
LEMMA NextInv == ASSUME IInv, [Next]_vars PROVE IInv'
<1>1. ASSUME NEW e \in Encoders, EncoderStep(e) PROVE IInv'
  BY <1>1, CheckRunningInv, GiveUpInv, NewFrameInv, DeliverFullInv, DeliverStoreInv,
     DeliverAdvanceInv, EncoderUnrefInv, EncoderPutInv DEF EncoderStep
<1>2. ASSUME LoopStep PROVE IInv'
  BY <1>2, SelectInv, ReadByteInv, TakeFrameInv, SkipDestInv, RefForDestInv,
     ProcessFrameInv, UnrefForDestInv, UnrefDeliveredInv, LoopPutInv DEF LoopStep
<1>. QED  BY <1>1, <1>2, HandleRequestInv, StutterInv DEF Next

\* The invariant holds in every reachable state.
THEOREM Invariance == Spec => []IInv
<1>1. Init => IInv
  BY InitInv
<1>2. IInv /\ [Next]_vars => IInv'
  BY NextInv
<1>. QED  BY <1>1, <1>2, PTL DEF Spec

\* Type correctness of frame.c's heap and exchangers and their threads.
THEOREM TypeCorrect == Spec => []TypeOK
<1>1. IInv => TypeOK
  BY DEF IInv
<1>. QED  BY <1>1, Invariance, PTL

\* unref_frame never takes its path that keeps frame_heap_mutex locked,
\* whatever the number of frames, encoders and slots.
THEOREM NoHeapDeadlock == Spec => []HeapMutexReleased
<1>1. IInv => HeapMutexReleased
  BY DEF IInv
<1>. QED  BY <1>1, Invariance, PTL

\* exchanger_read never takes its "We lost a frame!" path.
THEOREM NothingLost == Spec => []NoLostFrame
<1>1. IInv => NoLostFrame
  BY FrameAtMasterRead, HeapAssumption DEF NoLostFrame, LostFrame
<1>. QED  BY <1>1, Invariance, PTL

\* Heap, rings and threads never share a frame and never forget one, and
\* ref_count agrees with the owners.
THEOREM Ownership == Spec => []FramesOwned
<1>1. IInv => FramesOwned
  BY DEF IInv, FramesOwned
<1>. QED  BY <1>1, Invariance, PTL

-----------------------------------------------------------------------------
(***************************************************************************)
(* The refinement of FrameChannel: the queue of an encoder is what its     *)
(* ring holds from master_read to slave_cur.                               *)
(***************************************************************************)

\* How far slot b is ahead of slot a, and the slot k places after a.
Ahead(a, b, n) == IF b >= a THEN b - a ELSE b - a + n
Place(a, k, n) == IF a + k < n THEN a + k ELSE a + k - n

LEMMA RingArithmetic ==
    ASSUME NEW n \in Nat \ {0}, NEW m \in 0 .. n - 1, NEW s \in 0 .. n - 1
    PROVE  /\ Ahead(m, s, n) \in 0 .. n - 1
           /\ Place(m, Ahead(m, s, n), n) = s
           /\ \A k \in 0 .. n - 1 : Place(m, k, n) \in 0 .. n - 1
           /\ \A k \in 0 .. n - 1 : Place(m, k, n) = s => k = Ahead(m, s, n)
           /\ NextSlot(s, n) # m => Ahead(m, NextSlot(s, n), n) = Ahead(m, s, n) + 1
           /\ NextSlot(s, n) # m => Ahead(m, s, n) + 1 \in 1 .. n - 1
           /\ s # m => Ahead(NextSlot(m, n), s, n) = Ahead(m, s, n) - 1
           /\ \A k \in 0 .. n - 2 : Place(NextSlot(m, n), k, n) = Place(m, k + 1, n)
  BY DEF Ahead, Place, NextSlot

\* The queue of encoder e.
QueueOf(e) == [k \in 1 .. QueueLen(e) |-> ring[e][QueueIndex(e, k)]]

LEMMA QueueForm ==
    ASSUME IInv, NEW e \in Encoders
    PROVE  /\ QueueLen(e) = Ahead(masterRead[e], slaveCur[e], Slots[e]) + (IF exHeld[e] THEN 1 ELSE 0)
           /\ QueueLen(e) \in 0 .. Slots[e] - 1
           /\ \A k \in 1 .. QueueLen(e) :
                 /\ QueueIndex(e, k) = Place(masterRead[e], k - 1, Slots[e])
                 /\ QueueIndex(e, k) \in RingIndex(e)
                 /\ ring[e][QueueIndex(e, k)] \in Frames
           /\ QueueOf(e) \in Seq(Frames) /\ Len(QueueOf(e)) = QueueLen(e)
<1>1. PICK n, m, s : n = Slots[e] /\ m = masterRead[e] /\ s = slaveCur[e]
  OBVIOUS
<1>2. n \in Nat \ {0} /\ m \in 0 .. n - 1 /\ s \in 0 .. n - 1
  BY <1>1, ExchangerAssumption DEF IInv, TypeOK, ExchangerType, RingIndex
<1>3. QueueLen(e) = Ahead(m, s, n) + (IF exHeld[e] THEN 1 ELSE 0)
  BY <1>1 DEF QueueLen, Ahead
<1>4. exHeld[e] => NextSlot(s, n) # m
  BY <1>1 DEF IInv, RingShape, RingFull
<1>5. QueueLen(e) \in 0 .. n - 1
  <2>1. CASE exHeld[e]
    <3>1. Ahead(m, s, n) + 1 \in 1 .. n - 1
      BY <1>2, <1>4, <2>1, RingArithmetic
    <3>. QED  BY <1>2, <1>3, <2>1, <3>1
  <2>2. CASE ~exHeld[e]
    <3>1. Ahead(m, s, n) \in 0 .. n - 1
      BY <1>2, RingArithmetic
    <3>. QED  BY <1>2, <1>3, <2>2, <3>1
  <2>. QED  BY <2>1, <2>2
<1>6. ASSUME NEW k \in 1 .. QueueLen(e)
      PROVE  /\ QueueIndex(e, k) = Place(m, k - 1, n)
             /\ QueueIndex(e, k) \in RingIndex(e)
             /\ ring[e][QueueIndex(e, k)] \in Frames
  <2>1. k \in Int /\ k - 1 \in 0 .. n - 1
    BY <1>2, <1>5
  <2>2. QueueIndex(e, k) = Place(m, k - 1, n)
    BY <1>1, <1>2, <2>1 DEF QueueIndex, Place
  <2>3. PICK i : i = QueueIndex(e, k)
    OBVIOUS
  <2>4. i \in 0 .. n - 1
    BY <1>2, <2>1, <2>2, <2>3, RingArithmetic
  <2>5. Between(i, m, s) \/ (exHeld[e] /\ i = s)
    <3>1. CASE exHeld[e] /\ k = QueueLen(e)
      <4>1. k - 1 = Ahead(m, s, n)
        <5>1. Ahead(m, s, n) \in Int
          BY <1>2, RingArithmetic
        <5>. QED  BY <1>3, <3>1, <5>1
      <4>. QED  BY <1>2, <2>2, <2>3, <3>1, <4>1, RingArithmetic
    <3>2. CASE ~(exHeld[e] /\ k = QueueLen(e))
      <4>1. k - 1 < Ahead(m, s, n)
        <5>1. Ahead(m, s, n) \in Int
          BY <1>2, RingArithmetic
        <5>2. CASE exHeld[e]
          BY <1>3, <2>1, <3>2, <5>1, <5>2
        <5>3. CASE ~exHeld[e]
          BY <1>3, <2>1, <5>1, <5>3
        <5>. QED  BY <5>2, <5>3
      <4>. QED  BY <1>2, <2>1, <2>2, <2>3, <4>1 DEF Ahead, Place, Between
    <3>. QED  BY <3>1, <3>2
  <2>6. i \in RingIndex(e)
    BY <1>1, <2>4 DEF RingIndex
  <2>7. ring[e][i] \in Frames
    BY <1>1, <2>5, <2>6 DEF IInv, RingShape
  <2>. QED  BY <2>2, <2>3, <2>6, <2>7
<1>7. QueueOf(e) \in Seq(Frames) /\ Len(QueueOf(e)) = QueueLen(e)
  <2>1. PICK q, l : q = QueueOf(e) /\ l = QueueLen(e)
    OBVIOUS
  <2>2. l \in Nat /\ q \in [1 .. l -> Frames]
    BY <1>2, <1>5, <1>6, <2>1 DEF QueueOf
  <2>3. q \in Seq(Frames) /\ Len(q) = l
    BY <2>2, SeqDef, LenProperties
  <2>. QED  BY <2>1, <2>3
<1>. QED  BY <1>1, <1>3, <1>5, <1>6, <1>7

\* The queue of an exchanger that a step leaves alone.
LEMMA QueueKept ==
    ASSUME NEW e \in Encoders,
           ring'[e] = ring[e], slaveCur'[e] = slaveCur[e], masterRead'[e] = masterRead[e],
           exHeld'[e] = exHeld[e]
    PROVE  QueueOf(e)' = QueueOf(e)
  BY DEF QueueOf, QueueLen, QueueIndex

LEMMA QueuesKept ==
    ASSUME UNCHANGED <<ring, slaveCur, masterRead, exHeld>> PROVE queueBar' = queueBar
  BY DEF queueBar, QueueLen, QueueIndex

\* Steps that move no frame are no steps of the channel.
LEMMA NoMove ==
    ASSUME UNCHANGED <<heap, frm, ring, slaveCur, masterRead, exHeld>>
    PROVE  UNCHANGED Channel!chVars
<1>1. freeBar' = freeBar
  BY DEF freeBar, InHeap
<1>2. inHandBar' = inHandBar /\ inUseBar' = inUseBar
  BY DEF inHandBar, inUseBar
<1>. QED  BY <1>1, <1>2, QueuesKept DEF Channel!chVars

LEMMA NewFrameRefines == ASSUME IInv, NEW e \in Encoders, NewFrame(e) PROVE Channel!Alloc(e)
<1>1. PICK f : f = heap[take]
  OBVIOUS
<1>2. /\ pc[e] = "capture" /\ f # NoFrame
      /\ heap' = [heap EXCEPT ![take] = NoFrame] /\ frm' = [frm EXCEPT ![e] = f]
      /\ UNCHANGED <<ring, slaveCur, masterRead, exHeld>>
  BY <1>1 DEF NewFrame, HeapHasFrame, TakeFromHeap, exVars
<1>3. take \in HeapIndex /\ f \in Frames
  BY <1>1, <1>2 DEF IInv, TypeOK, HeapType
<1>4. freeBar' = freeBar \ {f} /\ f \in freeBar
  <2>1. f \in freeBar
    BY <1>1, <1>3 DEF freeBar, InHeap
  <2>2. \A i \in HeapIndex : heap'[i] = IF i = take THEN NoFrame ELSE heap[i]
    BY <1>2 DEF IInv, TypeOK, HeapType
  <2>3. ASSUME NEW g \in Frames PROVE InHeap(g)' <=> InHeap(g) /\ g # f
    BY <1>1, <1>3, <2>2, HeapAssumption DEF InHeap, IInv, OneOwner, HeapDistinct
  <2>. QED  BY <2>1, <2>3 DEF freeBar
<1>5. inHandBar[e] = {} /\ inHandBar' = [inHandBar EXCEPT ![e] = {f}]
  <2>1. frm[e] = NoFrame
    BY <1>2 DEF IInv, Positions, TypeOK, ThreadType, Threads
  <2>2. \A x \in Encoders : frm'[x] = IF x = e THEN f ELSE frm[x]
    BY <1>2 DEF IInv, TypeOK, ThreadType, Threads
  <2>3. \A x \in Encoders : inHandBar'[x] = IF x = e THEN {f} ELSE inHandBar[x]
    BY <1>3, <2>2, HeapAssumption DEF inHandBar
  <2>. QED  BY <2>1, <2>3 DEF inHandBar
<1>6. inUseBar' = inUseBar
  <2>1. frm'[Loop] = frm[Loop]
    BY <1>2, ExchangerAssumption DEF IInv, TypeOK, ThreadType, Threads
  <2>. QED  BY <2>1 DEF inUseBar
<1>7. queueBar' = queueBar
  BY <1>2, QueuesKept
<1>. QED  BY <1>4, <1>5, <1>6, <1>7 DEF Channel!Alloc

LEMMA EncoderPutRefines == ASSUME IInv, NEW e \in Encoders, EncoderPut(e) PROVE Channel!Discard(e)
<1>1. PICK f : f = frm[e]
  OBVIOUS
<1>2. /\ pc[e] = "put" /\ PutInHeap(e) /\ frm' = [frm EXCEPT ![e] = NoFrame]
      /\ UNCHANGED <<ring, slaveCur, masterRead, exHeld>>
  BY <1>1 DEF EncoderPut, exVars
<1>3. f \in Frames /\ e \in Threads
  BY <1>1, <1>2 DEF IInv, Positions, Threads
<1>4. heap[put] = NoFrame /\ HeapSet(put, f) /\ put \in HeapIndex
  BY <1>1, <1>2, <1>3, PutKeepsHeap DEF IInv, TypeOK, HeapType
<1>5. freeBar' = freeBar \cup {f}
  <2>1. ASSUME NEW g \in Frames PROVE InHeap(g)' <=> InHeap(g) \/ g = f
    BY <1>4, HeapAssumption DEF InHeap, HeapSet
  <2>. QED  BY <1>3, <2>1 DEF freeBar
<1>6. inHandBar[e] = {f} /\ inHandBar' = [inHandBar EXCEPT ![e] = @ \ {f}]
  <2>1. inHandBar[e] = {f}
    BY <1>1, <1>3, HeapAssumption DEF inHandBar
  <2>2. \A x \in Encoders : frm'[x] = IF x = e THEN NoFrame ELSE frm[x]
    BY <1>2 DEF IInv, TypeOK, ThreadType, Threads
  <2>3. \A x \in Encoders : inHandBar'[x] = IF x = e THEN {} ELSE inHandBar[x]
    BY <2>2 DEF inHandBar
  <2>4. inHandBar[e] \ {f} = {}
    BY <2>1
  <2>5. inHandBar' = [inHandBar EXCEPT ![e] = {}]
    BY <2>3 DEF inHandBar
  <2>. QED  BY <2>1, <2>4, <2>5
<1>7. inUseBar' = inUseBar
  <2>1. frm'[Loop] = frm[Loop]
    BY <1>2, ExchangerAssumption DEF IInv, TypeOK, ThreadType, Threads
  <2>. QED  BY <2>1 DEF inUseBar
<1>8. queueBar' = queueBar
  BY <1>2, QueuesKept
<1>. QED  BY <1>5, <1>6, <1>7, <1>8 DEF Channel!Discard

LEMMA LoopPutRefines == ASSUME IInv, LoopPut PROVE Channel!Release
<1>1. PICK f : f = frm[Loop]
  OBVIOUS
<1>2. pc[Loop] = "put"
  BY DEF LoopPut, IInv, Positions
<1>3. /\ PutInHeap(Loop) /\ frm' = [frm EXCEPT ![Loop] = NoFrame]
      /\ UNCHANGED <<ring, slaveCur, masterRead, exHeld>>
  BY <1>1, <1>2 DEF LoopPut, exVars
<1>4. f \in Frames /\ Loop \in Threads
  BY <1>1, <1>2 DEF IInv, Positions, Threads
<1>5. heap[put] = NoFrame /\ HeapSet(put, f) /\ put \in HeapIndex
  BY <1>1, <1>3, <1>4, PutKeepsHeap DEF IInv, TypeOK, HeapType
<1>6. inUseBar = {f} /\ inUseBar' = {}
  <2>1. frm'[Loop] = NoFrame
    BY <1>3, <1>4 DEF IInv, TypeOK, ThreadType
  <2>. QED  BY <1>1, <1>4, <2>1, HeapAssumption DEF inUseBar
<1>7. freeBar' = freeBar \cup inUseBar
  <2>1. ASSUME NEW g \in Frames PROVE InHeap(g)' <=> InHeap(g) \/ g = f
    BY <1>5, HeapAssumption DEF InHeap, HeapSet
  <2>. QED  BY <1>4, <1>6, <2>1 DEF freeBar
<1>8. inHandBar' = inHandBar
  <2>1. \A x \in Encoders : frm'[x] = frm[x]
    BY <1>3, ExchangerAssumption DEF IInv, TypeOK, ThreadType, Threads
  <2>. QED  BY <2>1 DEF inHandBar
<1>9. queueBar' = queueBar
  BY <1>3, QueuesKept
<1>. QED  BY <1>6, <1>7, <1>8, <1>9 DEF Channel!Release

\* deliver_frame puts the frame behind those that wait, and there is room.
LEMMA DeliverStoreRefines == ASSUME IInv, NEW e \in Encoders, DeliverStore(e) PROVE Channel!Send(e)
<1>1. PICK f, n, m, s, l : /\ f = frm[e] /\ n = Slots[e] /\ m = masterRead[e] /\ s = slaveCur[e]
                           /\ l = QueueLen(e)
  OBVIOUS
<1>2. /\ pc[e] = "deliver" /\ NextSlot(s, n) # m
      /\ exHeld' = [exHeld EXCEPT ![e] = TRUE] /\ ring' = [ring EXCEPT ![e][s] = f]
      /\ frm' = [frm EXCEPT ![e] = NoFrame]
      /\ UNCHANGED <<heap, slaveCur, masterRead>>
  BY <1>1 DEF DeliverStore, RingFull, heapVars
<1>3. n \in Nat \ {0} /\ m \in 0 .. n - 1 /\ s \in 0 .. n - 1 /\ s \in RingIndex(e)
  BY <1>1, ExchangerAssumption DEF IInv, TypeOK, ExchangerType, RingIndex
<1>4. f \in Frames /\ ~exHeld[e]
  BY <1>1, <1>2 DEF IInv, Positions
<1>5. l = Ahead(m, s, n) /\ l + 1 \in 1 .. n - 1 /\ l \in Nat
  <2>1. Ahead(m, s, n) \in 0 .. n - 1 /\ Ahead(m, s, n) + 1 \in 1 .. n - 1
    BY <1>2, <1>3, RingArithmetic
  <2>2. l = Ahead(m, s, n) + 0
    BY <1>1, <1>4, QueueForm
  <2>. QED  BY <1>3, <2>1, <2>2
<1>6. IInv'
  BY DeliverStoreInv
<1>7. QueueLen(e)' = l + 1
  <2>1. exHeld'[e] /\ slaveCur'[e] = s /\ masterRead'[e] = m
    BY <1>1, <1>2 DEF IInv, TypeOK, ExchangerType
  <2>2. QueueLen(e)' = Ahead(m, s, n) + 1
    BY <1>1, <2>1 DEF QueueLen, Ahead
  <2>. QED  BY <1>5, <2>2
<1>8. \A x \in Encoders : \A j \in RingIndex(x) :
          ring'[x][j] = IF x = e /\ j = s THEN f ELSE ring[x][j]
  BY <1>2 DEF IInv, TypeOK, ExchangerType
<1>9. QueueOf(e)' = Append(QueueOf(e), f)
  <2>1. PICK q, r : q = QueueOf(e) /\ r = QueueOf(e)'
    OBVIOUS
  <2>2. q \in Seq(Frames) /\ Len(q) = l
    BY <1>1, <2>1, QueueForm
  <2>3. r = [k \in 1 .. l + 1 |-> ring'[e][Place(m, k - 1, n)]]
    <3>1. \A k \in 1 .. l + 1 : QueueIndex(e, k)' = Place(m, k - 1, n)
      <4>1. masterRead'[e] = m
        BY <1>1, <1>2
      <4>. QED  BY <1>1, <1>3, <1>5, <4>1 DEF QueueIndex, Place
    <3>. QED  BY <1>7, <2>1, <3>1 DEF QueueOf
  <2>4. q = [k \in 1 .. l |-> ring[e][Place(m, k - 1, n)]]
    <3>1. \A k \in 1 .. l : QueueIndex(e, k) = Place(m, k - 1, n)
      BY <1>1, <1>3, <1>5 DEF QueueIndex, Place
    <3>. QED  BY <1>1, <2>1, <3>1 DEF QueueOf
  <2>5. ASSUME NEW k \in 1 .. l PROVE r[k] = q[k]
    <3>1. k \in 1 .. l + 1 /\ k - 1 \in 0 .. n - 1 /\ k - 1 # l
      BY <1>3, <1>5
    <3>0. \A i \in 0 .. n - 1 : /\ Place(m, i, n) \in 0 .. n - 1
                                /\ Place(m, i, n) = s => i = Ahead(m, s, n)
      BY <1>3, RingArithmetic
    <3>2. Place(m, k - 1, n) # s /\ Place(m, k - 1, n) \in RingIndex(e)
      BY <1>1, <1>5, <3>0, <3>1 DEF RingIndex
    <3>. QED  BY <1>8, <2>3, <2>4, <3>1, <3>2
  <2>6. r[l + 1] = f
    <3>1. l + 1 \in 1 .. l + 1 /\ l + 1 - 1 = l
      BY <1>5
    <3>2. Place(m, l, n) = s
      BY <1>3, <1>5, RingArithmetic
    <3>3. r[l + 1] = ring'[e][s]
      <4>1. PICK k : k = l + 1
        OBVIOUS
      <4>2. k \in 1 .. l + 1 /\ k - 1 = l
        BY <1>5, <4>1
      <4>3. r[k] = ring'[e][Place(m, k - 1, n)]
        BY <2>3, <4>2
      <4>. QED  BY <3>2, <4>1, <4>2, <4>3
    <3>. QED  BY <1>3, <1>8, <3>3
  <2>7. Append(q, f) \in Seq(Frames) /\ Len(Append(q, f)) = l + 1 /\ Append(q, f)[l + 1] = f
        /\ \A k \in 1 .. l : Append(q, f)[k] = q[k]
    BY <1>4, <2>2, AppendProperties
  <2>8. r \in Seq(Frames) /\ Len(r) = l + 1
    <3>1. QueueOf(e)' \in Seq(Frames) /\ Len(QueueOf(e)') = QueueLen(e)'
      <4>1. r = [k \in 1 .. l + 1 |-> r[k]] /\ \A k \in 1 .. l + 1 : r[k] \in Frames
        <5>1. \A k \in 1 .. l + 1 : k \in 1 .. l \/ k = l + 1
          BY <1>5
        <5>2. \A k \in 1 .. l : q[k] \in Frames
          BY <2>2, ElementOfSeq
        <5>. QED  BY <1>4, <2>3, <2>5, <2>6, <5>1, <5>2
      <4>2. l + 1 \in Nat /\ r \in [1 .. l + 1 -> Frames]
        BY <1>5, <4>1
      <4>3. r \in Seq(Frames) /\ Len(r) = l + 1
        BY <4>2, SeqDef, LenProperties
      <4>. QED  BY <1>7, <2>1, <4>3
    <3>. QED  BY <1>7, <2>1, <3>1
  <2>9. \A k \in 1 .. l + 1 : r[k] = Append(q, f)[k]
    <3>1. \A k \in 1 .. l + 1 : k \in 1 .. l \/ k = l + 1
      BY <1>5
    <3>. QED  BY <2>5, <2>6, <2>7, <3>1
  <2>10. r = Append(q, f)
    <3>1. Len(r) = Len(Append(q, f)) /\ \A k \in 1 .. Len(r) : r[k] = Append(q, f)[k]
      BY <2>7, <2>8, <2>9
    <3>. QED  BY <2>7, <2>8, <3>1, SeqEqual
  <2>. QED  BY <2>1, <2>10
<1>10. queueBar' = [queueBar EXCEPT ![e] = Append(@, f)]
  <2>1. \A x \in Encoders : x # e => QueueOf(x)' = QueueOf(x)
    <3>1. ASSUME NEW x \in Encoders, x # e
          PROVE  /\ ring'[x] = ring[x] /\ slaveCur'[x] = slaveCur[x]
                 /\ masterRead'[x] = masterRead[x] /\ exHeld'[x] = exHeld[x]
      BY <1>2, <3>1 DEF IInv, TypeOK, ExchangerType
    <3>. QED  BY <3>1, QueueKept
  <2>2. queueBar = [x \in Encoders |-> QueueOf(x)] /\ queueBar' = [x \in Encoders |-> QueueOf(x)']
    BY DEF queueBar, QueueOf
  <2>. QED  BY <1>9, <2>1, <2>2
<1>11. Len(queueBar[e]) < [x \in Encoders |-> Slots[x] - 1][e]
  <2>1. queueBar[e] = QueueOf(e) /\ [x \in Encoders |-> Slots[x] - 1][e] = n - 1
    BY <1>1 DEF queueBar, QueueOf
  <2>2. Len(QueueOf(e)) = l
    BY <1>1, QueueForm
  <2>. QED  BY <1>3, <1>5, <2>1, <2>2
<1>12. inHandBar[e] = {f} /\ inHandBar' = [inHandBar EXCEPT ![e] = @ \ {f}]
  <2>1. inHandBar[e] = {f}
    BY <1>1, <1>4, HeapAssumption DEF inHandBar
  <2>2. \A x \in Encoders : frm'[x] = IF x = e THEN NoFrame ELSE frm[x]
    BY <1>2 DEF IInv, TypeOK, ThreadType, Threads
  <2>3. \A x \in Encoders : inHandBar'[x] = IF x = e THEN {} ELSE inHandBar[x]
    BY <2>2 DEF inHandBar
  <2>4. inHandBar[e] \ {f} = {}
    BY <2>1
  <2>5. inHandBar' = [inHandBar EXCEPT ![e] = {}]
    BY <2>3 DEF inHandBar
  <2>. QED  BY <2>1, <2>4, <2>5
<1>13. inUseBar' = inUseBar /\ freeBar' = freeBar
  <2>1. frm'[Loop] = frm[Loop]
    BY <1>2, ExchangerAssumption DEF IInv, TypeOK, ThreadType, Threads
  <2>. QED  BY <1>2, <2>1 DEF inUseBar, freeBar, InHeap
<1>. QED  BY <1>10, <1>11, <1>12, <1>13 DEF Channel!Send

\* Its slot at slave_cur counted as queued already.
LEMMA DeliverAdvanceRefines ==
    ASSUME IInv, NEW e \in Encoders, DeliverAdvance(e) PROVE UNCHANGED Channel!chVars
<1>1. PICK n, m, s : n = Slots[e] /\ m = masterRead[e] /\ s = slaveCur[e]
  OBVIOUS
<1>2. /\ pc[e] = "advance" /\ slaveCur' = [slaveCur EXCEPT ![e] = NextSlot(s, n)]
      /\ exHeld' = [exHeld EXCEPT ![e] = FALSE] /\ UNCHANGED <<heap, frm, ring, masterRead>>
  BY <1>1 DEF DeliverAdvance, heapVars
<1>3. n \in Nat \ {0} /\ m \in 0 .. n - 1 /\ s \in 0 .. n - 1
  BY <1>1, ExchangerAssumption DEF IInv, TypeOK, ExchangerType, RingIndex
<1>4. exHeld[e] /\ NextSlot(s, n) # m
  BY <1>1, <1>2 DEF IInv, Positions, RingShape, RingFull
<1>5. QueueLen(e)' = QueueLen(e)
  <2>1. ~exHeld'[e] /\ slaveCur'[e] = NextSlot(s, n) /\ masterRead'[e] = m
    BY <1>1, <1>2 DEF IInv, TypeOK, ExchangerType
  <2>2. QueueLen(e)' = Ahead(m, NextSlot(s, n), n) + 0
    BY <1>1, <2>1 DEF QueueLen, Ahead
  <2>3. QueueLen(e) = Ahead(m, s, n) + 1
    BY <1>1, <1>4 DEF QueueLen, Ahead
  <2>4. Ahead(m, NextSlot(s, n), n) = Ahead(m, s, n) + 1 /\ Ahead(m, s, n) \in Int
    BY <1>3, <1>4, RingArithmetic
  <2>. QED  BY <2>2, <2>3, <2>4
<1>6. QueueOf(e)' = QueueOf(e)
  <2>1. \A k \in 1 .. QueueLen(e) : QueueIndex(e, k)' = QueueIndex(e, k)
    BY <1>2 DEF QueueIndex
  <2>. QED  BY <1>2, <1>5, <2>1 DEF QueueOf
<1>7. \A x \in Encoders : x # e => QueueOf(x)' = QueueOf(x)
  <2>1. ASSUME NEW x \in Encoders, x # e
        PROVE  /\ ring'[x] = ring[x] /\ slaveCur'[x] = slaveCur[x]
               /\ masterRead'[x] = masterRead[x] /\ exHeld'[x] = exHeld[x]
    BY <1>2, <2>1 DEF IInv, TypeOK, ExchangerType
  <2>. QED  BY <2>1, QueueKept
<1>8. queueBar' = queueBar
  <2>1. queueBar = [x \in Encoders |-> QueueOf(x)] /\ queueBar' = [x \in Encoders |-> QueueOf(x)']
    BY DEF queueBar, QueueOf
  <2>. QED  BY <1>6, <1>7, <2>1
<1>9. freeBar' = freeBar /\ inHandBar' = inHandBar /\ inUseBar' = inUseBar
  BY <1>2 DEF freeBar, InHeap, inHandBar, inUseBar
<1>. QED  BY <1>8, <1>9 DEF Channel!chVars

\* exchanger_read takes the oldest frame of the queue.
LEMMA TakeFrameRefines == ASSUME IInv, TakeFrame PROVE Channel!Receive(cur)
<1>1. PICK e, n, m, s, l, f : /\ e = cur /\ n = Slots[e] /\ m = masterRead[e] /\ s = slaveCur[e]
                              /\ l = QueueLen(e) /\ f = ring[e][m]
  OBVIOUS
<1>2. e \in Encoders /\ pc[Loop] = "take" /\ ~exHeld[e]
  BY <1>1 DEF TakeFrame, IInv, TypeOK, ThreadType
<1>3. f \in Frames /\ f # NoFrame
  BY <1>1, <1>2, FrameAtMasterRead, HeapAssumption
<1>4. /\ frm' = [frm EXCEPT ![Loop] = f] /\ ring' = [ring EXCEPT ![e][m] = NoFrame]
      /\ masterRead' = [masterRead EXCEPT ![e] = NextSlot(m, n)]
      /\ UNCHANGED <<heap, slaveCur, exHeld>>
  BY <1>1, <1>3 DEF TakeFrame, LostFrame, MasterNext, heapVars
<1>5. n \in Nat \ {0} /\ m \in 0 .. n - 1 /\ s \in 0 .. n - 1 /\ m \in RingIndex(e)
  BY <1>1, <1>2, ExchangerAssumption DEF IInv, TypeOK, ExchangerType, RingIndex
<1>6. l = Ahead(m, s, n) /\ l \in 1 .. n - 1 /\ s # m
  <2>1. l = Ahead(m, s, n) + 0 /\ l \in 0 .. n - 1
    BY <1>1, <1>2, QueueForm
  <2>2. Ahead(m, s, n) \in Int
    BY <1>5, RingArithmetic
  <2>3. pipe[e] + 1 = l /\ pipe[e] \in Nat
    BY <1>1, <1>2 DEF IInv, PipeBytes, Redeeming, TypeOK, ExchangerType
  <2>4. l = Ahead(m, s, n) /\ l \in 1 .. n - 1
    BY <1>5, <2>1, <2>2, <2>3
  <2>5. s = m => Ahead(m, s, n) = 0
    BY <1>5 DEF Ahead
  <2>. QED  BY <2>4, <2>5
<1>7. QueueLen(e)' = l - 1
  <2>1. ~exHeld'[e] /\ slaveCur'[e] = s /\ masterRead'[e] = NextSlot(m, n)
    BY <1>1, <1>2, <1>4 DEF IInv, TypeOK, ExchangerType
  <2>2. QueueLen(e)' = Ahead(NextSlot(m, n), s, n) + 0
    BY <1>1, <2>1 DEF QueueLen, Ahead
  <2>3. Ahead(NextSlot(m, n), s, n) = Ahead(m, s, n) - 1 /\ Ahead(m, s, n) \in Int
    BY <1>5, <1>6, RingArithmetic
  <2>. QED  BY <1>6, <2>2, <2>3
<1>8. \A x \in Encoders : \A j \in RingIndex(x) :
          ring'[x][j] = IF x = e /\ j = m THEN NoFrame ELSE ring[x][j]
  BY <1>2, <1>4 DEF IInv, TypeOK, ExchangerType
<1>9. QueueOf(e)' = Tail(QueueOf(e)) /\ Head(QueueOf(e)) = f /\ QueueOf(e) # << >>
  <2>1. PICK q, r : q = QueueOf(e) /\ r = QueueOf(e)'
    OBVIOUS
  <2>2. q \in Seq(Frames) /\ Len(q) = l
    BY <1>1, <1>2, <2>1, QueueForm
  <2>3. r = [k \in 1 .. l - 1 |-> ring'[e][Place(NextSlot(m, n), k - 1, n)]]
    <3>1. \A k \in 1 .. l - 1 : QueueIndex(e, k)' = Place(NextSlot(m, n), k - 1, n)
      <4>1. masterRead'[e] = NextSlot(m, n)
        BY <1>2, <1>4 DEF IInv, TypeOK, ExchangerType
      <4>2. NextSlot(m, n) \in Int
        BY <1>5 DEF NextSlot
      <4>. QED  BY <1>1, <1>5, <1>6, <4>1, <4>2 DEF QueueIndex, Place
    <3>. QED  BY <1>7, <2>1, <3>1 DEF QueueOf
  <2>4. q = [k \in 1 .. l |-> ring[e][Place(m, k - 1, n)]]
    <3>1. \A k \in 1 .. l : QueueIndex(e, k) = Place(m, k - 1, n)
      BY <1>1, <1>5, <1>6 DEF QueueIndex, Place
    <3>. QED  BY <1>1, <2>1, <3>1 DEF QueueOf
  <2>5. ASSUME NEW k \in 1 .. l - 1 PROVE r[k] = q[k + 1]
    <3>1. k \in Int /\ k + 1 \in 1 .. l /\ k \in 0 .. n - 1 /\ k - 1 \in 0 .. n - 2 /\ k # 0
          /\ k - 1 + 1 = k /\ k + 1 - 1 = k
      BY <1>5, <1>6
    <3>2. Place(NextSlot(m, n), k - 1, n) = Place(m, k, n)
      BY <1>5, <3>1, RingArithmetic
    <3>3. PICK i : i = Place(m, k, n)
      OBVIOUS
    <3>4. i \in 0 .. n - 1 /\ i # m
      BY <1>5, <3>1, <3>3 DEF Place
    <3>5. i \in RingIndex(e)
      BY <1>1, <3>4 DEF RingIndex
    <3>6. ring'[e][i] = ring[e][i]
      BY <1>2, <1>8, <3>4, <3>5
    <3>7. r[k] = ring'[e][i] /\ q[k + 1] = ring[e][i]
      BY <2>3, <2>4, <3>1, <3>2, <3>3
    <3>. QED  BY <3>6, <3>7
  <2>6. q[1] = f /\ q # << >>
    <3>1. 1 \in 1 .. l /\ 1 - 1 = 0
      BY <1>6
    <3>2. Place(m, 0, n) = m
      BY <1>5 DEF Place
    <3>3. q[1] = ring[e][m]
      BY <2>4, <3>1, <3>2
    <3>4. Len(q) # 0
      BY <1>6, <2>2
    <3>. QED  BY <1>1, <2>2, <3>3, <3>4, EmptySeq
  <2>7. Head(q) = f /\ Tail(q) \in Seq(Frames) /\ Len(Tail(q)) = l - 1
        /\ \A k \in 1 .. l - 1 : Tail(q)[k] = q[k + 1]
    BY <2>2, <2>6, HeadTailProperties
  <2>8. r \in Seq(Frames) /\ Len(r) = l - 1
    <3>1. \A k \in 1 .. l - 1 : r[k] \in Frames
      <4>1. \A k \in 1 .. l - 1 : k + 1 \in 1 .. l
        BY <1>6
      <4>2. \A k \in 1 .. l : q[k] \in Frames
        BY <2>2, ElementOfSeq
      <4>. QED  BY <2>5, <4>1, <4>2
    <3>2. l - 1 \in Nat
      BY <1>6
    <3>3. r \in [1 .. l - 1 -> Frames]
      BY <2>3, <3>1
    <3>. QED  BY <3>2, <3>3, SeqDef, LenProperties
  <2>9. r = Tail(q)
    <3>1. Len(r) = Len(Tail(q)) /\ \A k \in 1 .. Len(r) : r[k] = Tail(q)[k]
      BY <2>5, <2>7, <2>8
    <3>. QED  BY <2>7, <2>8, <3>1, SeqEqual
  <2>. QED  BY <2>1, <2>6, <2>7, <2>9
<1>10. queueBar' = [queueBar EXCEPT ![e] = Tail(@)] /\ queueBar[e] = QueueOf(e)
  <2>1. \A x \in Encoders : x # e => QueueOf(x)' = QueueOf(x)
    <3>1. ASSUME NEW x \in Encoders, x # e
          PROVE  /\ ring'[x] = ring[x] /\ slaveCur'[x] = slaveCur[x]
                 /\ masterRead'[x] = masterRead[x] /\ exHeld'[x] = exHeld[x]
      BY <1>4, <3>1 DEF IInv, TypeOK, ExchangerType
    <3>. QED  BY <3>1, QueueKept
  <2>2. queueBar = [x \in Encoders |-> QueueOf(x)] /\ queueBar' = [x \in Encoders |-> QueueOf(x)']
    BY DEF queueBar, QueueOf
  <2>. QED  BY <1>2, <1>9, <2>1, <2>2
<1>11. inUseBar = {} /\ inUseBar' = {f}
  <2>1. frm[Loop] = NoFrame /\ frm'[Loop] = f
    BY <1>2, <1>4 DEF IInv, Positions, TypeOK, ThreadType, Threads
  <2>. QED  BY <1>3, <2>1 DEF inUseBar
<1>12. inHandBar' = inHandBar /\ freeBar' = freeBar
  <2>1. \A x \in Encoders : frm'[x] = frm[x]
    BY <1>4, ExchangerAssumption DEF IInv, TypeOK, ThreadType, Threads
  <2>. QED  BY <1>4, <2>1 DEF inHandBar, freeBar, InHeap
<1>. QED  BY <1>1, <1>9, <1>10, <1>11, <1>12 DEF Channel!Receive

\* Every step is a step of the channel, or none.
LEMMA StepRefines == ASSUME IInv, [Next]_vars PROVE [Channel!ChNext]_(Channel!chVars)
<1>1. ASSUME NEW e \in Encoders, EncoderStep(e) PROVE [Channel!ChNext]_(Channel!chVars)
  <2>1. CASE CheckRunning(e) \/ GiveUp(e) \/ DeliverFull(e)
    BY <2>1, NoMove DEF CheckRunning, GiveUp, DeliverFull, heapVars, exVars
  <2>2. CASE NewFrame(e)
    BY <2>2, NewFrameRefines DEF Channel!ChNext
  <2>3. CASE DeliverStore(e)
    BY <2>3, DeliverStoreRefines DEF Channel!ChNext
  <2>4. CASE DeliverAdvance(e)
    BY <2>4, DeliverAdvanceRefines
  <2>5. CASE EncoderUnref(e)
    <3>1. frm[e] \in Frames /\ ref[frm[e]] = 1
      BY <2>5 DEF EncoderUnref, IInv, Positions, RefCountsOwners, Threads
    <3>2. ~(ref[frm[e]] - 1 > 0)
      BY <3>1
    <3>3. frm' = frm
      BY <2>5, <3>2 DEF EncoderUnref, IInv, TypeOK, ThreadType
    <3>. QED  BY <2>5, <3>3, NoMove DEF EncoderUnref, heapVars, exVars
  <2>6. CASE EncoderPut(e)
    BY <2>6, EncoderPutRefines DEF Channel!ChNext
  <2>. QED  BY <1>1, <2>1, <2>2, <2>3, <2>4, <2>5, <2>6 DEF EncoderStep
<1>2. ASSUME LoopStep PROVE [Channel!ChNext]_(Channel!chVars)
  <2>1. CASE Select \/ ProcessFrame \/ UnrefForDest
    BY <2>1, NoMove DEF Select, ProcessFrame, UnrefForDest, heapVars, exVars
  <2>2. CASE TakeFrame
    <3>1. cur \in Encoders
      BY DEF IInv, TypeOK, ThreadType
    <3>. QED  BY <2>2, <3>1, TakeFrameRefines DEF Channel!ChNext
  <2>3. CASE UnrefDelivered
    <3>1. frm[Loop] \in Frames /\ ref[frm[Loop]] = 1
      BY <2>3 DEF UnrefDelivered, IInv, Positions, RefCountsOwners, Threads
    <3>2. ~(ref[frm[Loop]] - 1 > 0)
      BY <3>1
    <3>3. frm' = frm
      BY <2>3, <3>2 DEF UnrefDelivered, IInv, TypeOK, ThreadType
    <3>. QED  BY <2>3, <3>3, NoMove DEF UnrefDelivered, heapVars, exVars
  <2>4. CASE LoopPut
    BY <2>4, LoopPutRefines DEF Channel!ChNext
  <2>5. ASSUME NEW e \in Encoders, ReadByte(e) PROVE [Channel!ChNext]_(Channel!chVars)
    BY <2>5, NoMove DEF ReadByte, heapVars
  <2>6. ASSUME NEW d \in Dests, SkipDest(d) \/ RefForDest(d)
        PROVE  [Channel!ChNext]_(Channel!chVars)
    BY <2>6, NoMove DEF SkipDest, RefForDest, heapVars, exVars
  <2>. QED  BY <1>2, <2>1, <2>2, <2>3, <2>4, <2>5, <2>6 DEF LoopStep
<1>3. CASE HandleRequest
  BY <1>3, NoMove DEF HandleRequest, heapVars, exVars
<1>4. CASE UNCHANGED vars
  BY <1>4, NoMove DEF vars
<1>. QED  BY <1>1, <1>2, <1>3, <1>4 DEF Next

LEMMA InitRefines == ASSUME Init PROVE Channel!ChInit
<1>. USE DEF Init
<1>1. freeBar = Frames
  BY DEF freeBar, InHeap
<1>2. inHandBar = [e \in Encoders |-> {}] /\ inUseBar = {}
  BY DEF inHandBar, inUseBar, Threads
<1>3. ASSUME NEW e \in Encoders PROVE QueueOf(e) = << >>
  <2>1. QueueLen(e) = 0
    BY DEF QueueLen
  <2>2. QueueOf(e) \in Seq(Frames) /\ Len(QueueOf(e)) = 0
    BY <2>1, InitInv, QueueForm
  <2>. QED  BY <2>2, EmptySeq
<1>4. queueBar = [e \in Encoders |-> << >>]
  <2>1. queueBar = [e \in Encoders |-> QueueOf(e)]
    BY DEF queueBar, QueueOf
  <2>. QED  BY <1>3, <2>1
<1>. QED  BY <1>1, <1>2, <1>4 DEF Channel!ChInit

\* For any number of frames, encoders and slots, the rings, pipes, mutexes and
\* reference counts of frame.c implement a pool of frames and one FIFO of
\* slots - 1 frames per encoder.
THEOREM Refinement == Spec => ImplementsChannel
<1>1. Init => Channel!ChInit
  BY InitRefines
<1>2. IInv /\ [Next]_vars => [Channel!ChNext]_(Channel!chVars)
  BY StepRefines
<1>. QED  BY <1>1, <1>2, Invariance, PTL DEF Spec, ImplementsChannel, Channel!ChSpec
=============================================================================
