---------------------------- MODULE FrameChannel ----------------------------
(***************************************************************************)
(* What the frame heap and the exchangers of frame.c promise their users,  *)
(* without rings, pipes, mutexes or reference counts.  A frame is in       *)
(* exactly one place: free, in the hand of the encoder that allocated it,  *)
(* queued for the event loop, or in use by the event loop.  Each queue is  *)
(* a FIFO of bounded length; a frame that meets a full queue goes straight *)
(* back to the free set.                                                   *)
(***************************************************************************)
EXTENDS Naturals, Sequences

CONSTANTS Frames,      \* the frames malloc'ed by init_frame_heap
          Encoders,    \* one producer thread per encoder
          Capacity     \* Capacity[e]: how many frames may wait in e's queue

VARIABLES free,        \* frames that new_frame may hand out
          inHand,      \* inHand[e]: the frame encoder e is filling, as a set
          queue,       \* queue[e]: frames delivered and not yet picked up
          inUse        \* the frame the event loop is distributing, as a set

chVars == <<free, inHand, queue, inUse>>

ChInit == /\ free = Frames
          /\ inHand = [e \in Encoders |-> {}]
          /\ queue = [e \in Encoders |-> << >>]
          /\ inUse = {}

Alloc(e) == /\ inHand[e] = {}
            /\ \E f \in free : /\ free' = free \ {f}
                               /\ inHand' = [inHand EXCEPT ![e] = {f}]
            /\ UNCHANGED <<queue, inUse>>

Send(e) == /\ Len(queue[e]) < Capacity[e]
           /\ \E f \in inHand[e] :
                /\ queue' = [queue EXCEPT ![e] = Append(@, f)]
                /\ inHand' = [inHand EXCEPT ![e] = @ \ {f}]
           /\ UNCHANGED <<free, inUse>>

Discard(e) == /\ \E f \in inHand[e] : /\ free' = free \cup {f}
                                      /\ inHand' = [inHand EXCEPT ![e] = @ \ {f}]
              /\ UNCHANGED <<queue, inUse>>

Receive(e) == /\ inUse = {}
              /\ queue[e] # << >>
              /\ inUse' = {Head(queue[e])}
              /\ queue' = [queue EXCEPT ![e] = Tail(@)]
              /\ UNCHANGED <<free, inHand>>

Release == /\ inUse # {}
           /\ free' = free \cup inUse
           /\ inUse' = {}
           /\ UNCHANGED <<inHand, queue>>

ChNext == \/ \E e \in Encoders : Alloc(e) \/ Send(e) \/ Discard(e) \/ Receive(e)
          \/ Release

ChSpec == ChInit /\ [][ChNext]_chVars
=============================================================================
