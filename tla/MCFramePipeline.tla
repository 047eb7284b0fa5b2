-------------------------- MODULE MCFramePipeline ---------------------------
(***************************************************************************)
(* Two encoders share two frames, so the heap runs dry.  The audio ring    *)
(* holds one frame and fills up; the video ring holds two, so that their   *)
(* order matters.  The video stream has two destinations, audio has one.   *)
(* The invariants are proved for any number of frames and slots            *)
(* (FramePipelineProofs); fairness leaves no room for symmetry.            *)
(***************************************************************************)
EXTENDS FramePipeline, TLC

CONSTANTS f1, f2, jpeg, alaw, v1, v2, a1

MCSlots == (jpeg :> 3) @@ (alaw :> 2)
MCSource == [d \in Dests |-> IF d = a1 THEN alaw ELSE jpeg]
=============================================================================
