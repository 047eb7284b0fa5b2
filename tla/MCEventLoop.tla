---------------------------- MODULE MCEventLoop -----------------------------
(***************************************************************************)
(* One timer, three descriptor events and two descriptors, so that a       *)
(* descriptor is closed and opened again under another event while the     *)
(* loop still holds an old answer of select().                             *)
(***************************************************************************)
EXTENDS EventLoop, TLC

FdSymmetry == Permutations(Fds) \cup Permutations(FdEvents)
=============================================================================
