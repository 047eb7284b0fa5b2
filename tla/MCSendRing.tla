------------------------------ MODULE MCSendRing -----------------------------
(***************************************************************************)
(* A ring of a few bytes, with messages that fit it once or twice, so that *)
(* every position of the wrap, the full ring and refused messages occur.   *)
(***************************************************************************)
EXTENDS SendRing
=============================================================================
