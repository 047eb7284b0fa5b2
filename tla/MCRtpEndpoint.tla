---------------------------- MODULE MCRtpEndpoint ----------------------------
(***************************************************************************)
(* The intervals of the code, in seconds; an int holds 30 of them instead  *)
(* of 2147, so that a fire time wraps.                                     *)
(***************************************************************************)
EXTENDS RtpEndpoint
=============================================================================
