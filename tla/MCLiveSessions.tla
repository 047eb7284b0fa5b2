--------------------------- MODULE MCLiveSessions ---------------------------
(***************************************************************************)
(* Two session objects, two tracks, and a connection with four interleaved *)
(* channels, so that two endpoints fill its table; a session can have one  *)
(* track on the connection and one on UDP.                                 *)
(***************************************************************************)
EXTENDS LiveSessions
=============================================================================
