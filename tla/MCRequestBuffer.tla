--------------------------- MODULE MCRequestBuffer ---------------------------
(***************************************************************************)
(* Three sockets, so that a tunnel's POST can be replaced by another one:  *)
(* over the first come plain clients and a tunnel's GET, over the others   *)
(* the POSTs.                                                              *)
(***************************************************************************)
EXTENDS RequestBuffer

MCKinds == <<{"rtsp", "get", "packet", "bad", "long"},
             {"post", "tunnel"}, {"post", "tunnel"}>>

\* One client, plain requests.
MCPlain == <<{"rtsp"}>>
=============================================================================
