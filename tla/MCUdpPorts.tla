----------------------------- MODULE MCUdpPorts ------------------------------
(***************************************************************************)
(* Two endpoints, and a range whose last port is even, like 50000..60000,  *)
(* so that the search meets the port that belongs to no pair.              *)
(***************************************************************************)
EXTENDS UdpPorts
=============================================================================
