---------------------------- MODULE MCRtpPackets -----------------------------
(***************************************************************************)
(* Packets with room for a few bytes, frames of up to three packets, and   *)
(* sequence numbers that wrap within two frames.                           *)
(***************************************************************************)
EXTENDS RtpPackets
MCLengths == 1 .. 12

\* Whole images without and with a restart interval; the header before its
\* tables, or without them, unsupported ones, a broken one, and one without a scan.
MCImages == {<<"soi", "dqt", "sof", "dht", "sos">>,
             <<"soi", "dqt", "dri", "sof", "dht", "sos">>,
             <<"soi", "sof", "dqt", "dht", "sos">>,
             <<"soi", "sof", "dht", "sos">>,
             <<"soi", "dqt", "dri", "sof2", "sos">>,
             <<"soi", "dqt16", "sof", "sos">>,
             <<"soi", "dqt", "sof", "junk">>,
             <<"soi", "dqt", "sof", "dht">>}
=============================================================================
