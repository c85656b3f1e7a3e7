---------------------------- MODULE MCExl3Server ----------------------------
(* The server with two or three completions and one probe.                   *)
EXTENDS Exl3Server

CONSTANTS c1, c2, c3, p1
=============================================================================
