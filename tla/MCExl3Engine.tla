---------------------------- MODULE MCExl3Engine ----------------------------
(* Three callers of the engine, two of which stream.                         *)
EXTENDS Exl3Engine

CONSTANTS c1, c2, c3
=============================================================================
