---------------------------- MODULE MCLogHandler ----------------------------
(* Instances of LogHandler for TLC. *)
EXTENDS LogHandler

CONSTANTS g1, g2

MCLoggers == {g1, g2}
=============================================================================
