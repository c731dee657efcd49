-------------------------- MODULE MCSimDefaultCard --------------------------
(* Constants for checking SimDefaultCard with TLC.                         *)
EXTENDS SimDefaultCard

CONSTANTS c1, c2, main, voice
=============================================================================
