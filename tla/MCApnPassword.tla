--------------------------- MODULE MCApnPassword ---------------------------
(* Two rows, so that one can be read beside the other, and three passwords,*)
(* one of them too long.                                                   *)
EXTENDS ApnPassword
=============================================================================
