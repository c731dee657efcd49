---------------------------- MODULE MCApnProfile ----------------------------
(* Small instances of ApnProfile for TLC.                                  *)
EXTENDS ApnProfile, TLC

ThreadSymmetry == Permutations(Threads)
=============================================================================
