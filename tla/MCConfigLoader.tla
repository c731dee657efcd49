--------------------------- MODULE MCConfigLoader ---------------------------
(* Two contents of every file, alternating, and one store or the other.    *)
EXTENDS ConfigLoader

MCAskedFor == {{"global_params"}, {"opkey"}}
=============================================================================
