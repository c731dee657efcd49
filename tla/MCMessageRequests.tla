------------------------- MODULE MCMessageRequests -------------------------
(* Two threads and two rows: a batch of both, or one row each.             *)
EXTENDS MessageRequests
=============================================================================
