--------------------------- MODULE MCTokenClient ---------------------------
(* TokenClient with two threads and delays the margin is meant for. *)
EXTENDS TokenClient

MCThread == {"t1", "t2"}

ASSUME DelaysFitMargin == MarginSuffices
=============================================================================
