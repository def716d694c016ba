--------------------------- MODULE MCWaitingRoom ---------------------------
(* One handler, so that no overlap of requests is to blame. *)
EXTENDS WaitingRoom

CONSTANTS owner, u1, u2, g1, g2, h1, h2, ip1
=============================================================================
