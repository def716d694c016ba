----------------------------- MODULE MCPresence -----------------------------
(* Small instances of Presence.  Requests are serialised (one handler) and
   interleave with the steps of the sockets. *)
EXTENDS Presence

CONSTANTS owner, u1, u2, h1, s1, s2
=============================================================================
