----------------------------- MODULE MCClosing -----------------------------
(* Two handlers: requests overlap, the end of the classroom among them. *)
EXTENDS Closing, TLC

CONSTANTS owner, u1, u2, g1, g2, h1, h2, ip1

Symmetry == Permutations(User \ {Owner}) \cup Permutations(Guest) \cup Permutations(Handler)
=============================================================================
