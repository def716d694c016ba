---------------------------- MODULE MCMembership ----------------------------
(* Instances of Membership for TLC: one handler serialises the requests, two
   let them overlap. *)
EXTENDS Doors, TLC

CONSTANTS owner, u1, u2, g1, g2, h1, h2, ip1

Symmetry == Permutations(User \ {Owner}) \cup Permutations(Guest) \cup Permutations(Handler)
=============================================================================
