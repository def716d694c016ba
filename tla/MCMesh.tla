------------------------------- MODULE MCMesh -------------------------------
(* Model values for the mesh: what is added, broken, retried and lost.      *)
EXTENDS Mesh, TLC

Uses(lowCam, lowScreen, highCam, highScreen, timed, drops, retries, losses) ==
  [adds |-> (Lower :> ("cam" :> lowCam @@ "screen" :> lowScreen)
             @@ Higher :> ("cam" :> highCam @@ "screen" :> highScreen)),
   timed |-> timed, drops |-> drops, retries |-> retries, losses |-> losses,
   cuts |-> (Lower :> 0 @@ Higher :> 0)]

\* The presence socket of p goes down.
Cut(p, plan) == [plan EXCEPT !.cuts[p] = 1]

MCMeshPlans == {
  \* offers collide
  Uses(1, 0, 1, 0, FALSE, 0, 0, 0),
  Uses(2, 0, 2, 0, FALSE, 0, 0, 1),
  \* camera and screen are negotiated at the same time
  Uses(1, 0, 0, 1, FALSE, 0, 0, 0),
  \* the connection breaks, a signal is lost, the user tries again
  Uses(0, 0, 0, 0, TRUE, 1, 0, 0),
  Uses(0, 0, 0, 0, TRUE, 0, 0, 1),
  Uses(0, 0, 0, 0, TRUE, 0, 1, 0),
  \* a presence socket goes down: with nothing to add, of the one who
  \* shares a screen, and with timers
  Cut(Lower, Uses(0, 0, 0, 0, FALSE, 0, 0, 0)),
  Cut(Lower, Uses(0, 1, 0, 0, FALSE, 0, 0, 0)),
  Cut(Higher, Uses(0, 0, 0, 0, TRUE, 0, 0, 0)) }
=============================================================================
