------------------------------ MODULE BoardLog ------------------------------
(***************************************************************************)
(* What the whiteboard promises its viewers, without sockets, channels or  *)
(* pages.  Accepted operations form a log.  A viewer who connects is given *)
(* the log as it stands; from then on it is given operations one by one,   *)
(* each one accepted, none twice and none older than one it was given      *)
(* before.  The promise is deliberately no stronger: an operation that a   *)
(* later one has overtaken may be skipped.                                 *)
(***************************************************************************)
EXTENDS Naturals

CONSTANT Viewer

VARIABLES
  size,    \* number of operations accepted so far; they are 1..size
  upto,    \* [Viewer -> the newest operation the viewer has been given]
  given    \* [Viewer -> the operations it has been given one by one]

boardLogVars == <<size, upto, given>>

BoardLogInit ==
  /\ size = 0
  /\ upto = [v \in Viewer |-> 0]
  /\ given = [v \in Viewer |-> {}]

Accept ==
  /\ size' = size + 1
  /\ UNCHANGED <<upto, given>>

\* v connects and is given a snapshot that ends with operation n, or leaves.
Restart(v, n) ==
  /\ n \in 0..size
  /\ upto' = [upto EXCEPT ![v] = n]
  /\ given' = [given EXCEPT ![v] = {}]
  /\ UNCHANGED size

Give(v, n) ==
  /\ n \in (upto[v] + 1)..size
  /\ upto' = [upto EXCEPT ![v] = n]
  /\ given' = [given EXCEPT ![v] = @ \cup {n}]
  /\ UNCHANGED size

\* v sees its own operation as soon as it is accepted and is not given it again.
AcceptOwn(v) ==
  /\ size' = size + 1
  /\ upto' = [upto EXCEPT ![v] = size + 1]
  /\ UNCHANGED given

BoardLogNext ==
  \/ Accept
  \/ \E v \in Viewer : AcceptOwn(v)
  \/ \E v \in Viewer, n \in 0..size : Restart(v, n) \/ Give(v, n)

BoardLogSpec == BoardLogInit /\ [][BoardLogNext]_boardLogVars
=============================================================================
