------------------------------ MODULE Closing ------------------------------
(***************************************************************************)
(* Membership with a history of who came in while the classroom was being  *)
(* ended, or later.  deactivate_classroom lists the active members, saves  *)
(* the room and then updates the rows it has listed: a row that another    *)
(* request makes active in between is in no list, and one that is written  *)
(* back by a stale instance afterwards is active again.                    *)
(***************************************************************************)
EXTENDS Membership

VARIABLE latecomers   \* active members whose row became active during the end or later

closingVars == <<vars, latecomers>>

\* A request of deactivate_classroom that has made its list and not yet committed.
EndsNow(h) == req[h].op = "deactivate_classroom" /\ req[h].phase \in {"read", "announced"}

ClosingInit == Init /\ latecomers = {}

ClosingNext ==
  /\ Next
  /\ latecomers' =
       { m \in Member :
           /\ Active(m)'
           /\ \/ m \in latecomers
              \/ ~Active(m) /\ (~room.active \/ \E h \in Handler : EndsNow(h)) }

ClosingSpec == ClosingInit /\ [][ClosingNext]_closingVars

\* "End a classroom and revoke every member's HTTP/WS access immediately"
\* (deactivate_classroom): whatever requests overlap the end, nobody keeps an active
\* membership of an ended classroom who was in it when the end began, waiting or admitted;
\* only a row that became active after the list was made is missed.
OnlyLatecomersRemain ==
  ~room.active => \A m \in Member : Active(m) => m \in latecomers
=============================================================================
