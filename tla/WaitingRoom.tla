----------------------------- MODULE WaitingRoom -----------------------------
(***************************************************************************)
(* Membership with a history of who has ever been let into the classroom,  *)
(* to state what the waiting room promises about people who have not.      *)
(***************************************************************************)
EXTENDS Membership

VARIABLE everAdmitted   \* members who were once active and not waiting

historyVars == <<vars, everAdmitted>>

HistoryInit == Init /\ everAdmitted = {Owner}

HistoryNext ==
  Next /\ everAdmitted' = everAdmitted \cup { m \in Member : Admitted(m)' }

HistorySpec == HistoryInit /\ [][HistoryNext]_historyVars

\* "New students go to the waiting room when the owner enabled it"
\* (join_classroom): while the waiting room is on, somebody who was never in the
\* class gets in by a host's approval and in no other way.
NewcomersAreApproved ==
  [][\A m \in Member \ everAdmitted :
       "enable_waiting_room" \in room.on /\ Admitted(m)' =>
          \E h \in Handler : /\ req[h].op = "approve_waiting_room"
                             /\ req[h].target = m]_historyVars
=============================================================================
