------------------------------- MODULE Roster -------------------------------
(***************************************************************************)
(* Who is in the room: the memberships and what services.py announces of   *)
(* them, the presence consumers of the members' tabs (consumers.py), and   *)
(* the roster that room pages keep from snapshots and events (room.js).    *)
(* Membership says which requests are allowed, Presence which sockets stay *)
(* open; here every request about somebody who has a row may run, and any  *)
(* number of them overlap.                                                 *)
(***************************************************************************)
EXTENDS Naturals, Sequences, FiniteSets

CONSTANTS
  Folk,                 \* members who come and go
  RosterReqs,           \* requests about one member that may run at a time
  RoomTabs, TabFolk,    \* their tabs
  Viewers, Hosts,       \* pages that show the roster; those of hosts
  RosterPlans           \* bounds on a behaviour, see rosterLeft

ASSUME RosterAssumption ==
  /\ TabFolk \in [RoomTabs -> Folk]
  /\ Hosts \subseteq Viewers
  /\ RosterPlans \subseteq [requests : SUBSET {"join", "wait", "approve", "deny", "remove", "mute"},
                            count : Nat, connects : Nat, news : Nat, drops : Nat,
                            pages : SUBSET Viewers]

VARIABLES
  member,      \* [Folk -> ClassroomMember row]
  request,     \* [Folk -> [RosterReqs -> request about the member in progress, "none"]]
  consumer,    \* [RoomTabs -> presence consumer]
  doomed,      \* tabs whose consumer has been told to close
  viewer,      \* [Viewers -> the page, see ViewerPage]
  rosterLeft,  \* requests, connections, messages and lost sockets still to come
  twofold,     \* history: members one of whose two tabs closed
  ghost,       \* history: members told of when they were not, or no longer, in the room,
               \* or denied when they were in it, until everybody is told that they left
  survivor,    \* history: tabs whose consumer the notification of a removal did not reach,
               \* or that a denial found in the room
  missed       \* history: page and member, read before a join told earlier was committed

rosterVars == <<member, request, consumer, doomed, viewer, rosterLeft, twofold, ghost,
                survivor, missed>>

Standing == {"absent", "waiting", "active", "inactive"}
RosterRow    == {"none", "waiting", "room"}
Told     == {"user_joined", "user_left", "media_state", "waiting_room_entry", "waiting_room_approved",
             "waiting_room_denied", "participant_removed", "participant_muted"}

ViewerPage == [
  conn  : {"off", "joining", "on"},
  inbox : Seq([type : Told, of : Folk]),
  rows  : [Folk -> RosterRow]]

OnTabs(m) == {t \in RoomTabs : TabFolk[t] = m /\ consumer[t] # "off"}

Tell(type, m) ==
  viewer' = [v \in Viewers |->
    IF viewer[v].conn = "off" THEN viewer[v]
    ELSE [viewer[v] EXCEPT !.inbox = Append(@, [type |-> type, of |-> m])]]

-----------------------------------------------------------------------------
(* Requests: the row is written, then the event is sent; a join announces  *)
(* inside its transaction and becomes visible after.  _target_member asks  *)
(* for a row only: the member may be waiting, in the room or gone.         *)

RosterOps == {"join", "wait", "approve", "deny", "remove", "mute"}
Pending(m, op) == \E q \in RosterReqs : request[m][q] = op

Begin(op, m, q) ==
  /\ op \in rosterLeft.requests /\ rosterLeft.count > 0
  /\ request[m][q] = "none"
  /\ rosterLeft' = [rosterLeft EXCEPT !.count = @ - 1]
  /\ request' = [request EXCEPT ![m][q] = op]

Finish(op, m, q) ==
  /\ request[m][q] = op
  /\ request' = [request EXCEPT ![m][q] = "none"]
  /\ UNCHANGED <<consumer, rosterLeft, twofold, missed>>

\* The row is new: a second join waits for the first one's transaction and fails.
JoinTold(op, m, q) ==
  /\ Begin(op, m, q)
  /\ op \in {"join", "wait"} /\ member[m] = "absent"
  /\ ~Pending(m, "join") /\ ~Pending(m, "wait")
  /\ Tell(IF op = "wait" THEN "waiting_room_entry" ELSE "user_joined", m)
  /\ UNCHANGED <<member, consumer, doomed, twofold, ghost, survivor, missed>>

join_classroom(op, m, q) ==
  /\ op \in {"join", "wait"} /\ Finish(op, m, q)
  /\ member' = [member EXCEPT ![m] = IF op = "wait" THEN "waiting" ELSE "active"]
  /\ UNCHANGED <<doomed, viewer, ghost, survivor>>

\* A member who returns is active again, and nobody is told.
Rejoin(m) ==
  /\ "join" \in rosterLeft.requests /\ rosterLeft.count > 0
  /\ member[m] = "inactive"
  /\ rosterLeft' = [rosterLeft EXCEPT !.count = @ - 1]
  /\ member' = [member EXCEPT ![m] = "active"]
  /\ UNCHANGED <<request, consumer, doomed, viewer, twofold, ghost, survivor, missed>>

\* What a request writes: in_waiting_room alone, is_active as well, or neither.
SavedAs(op, standing) ==
  IF op \in {"deny", "remove"} THEN "inactive"
  ELSE IF op = "approve" /\ standing = "waiting" THEN "active"
  ELSE standing

\* deny_waiting_room takes any member, and only hosts drop the row of one denied.
Saved(op, m, q) ==
  /\ Begin(op, m, q)
  /\ op \in {"approve", "deny", "remove", "mute"} /\ member[m] # "absent"
  /\ member' = [member EXCEPT ![m] = SavedAs(op, @)]
  /\ ghost' = ghost \cup {n \in {m} : op = "deny" /\ member[n] = "active"}
  /\ UNCHANGED <<consumer, doomed, viewer, twofold, survivor, missed>>

\* A payload that makes a row, of somebody for whom there is none.
RowAppears(m) == ghost' = ghost \cup {n \in {m} : member[n] # "active"}

approve_waiting_room(m, q) ==
  /\ Finish("approve", m, q)
  /\ Tell("waiting_room_approved", m)
  /\ RowAppears(m)
  /\ UNCHANGED <<member, doomed, survivor>>

\* (mutant: only the member is told)
DenyQuietly(m, q) ==
  /\ Finish("deny", m, q)
  /\ UNCHANGED <<member, doomed, viewer, ghost, survivor>>

\* Nobody closes the sockets of a member denied when already in the room.
deny_waiting_room(m, q) ==
  /\ Finish("deny", m, q)
  /\ Tell("waiting_room_denied", m)
  /\ survivor' = survivor \cup
       {t \in OnTabs(m) : member[m] # "active" \/ consumer[t] \in {"on", "telling"}}
  /\ UNCHANGED <<member, doomed, ghost>>

\* remove_member, or the member leaves (deactivate_member): the notification closes the
\* tabs that are in the member's own group.
remove_member(m, q) ==
  /\ Finish("remove", m, q)
  /\ Tell("participant_removed", m)
  /\ doomed' = doomed \cup {t \in OnTabs(m) : consumer[t] # "loaded"}
  /\ survivor' = survivor \cup {t \in OnTabs(m) : consumer[t] = "loaded"}
  /\ ghost' = ghost \ {m}
  /\ UNCHANGED member

\* set_member_muted stands for the host actions that tell of a member's new rights.
set_member_muted(m, q) ==
  /\ Finish("mute", m, q)
  /\ Tell("participant_muted", m)
  /\ RowAppears(m)
  /\ UNCHANGED <<member, doomed, survivor>>

-----------------------------------------------------------------------------
(* Presence consumers of admitted members.  A consumer handles one thing   *)
(* after the other: told to close, it ends what it is doing first.         *)

ConsumerLoads(t) ==
  /\ consumer[t] = "off" /\ member[TabFolk[t]] = "active"
  /\ rosterLeft.connects > 0
  /\ rosterLeft' = [rosterLeft EXCEPT !.connects = @ - 1]
  /\ consumer' = [consumer EXCEPT ![t] = "loaded"]
  /\ UNCHANGED <<member, request, doomed, viewer, twofold, ghost, survivor, missed>>

ConsumerJoins(t) ==
  /\ consumer[t] = "loaded"
  /\ consumer' = [consumer EXCEPT ![t] = "joined"]
  /\ UNCHANGED <<member, request, doomed, viewer, rosterLeft, twofold, ghost, survivor, missed>>

connect(t) ==
  /\ consumer[t] = "joined"
  /\ Tell("user_joined", TabFolk[t])
  /\ consumer' = [consumer EXCEPT ![t] = "on"]
  /\ UNCHANGED <<member, request, doomed, rosterLeft, twofold, ghost, survivor, missed>>

\* receive_json, of a member who is active now; the payload goes out after an await.
ConsumerHears(t) ==
  /\ consumer[t] = "on" /\ member[TabFolk[t]] = "active"
  /\ rosterLeft.news > 0
  /\ rosterLeft' = [rosterLeft EXCEPT !.news = @ - 1]
  /\ consumer' = [consumer EXCEPT ![t] = "telling"]
  /\ UNCHANGED <<member, request, doomed, viewer, twofold, ghost, survivor, missed>>

receive_json(t) ==
  /\ consumer[t] = "telling"
  /\ Tell("media_state", TabFolk[t])
  /\ consumer' = [consumer EXCEPT ![t] = "on"]
  /\ UNCHANGED <<member, request, doomed, rosterLeft, twofold, ghost, survivor, missed>>

\* The server closes the socket, or the tab goes.
disconnect(t) ==
  /\ consumer[t] = "on"
  /\ t \notin doomed => rosterLeft.drops > 0
  /\ rosterLeft' = [rosterLeft EXCEPT !.drops = IF t \in doomed THEN @ ELSE @ - 1]
  /\ Tell("user_left", TabFolk[t])
  /\ consumer' = [consumer EXCEPT ![t] = "off"]
  /\ doomed' = doomed \ {t}
  /\ survivor' = survivor \ {t}
  /\ twofold' = twofold \cup (IF OnTabs(TabFolk[t]) # {t} THEN {TabFolk[t]} ELSE {})
  /\ ghost' = ghost \ {TabFolk[t]}
  /\ UNCHANGED <<member, request, missed>>

-----------------------------------------------------------------------------
(* The pages.                                                              *)

\* In the group, not yet given the roster; what was on its way to the lost socket is lost.
ViewerJoins(v) ==
  /\ v \in rosterLeft.pages
  /\ viewer[v].conn = "off" \/ (viewer[v].conn = "on" /\ rosterLeft.drops > 0)
  /\ rosterLeft' = [rosterLeft EXCEPT !.drops = IF viewer[v].conn = "on" THEN @ - 1 ELSE @]
  /\ viewer' = [viewer EXCEPT ![v] = [conn |-> "joining", inbox |-> <<>>, rows |-> viewer[v].rows]]
  /\ UNCHANGED <<member, request, consumer, doomed, twofold, ghost, survivor, missed>>

\* participant_list: every active member, those in the waiting room for hosts only.
participant_list(v, m) ==
  IF member[m] = "active" THEN "room"
  ELSE IF member[m] = "waiting" /\ v \in Hosts THEN "waiting"
  ELSE "none"

_snapshot(v) ==
  /\ viewer[v].conn = "joining"
  /\ viewer' = [viewer EXCEPT ![v] =
       [conn |-> "on", inbox |-> viewer[v].inbox, rows |-> [m \in Folk |-> participant_list(v, m)]]]
  /\ missed' = missed \cup {<<v, m>> : m \in {n \in Folk : Pending(n, "wait")}}
  /\ UNCHANGED <<member, request, consumer, doomed, rosterLeft, twofold, ghost, survivor>>

\* What an event makes of the row of its member; upsert keeps what it does not name.
RowAfter(e, row, isHost) ==
  IF e.type \in {"user_left", "participant_removed"} THEN "none"
  ELSE IF e.type \in {"user_joined", "media_state"} THEN "room"
  ELSE IF e.type = "participant_muted" THEN (IF row = "none" THEN "room" ELSE row)
  ELSE IF ~isHost THEN row
  ELSE IF e.type = "waiting_room_denied" THEN "none"
  ELSE IF e.type = "waiting_room_entry" THEN "waiting"
  ELSE "room"

handleEvent(v) ==
  LET e == Head(viewer[v].inbox) IN
  /\ viewer[v].conn = "on" /\ viewer[v].inbox # <<>>
  /\ viewer' = [viewer EXCEPT ![v] =
       [conn |-> "on", inbox |-> Tail(viewer[v].inbox),
        rows |-> [viewer[v].rows EXCEPT ![e.of] = RowAfter(e, @, v \in Hosts)]]]
  /\ UNCHANGED <<member, request, consumer, doomed, rosterLeft, twofold, ghost, survivor, missed>>

-----------------------------------------------------------------------------
RosterInit ==
  /\ member = [m \in Folk |-> "absent"]
  /\ request = [m \in Folk |-> [q \in RosterReqs |-> "none"]]
  /\ consumer = [t \in RoomTabs |-> "off"]
  /\ doomed = {}
  /\ viewer = [v \in Viewers |->
       [conn |-> "off", inbox |-> <<>>, rows |-> [m \in Folk |-> "none"]]]
  /\ rosterLeft \in RosterPlans
  /\ twofold = {} /\ ghost = {} /\ survivor = {} /\ missed = {}

RosterNext ==
  \/ \E m \in Folk, q \in RosterReqs :
       \/ \E op \in {"join", "wait"} : JoinTold(op, m, q) \/ join_classroom(op, m, q)
       \/ \E op \in {"approve", "deny", "remove", "mute"} : Saved(op, m, q)
       \/ approve_waiting_room(m, q) \/ deny_waiting_room(m, q)
       \/ remove_member(m, q) \/ set_member_muted(m, q)
  \/ \E m \in Folk : Rejoin(m)
  \/ \E t \in RoomTabs :
       \/ ConsumerLoads(t) \/ ConsumerJoins(t) \/ connect(t)
       \/ ConsumerHears(t) \/ receive_json(t) \/ disconnect(t)
  \/ \E v \in Viewers : ViewerJoins(v) \/ _snapshot(v) \/ handleEvent(v)

RosterSpec == RosterInit /\ [][RosterNext]_rosterVars

-----------------------------------------------------------------------------
(* Properties.                                                             *)

RosterTypeOK ==
  /\ member \in [Folk -> Standing]
  /\ request \in [Folk -> [RosterReqs -> RosterOps \cup {"none"}]]
  /\ consumer \in [RoomTabs -> {"off", "loaded", "joined", "on", "telling"}]
  /\ doomed \subseteq RoomTabs
  /\ viewer \in [Viewers -> ViewerPage]
  /\ twofold \subseteq Folk /\ ghost \subseteq Folk /\ survivor \subseteq RoomTabs

\* A tab in the room that the server does not mean to close.
InTheRoom(m) == \E t \in OnTabs(m) \ (doomed \cup survivor) : consumer[t] \in {"on", "telling"}

\* A page that has handled everything shows whoever is connected, lists for hosts
\* whoever waits, and shows nobody who is not a member and has no socket left, however
\* joins, overlapping requests of several hosts, connections, late messages and
\* reconnections of the page crossed.  Excepted are members with two tabs one of which
\* closed; a row that an event brought of somebody who was not in the room, or that a
\* denial of somebody who was in it left, until the next event that they left; sockets
\* that a removal did not reach or a denial crossed; and an entry that the page's
\* snapshot was read too early to hold.
RosterIsRight ==
  \A v \in Viewers, m \in Folk :
    /\ viewer[v].conn = "on" /\ viewer[v].inbox = <<>> /\ m \notin twofold
    /\ \A q \in RosterReqs : request[m][q] = "none"
    =>
      LET shown == viewer[v].rows[m]
          gone  == OnTabs(m) = {}
      IN /\ InTheRoom(m) /\ member[m] = "active" => shown = "room"
         /\ gone /\ member[m] \in {"absent", "inactive"} => shown = "none" \/ m \in ghost
         /\ gone /\ member[m] = "waiting" /\ v \in Hosts => shown = "waiting" \/ <<v, m>> \in missed
=============================================================================
