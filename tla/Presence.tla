------------------------------ MODULE Presence ------------------------------
(***************************************************************************)
(* The sockets of ClassroomConsumer (/ws/classroom/<room_code>/) over the  *)
(* tables of module Membership: how a connection joins the channel groups, *)
(* how the events of the host actions reach it, and how losing the         *)
(* membership closes it.                                                   *)
(*                                                                         *)
(* connect() awaits between loading the membership, joining the groups and *)
(* sending the snapshot; everything else may run in between.  A consumer   *)
(* dispatches one event at a time, so group events wait in the channel     *)
(* until connect() has returned.  Of the events only those matter here     *)
(* that close a socket or name somebody who waits; a channel is the set of *)
(* those not dispatched yet.                                               *)
(***************************************************************************)
EXTENDS Membership

CONSTANTS
  Sock,       \* browser tabs
  Visitor     \* bound: the members who open the classroom in a tab

ASSUME VisitorAssumption == Visitor \subseteq Member

VARIABLES
  conn,    \* [Sock -> the consumer instance of the tab]
  inbox    \* [Sock -> the group messages in its channel]

presenceVars == <<vars, conn, inbox>>

(***************************************************************************)
(* `waiting' is self.waiting, cached by connect().  `missed' is history:   *)
(* the consumer had loaded a membership that was being revoked, and was in *)
(* no group yet when the revocation was published.                         *)
(***************************************************************************)
Consumer == [st      : {"off", "loaded", "grouped", "open", "closing"},
             who     : Member,
             waiting : BOOLEAN,
             missed  : BOOLEAN]

\* (mutant: the instance of a new connection has no member to speak of)
OffUnbound == [st |-> "off", who |-> NoIp, waiting |-> FALSE, missed |-> FALSE]

Off == [st |-> "off", who |-> Owner, waiting |-> FALSE, missed |-> FALSE]

Message == [kind : {"revoked", "ended", "entry"}, about : Member]

InMemberGroup(s, m) == conn[s].st \in {"grouped", "open", "closing"} /\ conn[s].who = m

InRoomGroup(s) == conn[s].st \in {"grouped", "open", "closing"} /\ ~conn[s].waiting

-----------------------------------------------------------------------------
(* connect().                                                              *)

\* _load_membership: the classroom and the active membership behind the scope.
Load(s, m) ==
  /\ conn[s].st = "off"
  /\ room.active
  /\ Active(m)
  /\ conn' = [conn EXCEPT ![s] =
       [st |-> "loaded", who |-> m, waiting |-> row[m].waiting,
        missed |-> \E h \in Ending : m \in req[h].ids]]
  /\ UNCHANGED <<vars, inbox>>

\* group_add of the room group (admitted members) and of the member's own, then
\* accept(); a waiting member's connect() ends here.
\* (mutant: the waiting flag is only looked at after joining the room group)
JoinGroupsUnrestricted(s) ==
  /\ conn[s].st = "loaded"
  /\ conn' = [conn EXCEPT ![s].st = "grouped", ![s].waiting = FALSE]
  /\ UNCHANGED <<vars, inbox>>

JoinGroups(s) ==
  /\ conn[s].st = "loaded"
  /\ conn' = [conn EXCEPT ![s].st = IF conn[s].waiting THEN "open" ELSE "grouped"]
  /\ UNCHANGED <<vars, inbox>>

\* Attendance, the participant_list snapshot and the user_joined broadcast.
Snapshot(s) ==
  /\ conn[s].st = "grouped"
  /\ conn' = [conn EXCEPT ![s].st = "open"]
  /\ UNCHANGED <<vars, inbox>>

-----------------------------------------------------------------------------
(* Events.                                                                 *)

RevokingOps == {"deactivate_member", "remove_member", "deny_waiting_room"}

\* (mutant: a denied member is sent no closing event)
RevokedButDenied(r) ==
  IF r.op \in RevokingOps \ {"deny_waiting_room"} THEN {r.target}
  ELSE IF r.op = "deactivate_classroom" THEN r.ids ELSE {}

\* Whose notification group request r sends an event that closes sockets.
Revoked(r) ==
  IF r.op \in RevokingOps THEN {r.target}
  ELSE IF r.op = "deactivate_classroom" THEN r.ids ELSE {}

\* What announcing request r puts into the channel of tab s.
Sent(r, s) ==
  { msg \in Message :
      \/ /\ msg.kind = "revoked"
         /\ msg.about \in Revoked(r)
         /\ InMemberGroup(s, msg.about)
      \/ /\ msg.kind = "ended"
         /\ msg.about = r.actor
         /\ r.op = "deactivate_classroom"
         /\ InRoomGroup(s)
      \/ /\ msg.kind = "entry"
         /\ msg.about = r.target
         /\ r.op = "create_member" /\ r.copy.waiting
         /\ InRoomGroup(s) }

\* An operation publishes its events: those of an atomic operation on its first
\* call of Announce, those of the others on their last.
Publish(h) ==
  /\ Announce(h)
  /\ inbox' = [s \in Sock |-> inbox[s] \cup Sent(req[h], s)]
  /\ conn' = [s \in Sock |->
       IF conn[s].st = "loaded" /\ conn[s].who \in Revoked(req[h])
         THEN [conn[s] EXCEPT !.missed = TRUE] ELSE conn[s]]

\* classroom_event and classroom_notification: relay, and close on revocation.
\* (mutant: the payload is relayed and the socket left open)
RelayOnly(s, msg) ==
  /\ conn[s].st = "open"
  /\ msg \in inbox[s]
  /\ inbox' = [inbox EXCEPT ![s] = @ \ {msg}]
  /\ UNCHANGED <<vars, conn>>

Dispatch(s, msg) ==
  /\ conn[s].st = "open"
  /\ msg \in inbox[s]
  /\ inbox' = [inbox EXCEPT ![s] = @ \ {msg}]
  /\ conn' = [conn EXCEPT ![s].st = IF msg.kind \in {"revoked", "ended"}
                                      THEN "closing" ELSE @]
  /\ UNCHANGED vars

\* disconnect(): after close(), or because the tab went away.
Disconnect(s) ==
  /\ conn[s].st \in {"open", "closing"}
  /\ conn' = [conn EXCEPT ![s] = Off]
  /\ inbox' = [inbox EXCEPT ![s] = {}]
  /\ UNCHANGED vars

-----------------------------------------------------------------------------
(* receive_json().  A waiting socket may only ping.                        *)

MayActNow(m) == Admitted(m) /\ room.active      \* _member_active_now

RaiseHand(s, h, raised) ==
  /\ conn[s].st = "open"
  /\ ~conn[s].waiting
  /\ MayActNow(conn[s].who)
  /\ set_hand_raised(h, conn[s].who, raised)
  /\ UNCHANGED <<conn, inbox>>

\* Any action of a socket whose member lost access closes it.
RefuseAction(s) ==
  /\ conn[s].st = "open"
  /\ ~conn[s].waiting
  /\ ~MayActNow(conn[s].who)
  /\ conn' = [conn EXCEPT ![s].st = "closing"]
  /\ UNCHANGED <<vars, inbox>>

-----------------------------------------------------------------------------
PresenceInit ==
  /\ Init
  /\ conn = [s \in Sock |-> Off]
  /\ inbox = [s \in Sock |-> {}]

\* The HTTP requests; set_hand_raised comes from sockets only.
HttpRequest(h) ==
  /\ \/ \E u \in User : join_classroom(h, u)
     \/ \E g \in Guest, ip \in Ip \cup {NoIp} : join_classroom_guest(h, g, ip)
     \/ \E m \in Member : deactivate_member(h, m)
     \/ HostOnMember(h)
     \/ HostOnRoom(h)
  /\ UNCHANGED <<conn, inbox>>

Table(h) == (Save(h) \/ Refused(h)) /\ UNCHANGED <<conn, inbox>>

Connecting(s) == (\E m \in Visitor : Load(s, m)) \/ JoinGroups(s) \/ Snapshot(s)

PresenceNext ==
  \/ \E h \in Handler : HttpRequest(h) \/ Table(h) \/ Publish(h)
  \/ \E m \in Member : BanExpires(m) /\ UNCHANGED <<conn, inbox>>
  \/ \E s \in Sock :
       \/ Connecting(s) \/ Disconnect(s) \/ RefuseAction(s)
       \/ \E msg \in inbox[s] : Dispatch(s, msg)
       \/ \E h \in Handler, raised \in BOOLEAN : RaiseHand(s, h, raised)

PresenceSpec == PresenceInit /\ [][PresenceNext]_presenceVars

\* Threads and event loop run on: a started request finishes, a connect()
\* returns, a queued event that closes is dispatched and a closed socket is
\* torn down.  No user has to do anything.
PresenceFairness ==
  /\ \A h \in Handler : WF_presenceVars(Table(h) \/ Publish(h))
  /\ \A s \in Sock :
       /\ WF_presenceVars(JoinGroups(s) \/ Snapshot(s))
       /\ WF_presenceVars(\E msg \in inbox[s] : Dispatch(s, msg))
       /\ WF_presenceVars(conn[s].st = "closing" /\ Disconnect(s))

FairPresenceSpec == PresenceSpec /\ PresenceFairness

-----------------------------------------------------------------------------
(* Properties.                                                             *)

PresenceTypeOK ==
  /\ TypeOK
  /\ conn \in [Sock -> Consumer]
  /\ inbox \in [Sock -> SUBSET Message]

Live(s) == conn[s].st \in {"grouped", "open"}

ClosePending(s) ==
  \/ \E msg \in inbox[s] : msg.kind \in {"revoked", "ended"}
  \/ \E h \in Handler : req[h].phase = "saved" /\ conn[s].who \in Revoked(req[h])

\* "Revoke a member's room access and close every live socket for them"
\* (deactivate_member): a socket whose member is no longer active has the event
\* that closes it in its channel or about to be sent to it - unless it was still
\* connecting, with the old membership loaded, when that event was published.
NoSilentSurvivor ==
  \A s \in Sock : Live(s) /\ ~conn[s].missed /\ ~Active(conn[s].who) => ClosePending(s)

\* A connection in the room group never belongs to somebody the host still has
\* in the waiting room, although it cached the flag when it connected.
RoomGroupIsAdmitted ==
  \A s \in Sock : InRoomGroup(s) => ~row[conn[s].who].waiting

\* A revoked socket does close, without its user doing anything, unless the
\* member is let in again meanwhile.
RevokedSocketsClose ==
  \A s \in Sock :
    (Live(s) /\ ~conn[s].missed /\ ~Active(conn[s].who)) ~>
      (~Live(s) \/ Active(conn[s].who))

\* "they see no roster and nobody sees them until admission"
\* (ClassroomConsumer.connect): no socket of an ordinary participant is sent the
\* entry of somebody in the waiting room.
WaitingIsPrivate ==
  \A s \in Sock : \A msg \in inbox[s] :
    msg.kind = "entry" => is_privileged(row[conn[s].who])
=============================================================================
