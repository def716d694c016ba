----------------------------- MODULE Membership -----------------------------
(***************************************************************************)
(* The Classroom row and the ClassroomMember rows of one classroom, and    *)
(* every operation of classrooms/services.py that changes them: joining,   *)
(* leaving, the host actions, the waiting room, bans, the lock, the        *)
(* settings and the end of the classroom.                                  *)
(*                                                                         *)
(* There is no ATOMIC_REQUESTS and no row lock in this code: an operation  *)
(* reads the rows it needs, checks them, changes the instances it read and *)
(* saves some of their columns later, then publishes events.  Each         *)
(* operation is therefore three steps of a request handler h:              *)
(*    the read  (an action named after the operation: its checks and the   *)
(*               assignments to the instance, kept in req[h]);             *)
(*    Save(h)     (the columns of update_fields, or all of them);          *)
(*    Announce(h) (notify_member and broadcast; module Presence says to    *)
(*               whom).                                                    *)
(* The joins and deactivate_classroom are @transaction.atomic and publish  *)
(* inside the transaction: they announce first and become visible after.   *)
(* With one handler the operations are serialised; with two they overlap.  *)
(***************************************************************************)
EXTENDS Permissions

CONSTANTS
  User,         \* registered users
  Guest,        \* pool of guest rows: one per guest join, never reused
  Owner,        \* the user who created the classroom
  Handler,      \* request handlers that may run at the same time
  Ip, NoIp,     \* guest_ip values; NoIp is NULL
  Ops,          \* bound: the operations this instance exercises
  Grantable,    \* bound: the capabilities host requests name
  Assignable,   \* bound: the roles host requests name
  Toggled       \* bound: the settings host requests name

Member == User \cup Guest

ASSUME OwnerAssumption == Owner \in User
ASSUME GuestAssumption == User \cap Guest = {}
ASSUME IpAssumption == NoIp \notin Ip
ASSUME BoundAssumption ==
  /\ Grantable \subseteq Capability
  /\ Assignable \subseteq Role \ {"OWNER"}
  /\ Toggled \subseteq SETTING_FIELDS

VARIABLES
  room,   \* the Classroom row
  row,    \* [Member -> ClassroomMember row]
  req     \* [Handler -> the request it is serving]

vars == <<room, row, req>>

Room == [active : BOOLEAN, locked : BOOLEAN, on : SUBSET SETTING_FIELDS]

Row == [known   : BOOLEAN,            \* the row exists
        role    : Role,
        active  : BOOLEAN,            \* is_active
        waiting : BOOLEAN,            \* in_waiting_room
        banned  : BOOLEAN,            \* banned_until is in the future
        muted   : BOOLEAN,
        hand    : BOOLEAN,            \* hand_raised_at is set
        caps    : SUBSET Capability,  \* the can_* columns
        ip      : Ip \cup {NoIp}]

NoRow == [known |-> FALSE, role |-> "STUDENT", active |-> FALSE,
          waiting |-> FALSE, banned |-> FALSE, muted |-> FALSE,
          hand |-> FALSE, caps |-> {}, ip |-> NoIp]

\* ClassroomMember.save() of a row being added applies the role's defaults.
\* (mutant: the role column is given the choice's label, not its value)
NewRowLabelled(role, waits, ip) ==
  [NoRow EXCEPT !.known = TRUE, !.role = "label", !.active = TRUE,
                !.waiting = waits, !.caps = ROLE_DEFAULTS[role], !.ip = ip]

NewRow(role, waits, ip) ==
  [NoRow EXCEPT !.known = TRUE, !.role = role, !.active = TRUE,
                !.waiting = waits, !.caps = ROLE_DEFAULTS[role], !.ip = ip]

MemberOps == {"join_classroom", "deactivate_member", "set_member_permission",
              "set_member_role", "set_member_muted", "remove_member",
              "approve_waiting_room", "deny_waiting_room", "set_hand_raised"}
CreateOps == {"create_member"}
BulkOps   == {"mute_all", "deactivate_classroom"}
RoomOps   == {"set_classroom_locked", "update_settings", "customize"}
Op        == MemberOps \cup CreateOps \cup BulkOps \cup RoomOps

\* @transaction.atomic: announced, then committed.
AtomicOps == {"create_member", "join_classroom", "deactivate_classroom"}

Request == [phase  : {"idle", "read", "saved", "announced"},
            op     : Op \cup {"none"},
            actor  : Member,
            target : Member,
            copy   : Row,             \* the instance, as assigned, not yet saved
            perm   : Capability \cup {"none"},
            room   : Room,            \* the classroom instance, likewise
            fields : SUBSET SETTING_FIELDS,
            ids    : SUBSET Member]

IdleRoom == [active |-> TRUE, locked |-> FALSE, on |-> {}]

Idle == [phase |-> "idle", op |-> "none", actor |-> Owner, target |-> Owner,
         copy |-> NoRow, perm |-> "none", room |-> IdleRoom, fields |-> {},
         ids |-> {}]

-----------------------------------------------------------------------------
(* The checks that the operations share.                                   *)

Active(m) == row[m].known /\ row[m].active

Admitted(m) == Active(m) /\ ~row[m].waiting

Effective(m) == effective_permissions(row[m], m \in Guest, room)

\* get_active_member() looks a User up, so a guest never acts as a host.
_require_privileged(a) == room.active /\ a \in User /\ Active(a) /\ is_privileged(row[a])

\* (mutant: any privileged member passes for the owner)
RequireOwnerLoosely(a) == _require_privileged(a)

_require_owner(a) == room.active /\ a \in User /\ Active(a) /\ row[a].role = "OWNER"

\* (mutant: the target's rank is not looked at)
CanManageAnyone(a, t) == a # t

_can_manage(a, t) ==
  /\ a # t
  /\ row[a].role = "OWNER" \/ row[t].role \notin PRIVILEGED_ROLES

\* Handler h starts serving an operation on target t.
Begin(h, op, a, t, copy) ==
  /\ req[h].phase = "idle"
  /\ op \in Ops
  /\ req' = [req EXCEPT ![h] = [Idle EXCEPT !.phase = "read", !.op = op,
                                  !.actor = a, !.target = t, !.copy = copy]]
  /\ UNCHANGED <<room, row>>

-----------------------------------------------------------------------------
(* Joining and leaving.                                                    *)

\* join_classroom() of a user who is no active member: the lobby sends active
\* members straight to the room.  The password gate is not modelled here: the
\* caller is one who passed it.  (mutant: is_banned is not asked)
JoinIgnoringBan(h, u) ==
  /\ room.active
  /\ ~Active(u)
  /\ ~room.locked
  /\ IF row[u].known
       THEN Begin(h, "join_classroom", u, u,
                  [row[u] EXCEPT !.active = TRUE, !.banned = FALSE])
       ELSE Begin(h, "create_member", u, u,
                  NewRow("STUDENT", "enable_waiting_room" \in room.on, NoIp))

join_classroom(h, u) ==
  /\ room.active
  /\ ~Active(u)
  /\ ~row[u].banned
  /\ ~room.locked
  /\ IF row[u].known
       THEN Begin(h, "join_classroom", u, u,
                  [row[u] EXCEPT !.active = TRUE, !.banned = FALSE])
       ELSE Begin(h, "create_member", u, u,
                  NewRow("STUDENT", "enable_waiting_room" \in room.on, NoIp))

FreshGuest(g) == ~row[g].known /\ \A k \in Handler : req[k].target # g

\* A request without an address (REMOTE_ADDR) is not held against the bans.
\* (mutant: the lock is only asked of registered users)
GuestJoinIgnoringLock(h, g, ip) ==
  /\ room.active
  /\ "allow_guests" \in room.on
  /\ ip # NoIp => ~\E b \in Guest : row[b].known /\ row[b].ip = ip /\ row[b].banned
  /\ FreshGuest(g)
  /\ Begin(h, "create_member", g, g,
           NewRow("GUEST", "enable_waiting_room" \in room.on, ip))

join_classroom_guest(h, g, ip) ==
  /\ room.active
  /\ "allow_guests" \in room.on
  /\ ~room.locked
  /\ ip # NoIp => ~\E b \in Guest : row[b].known /\ row[b].ip = ip /\ row[b].banned
  /\ FreshGuest(g)
  /\ Begin(h, "create_member", g, g,
           NewRow("GUEST", "enable_waiting_room" \in room.on, ip))

\* deactivate_member(event="left"), called by leave_view for users and guests.
deactivate_member(h, m) ==
  /\ Active(m)
  /\ Begin(h, "deactivate_member", m, m,
           [row[m] EXCEPT !.active = FALSE, !.waiting = FALSE, !.hand = FALSE])

\* ClassroomConsumer._set_hand_raised and services.set_hand_raised.
set_hand_raised(h, m, raised) ==
  /\ Admitted(m)
  /\ "can_raise_hand" \in Effective(m)
  /\ Begin(h, "set_hand_raised", m, m, [row[m] EXCEPT !.hand = raised])

-----------------------------------------------------------------------------
(* Host actions on one member.  _target_member finds inactive members too. *)

Flag(caps, p, value) == IF value THEN caps \cup {p} ELSE caps \ {p}

\* (mutant: any grant lifts a mute)
AnyGrantUnmutes(m, p, value) ==
  [m EXCEPT !.caps = Flag(m.caps, p, value), !.muted = @ /\ ~value]

WithPermission(m, p, value) ==
  [m EXCEPT !.caps = Flag(m.caps, p, value),
            !.muted = @ /\ ~(p = "can_use_microphone" /\ value)]

set_member_permission(h, a, t, p, value) ==
  /\ _require_privileged(a)
  /\ row[t].known
  /\ _can_manage(a, t)
  /\ req[h].phase = "idle"
  /\ "set_member_permission" \in Ops
  /\ req' = [req EXCEPT ![h] = [Idle EXCEPT !.phase = "read",
                !.op = "set_member_permission", !.actor = a, !.target = t,
                !.copy = WithPermission(row[t], p, value), !.perm = p]]
  /\ UNCHANGED <<room, row>>

set_member_role(h, a, t, role) ==
  /\ _require_owner(a)
  /\ row[t].known
  /\ row[t].role # "OWNER"
  /\ Begin(h, "set_member_role", a, t,
           [row[t] EXCEPT !.role = role, !.caps = ROLE_DEFAULTS[role]])

set_member_muted(h, a, t, muted) ==
  /\ _require_privileged(a)
  /\ row[t].known
  /\ _can_manage(a, t)
  /\ Begin(h, "set_member_muted", a, t, [row[t] EXCEPT !.muted = muted])

remove_member(h, a, t, ban) ==
  /\ _require_privileged(a)
  /\ row[t].known
  /\ _can_manage(a, t)
  /\ Begin(h, "remove_member", a, t,
           [row[t] EXCEPT !.active = FALSE, !.waiting = FALSE, !.hand = FALSE,
                          !.banned = @ \/ ban])

\* The owner passes even on their own row; nothing asks whether t is waiting.
MayDecideEntry(a, t) ==
  /\ _require_privileged(a)
  /\ row[t].known
  /\ _can_manage(a, t) \/ row[a].role = "OWNER"

approve_waiting_room(h, a, t) ==
  /\ MayDecideEntry(a, t)
  /\ Begin(h, "approve_waiting_room", a, t, [row[t] EXCEPT !.waiting = FALSE])

deny_waiting_room(h, a, t) ==
  /\ MayDecideEntry(a, t)
  /\ Begin(h, "deny_waiting_room", a, t,
           [row[t] EXCEPT !.active = FALSE, !.waiting = FALSE])

-----------------------------------------------------------------------------
(* Host actions on the whole classroom.                                    *)

\* The targets are chosen by the UPDATE itself; the instance kept is the actor.
mute_all(h, a) ==
  /\ _require_privileged(a)
  /\ Begin(h, "mute_all", a, a, row[a])

\* (mutant: whoever waits to be let in is left out of the list)
EndListsAdmitted(h, a) ==
  /\ _require_owner(a)
  /\ req[h].phase = "idle"
  /\ "deactivate_classroom" \in Ops
  /\ req' = [req EXCEPT ![h] = [Idle EXCEPT !.phase = "read",
                !.op = "deactivate_classroom", !.actor = a,
                !.ids = { m \in Member : Admitted(m) }]]
  /\ UNCHANGED <<room, row>>

\* deactivate_classroom lists the active members, then updates those ids.
deactivate_classroom(h, a) ==
  /\ _require_owner(a)
  /\ req[h].phase = "idle"
  /\ "deactivate_classroom" \in Ops
  /\ req' = [req EXCEPT ![h] = [Idle EXCEPT !.phase = "read",
                !.op = "deactivate_classroom", !.actor = a,
                !.ids = { m \in Member : Active(m) }]]
  /\ UNCHANGED <<room, row>>

BeginRoom(h, op, a, instance, fields) ==
  /\ req[h].phase = "idle"
  /\ op \in Ops
  /\ req' = [req EXCEPT ![h] = [Idle EXCEPT !.phase = "read", !.op = op,
                !.actor = a, !.room = instance, !.fields = fields]]
  /\ UNCHANGED <<room, row>>

set_classroom_locked(h, a, locked) ==
  /\ _require_owner(a)
  /\ BeginRoom(h, "set_classroom_locked", a, [room EXCEPT !.locked = locked], {})

update_settings(h, a, fields, values) ==
  /\ _require_owner(a)
  /\ BeginRoom(h, "update_settings", a,
               [room EXCEPT !.on = (@ \ fields) \cup values], fields)

\* classroom_detail_view's customization form: a ModelForm whose save() writes
\* every column of the instance read at the start of the request.  The view
\* finds the classroom by owner: it does not ask for an active membership.
customize(h, values) ==
  /\ room.active
  /\ BeginRoom(h, "customize", Owner,
               [room EXCEPT !.on = (@ \ {"allow_guests"}) \cup values], {})

-----------------------------------------------------------------------------
(* The second step of a request: what reaches the tables.                  *)

\* update_fields of the saves that name their columns.  A permission or role
\* change calls save() bare: every column of the stale instance is written.
\* (mutant: banned_until is left out of join_classroom's update_fields)
JoinColumnsNoBan == {"active"}
JoinColumns      == {"active", "banned"}
\* (mutant: in_waiting_room is left out of deactivate_member's update_fields)
LeaveColumnsNoWaiting == {"active", "hand"}
LeaveColumns     == {"active", "waiting", "hand"}
RemoveColumns    == {"active", "waiting", "hand", "banned"}
\* (mutant: in_waiting_room is left out of deny_waiting_room's update_fields)
DenyColumnsActiveOnly == {"active"}
DenyColumns      == {"active", "waiting"}

update_fields(op) ==
  CASE op = "join_classroom"       -> JoinColumns
    [] op = "deactivate_member"    -> LeaveColumns
    [] op = "remove_member"        -> RemoveColumns
    [] op = "deny_waiting_room"    -> DenyColumns
    [] op = "approve_waiting_room" -> {"waiting"}
    [] op = "set_member_muted"     -> {"muted"}
    [] op = "set_hand_raised"      -> {"hand"}

FullSaveOps == {"set_member_permission", "set_member_role"}

\* What save() leaves of the row `cur' that is in the table by then.
Saved(r, cur) ==
  IF r.op \in FullSaveOps THEN r.copy
  ELSE LET cols == update_fields(r.op) IN
       [cur EXCEPT !.active  = IF "active"  \in cols THEN r.copy.active  ELSE @,
                   !.waiting = IF "waiting" \in cols THEN r.copy.waiting ELSE @,
                   !.banned  = IF "banned"  \in cols THEN r.copy.banned  ELSE @,
                   !.muted   = IF "muted"   \in cols THEN r.copy.muted   ELSE @,
                   !.hand    = IF "hand"    \in cols THEN r.copy.hand    ELSE @]

\* The step of request r that writes is due.
Due(r, ops) ==
  /\ r.op \in ops
  /\ r.phase = IF r.op \in AtomicOps THEN "announced" ELSE "read"

Done(h) ==
  req' = [req EXCEPT ![h] = IF req[h].op \in AtomicOps
                              THEN Idle ELSE [req[h] EXCEPT !.phase = "saved"]]

\* Rows that a transaction in flight has written stay locked to other writers
\* until it commits.
Ending == { h \in Handler : /\ req[h].op = "deactivate_classroom"
                            /\ req[h].phase = "announced" }

RowsFree(h, members) == \A k \in Ending \ {h} : members \cap req[k].ids = {}

RoomFree(h) == Ending \ {h} = {}

SaveMember(h) ==
  /\ Due(req[h], MemberOps)
  /\ RowsFree(h, {req[h].target})
  /\ row' = [row EXCEPT ![req[h].target] = Saved(req[h], @)]
  /\ Done(h)
  /\ UNCHANGED room

CreateMember(h) ==
  /\ Due(req[h], CreateOps)
  /\ row' = [row EXCEPT ![req[h].target] = req[h].copy]
  /\ Done(h)
  /\ UNCHANGED room

\* (mutant: mute_all without exclude(id=actor.id))
MuteAllWithActor(r) ==
  { m \in Member : /\ Active(m)
                   /\ r.copy.role = "OWNER" \/ row[m].role \notin PRIVILEGED_ROLES }

\* Whom the UPDATE of mute_all matches, for the actor as read by the request.
MuteAllTargets(r) ==
  { m \in Member : /\ Active(m)
                   /\ m # r.actor
                   /\ r.copy.role = "OWNER" \/ row[m].role \notin PRIVILEGED_ROLES }

MuteAll(h) ==
  /\ Due(req[h], {"mute_all"})
  /\ RowsFree(h, MuteAllTargets(req[h]))
  /\ row' = [m \in Member |-> IF m \in MuteAllTargets(req[h])
                                THEN [row[m] EXCEPT !.muted = TRUE] ELSE row[m]]
  /\ Done(h)
  /\ UNCHANGED room

Deactivate(h) ==
  /\ Due(req[h], {"deactivate_classroom"})
  /\ room' = [room EXCEPT !.active = FALSE]
  /\ row' = [m \in Member |->
               IF m \in req[h].ids
                 THEN [row[m] EXCEPT !.active = FALSE, !.waiting = FALSE, !.hand = FALSE]
                 ELSE row[m]]
  /\ Done(h)

SaveRoom(h) ==
  /\ Due(req[h], RoomOps)
  /\ RoomFree(h)
  /\ LET r == req[h] IN
     room' = CASE r.op = "set_classroom_locked" -> [room EXCEPT !.locked = r.room.locked]
               [] r.op = "update_settings" ->
                    [room EXCEPT !.on = (@ \ r.fields) \cup (r.room.on \cap r.fields)]
               [] r.op = "customize" -> r.room
  /\ Done(h)
  /\ UNCHANGED row

Save(h) == SaveMember(h) \/ CreateMember(h) \/ MuteAll(h) \/ Deactivate(h) \/ SaveRoom(h)

\* The unique (classroom, user) constraint: an INSERT waits for a transaction
\* that is inserting the same row.
InsertWaits(h) ==
  /\ req[h].op \in CreateOps
  /\ \E k \in Handler \ {h} : /\ req[k].op \in CreateOps
                              /\ req[k].phase = "announced"
                              /\ req[k].target = req[h].target

\* It fails if that row exists by then.
InsertFails(h) ==
  /\ req[h].phase = "read"
  /\ req[h].op \in CreateOps
  /\ row[req[h].target].known

\* Nothing is announced and the transaction is rolled back.
Refused(h) ==
  /\ InsertFails(h)
  /\ req' = [req EXCEPT ![h] = Idle]
  /\ UNCHANGED <<room, row>>

\* notify_member and broadcast.
Announces(h) ==
  \/ req[h].phase = "saved"
  \/ /\ req[h].phase = "read"
     /\ req[h].op \in AtomicOps
     /\ ~InsertWaits(h)
     /\ ~InsertFails(h)
     /\ req[h].op = "deactivate_classroom" => RoomFree(h)

Announce(h) ==
  /\ Announces(h)
  /\ req' = [req EXCEPT ![h] = IF req[h].phase = "saved" THEN Idle
                                 ELSE [req[h] EXCEPT !.phase = "announced"]]
  /\ UNCHANGED <<room, row>>

Proceeds(h) == IF InsertFails(h) THEN Refused(h) ELSE Announce(h)

\* banned_until passes.  A ban lasts minutes and a request milliseconds: no
\* request that read the row is still in flight.
BanExpires(m) ==
  /\ row[m].banned
  /\ \A h \in Handler : req[h].target = m => req[h].phase \notin {"read", "announced"}
  /\ row' = [row EXCEPT ![m].banned = FALSE]
  /\ UNCHANGED <<room, req>>

-----------------------------------------------------------------------------
\* create_classroom: the row, and the owner's membership with the OWNER role.
Init ==
  /\ room = [active |-> TRUE, locked |-> FALSE, on |-> DefaultSettings]
  /\ row = [m \in Member |-> IF m = Owner THEN NewRow("OWNER", FALSE, NoIp) ELSE NoRow]
  /\ req = [h \in Handler |-> Idle]

JoinOrLeave(h) ==
  \/ \E u \in User : join_classroom(h, u)
  \/ \E g \in Guest, ip \in Ip \cup {NoIp} : join_classroom_guest(h, g, ip)
  \/ \E m \in Member : deactivate_member(h, m)
  \/ \E m \in Member, raised \in BOOLEAN : set_hand_raised(h, m, raised)

HostOnMember(h) ==
  \E a \in User, t \in Member :
    \/ \E p \in Grantable, value \in BOOLEAN : set_member_permission(h, a, t, p, value)
    \/ \E role \in Assignable : set_member_role(h, a, t, role)
    \/ \E muted \in BOOLEAN : set_member_muted(h, a, t, muted)
    \/ \E ban \in BOOLEAN : remove_member(h, a, t, ban)
    \/ approve_waiting_room(h, a, t)
    \/ deny_waiting_room(h, a, t)

HostOnRoom(h) ==
  \/ \E a \in User :
       \/ mute_all(h, a)
       \/ deactivate_classroom(h, a)
       \/ \E locked \in BOOLEAN : set_classroom_locked(h, a, locked)
       \/ \E fields \in SUBSET Toggled :
            \E values \in SUBSET fields : update_settings(h, a, fields, values)
  \/ \E values \in SUBSET {"allow_guests"} : customize(h, values)

Next ==
  \/ \E h \in Handler :
       \/ JoinOrLeave(h) \/ HostOnMember(h) \/ HostOnRoom(h)
       \/ Save(h) \/ Proceeds(h)
  \/ \E m \in Member : BanExpires(m)

Spec == Init /\ [][Next]_vars

-----------------------------------------------------------------------------
(* Properties.                                                             *)

\* The tables hold values of their columns' types and the requests in flight
\* hold instances of the same types.
TypeOK ==
  /\ room \in Room
  /\ row \in [Member -> Row]
  /\ req \in [Handler -> Request]

\* Whatever requests overlap, the owner of the classroom keeps the OWNER role,
\* every capability, and is never muted, banned or held in the waiting room;
\* and nobody else is ever OWNER.  (_can_manage, the owner check of
\* set_member_role and the two exclusions of mute_all together.)
OwnerSovereign ==
  /\ row[Owner].known
  /\ row[Owner].role = "OWNER"
  /\ row[Owner].caps = Capability
  /\ ~row[Owner].muted /\ ~row[Owner].banned /\ ~row[Owner].waiting
  /\ \A m \in Member \ {Owner} : row[m].role # "OWNER"

\* A member under a running ban has no access, whatever stale instance a
\* concurrent request writes back.
BannedIsOut == \A m \in Member : row[m].banned => ~row[m].active

\* The waiting list holds active members only: no denied, removed or departed
\* member lingers in it to be "admitted" later.
WaitingIsActive == \A m \in Member : row[m].waiting => row[m].active

\* The end of a classroom leaves nobody with an active membership: so while requests
\* run one after another (module Closing says what is left of it when they overlap).
EndRevokesEverybody == ~room.active => \A m \in Member : ~row[m].active

\* A ban ends when its time is up and not before: no operation, a later join,
\* removal or grant included, clears it.
BanRunsItsTime ==
  [][\A m \in Member : row[m].banned /\ ~row[m]'.banned => BanExpires(m)]_vars

\* A mute holds until a host unmutes the member or grants the microphone: no
\* other change to the row, nor leaving and joining again, lifts it.
Unmutes(r, m) ==
  /\ r.target = m
  /\ r.op = "set_member_muted" \/ r.perm = "can_use_microphone"

MuteSticks ==
  [][\A m \in Member : row[m].muted /\ ~row[m]'.muted =>
       \E h \in Handler : Due(req[h], MemberOps) /\ Unmutes(req[h], m)]_vars

\* A role only changes by the owner's set_member_role: no permission toggle of a
\* moderator and no re-join turns a member into something else.
OnlyOwnerAssignsRoles ==
  [][\A m \in Member : row[m].known /\ row[m].role # row[m]'.role =>
       \E h \in Handler : /\ req[h].op = "set_member_role"
                          /\ req[h].target = m
                          /\ req[h].actor = Owner]_vars

\* However a membership becomes active - first join, re-join, guest join, or a
\* host's action on the row - the classroom is running and unlocked, and neither
\* the member nor a guest of the same address, where one is known, is under a ban.
NoBackDoor ==
  [][\A m \in Member : ~row[m].active /\ row[m]'.active =>
       /\ room.active /\ ~room.locked /\ ~row[m].banned
       /\ m \in Guest /\ row[m]'.ip # NoIp =>
            \A b \in Guest : row[b].banned => row[b].ip # row[m]'.ip]_vars
=============================================================================
