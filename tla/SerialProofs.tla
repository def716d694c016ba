----------------------------- MODULE SerialProofs -----------------------------
(***************************************************************************)
(* What holds of module Membership when requests run one after another.    *)
(* Overlapping requests do break these properties (run ban_lost): the      *)
(* instance one of them writes back may be older than the row it finds.    *)
(* So the invariant says that an instance in flight is still what was read *)
(* from the row and the classroom as they stand.                           *)
(***************************************************************************)
EXTENDS MembershipProofs, Doors, Closing, Presence

OneAtATime == \A g, h \in Handler : g = h

\* Of a row that does not exist, nothing is set.
Blank == \A m \in Member : ~row[m].known => ~row[m].active /\ ~row[m].banned /\ ~row[m].muted

\* The request has read and not written.
Unwritten(r) == r.phase \in {"read", "announced"}

\* What an unwritten request knows is still so.
FreshEntry(r) ==
  /\ r.op \in {"join_classroom", "create_member"} =>
       room.active /\ ~room.locked /\ ~row[r.target].banned
  /\ r.op = "join_classroom" => r.target \in User
  /\ r.op = "create_member" =>
       /\ ~row[r.target].known /\ r.copy.known
       /\ r.target \in Guest /\ r.copy.ip # NoIp =>
            \A b \in Guest : row[b].banned => row[b].ip # r.copy.ip

FreshCopy(r) ==
  LET cur == row[r.target] IN
  /\ r.op \in MemberOps => cur.known
  /\ r.op \in FullSaveOps =>
       r.copy.known = cur.known /\ r.copy.active = cur.active /\ r.copy.banned = cur.banned
         /\ r.copy.waiting = cur.waiting
  /\ r.op = "set_member_permission" =>
       /\ r.copy.role = cur.role
       /\ cur.muted /\ ~r.copy.muted => r.perm = "can_use_microphone"
  /\ r.op = "set_member_role" => r.copy.muted = cur.muted /\ r.actor = Owner
  /\ r.op = "remove_member" => (cur.banned => r.copy.banned)

FreshRoom(r) ==
  /\ r.op = "deactivate_classroom" => \A m \in Member : row[m].active => m \in r.ids
  /\ r.op = "customize" => r.room.active = room.active

Fresh(r) == FreshEntry(r) /\ FreshCopy(r) /\ FreshRoom(r)

AllFresh == \A h \in Handler : Unwritten(req[h]) => Fresh(req[h])

SInv == IInv /\ Blank /\ AllFresh /\ EndRevokesEverybody

-----------------------------------------------------------------------------
(* Reads.                                                                  *)

\* The instance of a request that has just begun.
Begun(op, a, t, copy) ==
  [Idle EXCEPT !.phase = "read", !.op = op, !.actor = a, !.target = t, !.copy = copy]

LEMMA BegunFacts ==
  ASSUME NEW op, NEW a, NEW t, NEW copy
  PROVE  LET r == Begun(op, a, t, copy) IN
         r.op = op /\ r.actor = a /\ r.target = t /\ r.copy = copy
BY DEF Begun, Idle

\* A read keeps the invariant if what it puts into the request is fresh: with one
\* request at a time there is no other.
LEMMA SerialRead ==
  ASSUME SInv, IInv', OneAtATime, NEW h \in Handler, NEW r, Fresh(r),
         req' = [req EXCEPT ![h] = r], UNCHANGED <<room, row>>
  PROVE  SInv'
<1>1. \A k \in Handler : k = h /\ req'[k] = r
  BY DEF OneAtATime, SInv, IInv, TypeOK
<1>2. AllFresh'
  BY <1>1 DEF AllFresh, Fresh, FreshEntry, FreshCopy, FreshRoom
<1>3. QED
  BY <1>2 DEF SInv, Blank, EndRevokesEverybody

LEMMA SerialBegin ==
  ASSUME SInv, IInv', OneAtATime, NEW h \in Handler, NEW op, NEW a, NEW t, NEW copy,
         Begin(h, op, a, t, copy), Fresh(Begun(op, a, t, copy))
  PROVE  SInv'
BY SerialRead DEF Begin, Begun

LEMMA SerialJoinOrLeave ==
  ASSUME SInv, IInv', OneAtATime, NEW h \in Handler, JoinOrLeave(h)
  PROVE  SInv'
<1> USE DEF Fresh, FreshEntry, FreshCopy, FreshRoom, FullSaveOps, MemberOps
<1>1. ASSUME NEW u \in User, join_classroom(h, u) PROVE SInv'
  <2>1. room.active /\ ~room.locked /\ ~row[u].banned
    BY <1>1 DEF join_classroom
  <2>2. CASE row[u].known
    <3> DEFINE copy == [row[u] EXCEPT !.active = TRUE, !.banned = FALSE]
               r == Begun("join_classroom", u, u, copy)
    <3>1. Begin(h, "join_classroom", u, u, copy)
      BY <1>1, <2>2 DEF join_classroom
    <3>2. r.op = "join_classroom" /\ r.target = u
      BY BegunFacts
    <3> HIDE DEF copy, r
    <3>3. Fresh(r)
      BY <2>1, <2>2, <3>2
    <3>4. QED
      BY <3>1, <3>3, SerialBegin DEF r
  <2>3. CASE ~row[u].known
    <3> DEFINE copy == NewRow("STUDENT", "enable_waiting_room" \in room.on, NoIp)
               r == Begun("create_member", u, u, copy)
    <3>1. Begin(h, "create_member", u, u, copy) /\ copy.known
      BY <1>1, <2>3 DEF join_classroom, NewRow, NoRow
    <3>2. u \notin Guest
      BY GuestAssumption
    <3>3. r.op = "create_member" /\ r.target = u /\ r.copy = copy
      BY BegunFacts
    <3> HIDE DEF copy, r
    <3>4. Fresh(r)
      BY <2>1, <2>3, <3>1, <3>2, <3>3
    <3>5. QED
      BY <3>1, <3>4, SerialBegin DEF r
  <2>4. QED
    BY <2>2, <2>3
<1>2. ASSUME NEW g \in Guest, NEW ip \in Ip \cup {NoIp}, join_classroom_guest(h, g, ip) PROVE SInv'
  <2> DEFINE copy == NewRow("GUEST", "enable_waiting_room" \in room.on, ip)
             r == Begun("create_member", g, g, copy)
  <2>1. Begin(h, "create_member", g, g, copy) /\ copy.known /\ copy.ip = ip
    BY <1>2 DEF join_classroom_guest, NewRow, NoRow
  <2>2. /\ room.active /\ ~room.locked /\ ~row[g].known
        /\ ip # NoIp => ~\E b \in Guest : row[b].known /\ row[b].ip = ip /\ row[b].banned
    BY <1>2 DEF join_classroom_guest, FreshGuest
  <2>3. ~row[g].banned /\ (ip # NoIp => \A b \in Guest : row[b].banned => row[b].ip # ip)
    BY <2>2 DEF SInv, Blank, Member
  <2>4. r.op = "create_member" /\ r.target = g /\ r.copy = copy
    BY BegunFacts
  <2> HIDE DEF copy, r
  <2>5. Fresh(r)
    BY <2>1, <2>2, <2>3, <2>4
  <2>6. QED
    BY <2>1, <2>5, SerialBegin DEF r
<1>3. ASSUME NEW m \in Member, deactivate_member(h, m) PROVE SInv'
  <2> DEFINE copy == [row[m] EXCEPT !.active = FALSE, !.waiting = FALSE, !.hand = FALSE]
  <2>1. Begin(h, "deactivate_member", m, m, copy) /\ row[m].known
    BY <1>3 DEF deactivate_member, Active
  <2> HIDE DEF copy
  <2>2. Fresh(Begun("deactivate_member", m, m, copy))
    BY <2>1, BegunFacts
  <2>3. QED
    BY <2>1, <2>2, SerialBegin
<1>4. ASSUME NEW m \in Member, NEW raised \in BOOLEAN, set_hand_raised(h, m, raised)
      PROVE  SInv'
  <2> DEFINE copy == [row[m] EXCEPT !.hand = raised]
  <2>1. Begin(h, "set_hand_raised", m, m, copy) /\ row[m].known
    BY <1>4 DEF set_hand_raised, Admitted, Active
  <2> HIDE DEF copy
  <2>2. Fresh(Begun("set_hand_raised", m, m, copy))
    BY <2>1, BegunFacts
  <2>3. QED
    BY <2>1, <2>2, SerialBegin
<1>5. QED
  BY <1>1, <1>2, <1>3, <1>4 DEF JoinOrLeave

LEMMA SerialHostOnMember ==
  ASSUME SInv, IInv', OneAtATime, NEW h \in Handler, HostOnMember(h)
  PROVE  SInv'
<1> USE DEF Fresh, FreshEntry, FreshCopy, FreshRoom, FullSaveOps, MemberOps
<1>1. PICK a \in User, t \in Member :
        \/ \E p \in Grantable, value \in BOOLEAN : set_member_permission(h, a, t, p, value)
        \/ \E role \in Assignable : set_member_role(h, a, t, role)
        \/ \E muted \in BOOLEAN : set_member_muted(h, a, t, muted)
        \/ \E ban \in BOOLEAN : remove_member(h, a, t, ban)
        \/ approve_waiting_room(h, a, t)
        \/ deny_waiting_room(h, a, t)
  BY DEF HostOnMember
<1>2. row[t] \in Row /\ row[t].known
  BY <1>1 DEF SInv, IInv, TypeOK, set_member_permission, set_member_role, set_member_muted,
     remove_member, approve_waiting_room, deny_waiting_room, MayDecideEntry
<1>3. ASSUME NEW p \in Grantable, NEW value \in BOOLEAN, set_member_permission(h, a, t, p, value)
      PROVE  SInv'
  <2> DEFINE copy == WithPermission(row[t], p, value)
             r == [Idle EXCEPT !.phase = "read", !.op = "set_member_permission", !.actor = a,
                               !.target = t, !.copy = copy, !.perm = p]
  <2>1. req' = [req EXCEPT ![h] = r] /\ UNCHANGED <<room, row>>
    BY <1>3 DEF set_member_permission
  <2>2. /\ copy.known = row[t].known /\ copy.active = row[t].active
        /\ copy.banned = row[t].banned /\ copy.waiting = row[t].waiting
        /\ copy.role = row[t].role
        /\ row[t].muted /\ ~copy.muted => p = "can_use_microphone"
    BY <1>2 DEF WithPermission, Row
  <2> HIDE DEF copy
  <2>3. /\ r.op = "set_member_permission" /\ r.target = t /\ r.copy = copy /\ r.perm = p
    BY DEF Idle
  <2> HIDE DEF r
  <2>4. Fresh(r)
    BY <1>2, <2>2, <2>3
  <2>5. QED
    BY <2>1, <2>4, SerialRead
<1>4. ASSUME NEW role \in Assignable, set_member_role(h, a, t, role) PROVE SInv'
  <2> DEFINE copy == [row[t] EXCEPT !.role = role, !.caps = ROLE_DEFAULTS[role]]
             r == Begun("set_member_role", a, t, copy)
  <2>1. Begin(h, "set_member_role", a, t, copy) /\ row[a].role = "OWNER" /\ a \in Member
    BY <1>4 DEF set_member_role, _require_owner, Member
  <2>2. a = Owner
    BY <2>1 DEF SInv, IInv, OwnerSovereign
  <2>3. /\ copy.known = row[t].known /\ copy.active = row[t].active
        /\ copy.banned = row[t].banned /\ copy.waiting = row[t].waiting
        /\ copy.muted = row[t].muted
    BY <1>2 DEF Row
  <2>4. r.op = "set_member_role" /\ r.target = t /\ r.actor = a /\ r.copy = copy
    BY BegunFacts
  <2> HIDE DEF copy, r
  <2>5. Fresh(r)
    BY <1>2, <2>2, <2>3, <2>4
  <2>6. QED
    BY <2>1, <2>5, SerialBegin DEF r
<1>5. ASSUME NEW muted \in BOOLEAN, set_member_muted(h, a, t, muted) PROVE SInv'
  <2> DEFINE copy == [row[t] EXCEPT !.muted = muted]
  <2>1. Begin(h, "set_member_muted", a, t, copy)
    BY <1>5 DEF set_member_muted
  <2> HIDE DEF copy
  <2>2. Fresh(Begun("set_member_muted", a, t, copy))
    BY <1>2, BegunFacts
  <2>3. QED
    BY <2>1, <2>2, SerialBegin
<1>6. ASSUME NEW ban \in BOOLEAN, remove_member(h, a, t, ban) PROVE SInv'
  <2> DEFINE copy == [row[t] EXCEPT !.active = FALSE, !.waiting = FALSE, !.hand = FALSE,
                                    !.banned = @ \/ ban]
  <2>1. Begin(h, "remove_member", a, t, copy)
    BY <1>6 DEF remove_member
  <2>2. row[t].banned => copy.banned
    BY <1>2 DEF Row
  <2> HIDE DEF copy
  <2>3. Fresh(Begun("remove_member", a, t, copy))
    BY <1>2, <2>2, BegunFacts
  <2>4. QED
    BY <2>1, <2>3, SerialBegin
<1>7. ASSUME approve_waiting_room(h, a, t) PROVE SInv'
  <2> DEFINE copy == [row[t] EXCEPT !.waiting = FALSE]
  <2>1. Begin(h, "approve_waiting_room", a, t, copy)
    BY <1>7 DEF approve_waiting_room
  <2> HIDE DEF copy
  <2>2. Fresh(Begun("approve_waiting_room", a, t, copy))
    BY <1>2, BegunFacts
  <2>3. QED
    BY <2>1, <2>2, SerialBegin
<1>8. ASSUME deny_waiting_room(h, a, t) PROVE SInv'
  <2> DEFINE copy == [row[t] EXCEPT !.active = FALSE, !.waiting = FALSE]
  <2>1. Begin(h, "deny_waiting_room", a, t, copy)
    BY <1>8 DEF deny_waiting_room
  <2> HIDE DEF copy
  <2>2. Fresh(Begun("deny_waiting_room", a, t, copy))
    BY <1>2, BegunFacts
  <2>3. QED
    BY <2>1, <2>2, SerialBegin
<1>9. QED
  BY <1>1, <1>3, <1>4, <1>5, <1>6, <1>7, <1>8

LEMMA SerialHostOnRoom ==
  ASSUME SInv, IInv', OneAtATime, NEW h \in Handler, HostOnRoom(h)
  PROVE  SInv'
<1> USE DEF Fresh, FreshEntry, FreshCopy, FreshRoom, FullSaveOps, MemberOps
<1>0. room \in Room
  BY DEF SInv, IInv, TypeOK
<1>1. ASSUME NEW op, NEW a, NEW instance, NEW fields, BeginRoom(h, op, a, instance, fields),
             op \in {"set_classroom_locked", "update_settings", "customize"},
             instance.active = room.active
      PROVE  SInv'
  <2> DEFINE r == [Idle EXCEPT !.phase = "read", !.op = op, !.actor = a, !.room = instance,
                               !.fields = fields]
  <2>1. req' = [req EXCEPT ![h] = r] /\ UNCHANGED <<room, row>>
    BY <1>1 DEF BeginRoom
  <2>2. r.op = op /\ r.room = instance
    BY DEF Idle
  <2> HIDE DEF r
  <2>3. Fresh(r)
    BY <1>1, <2>2
  <2>4. QED
    BY <2>1, <2>3, SerialRead
<1>2. ASSUME NEW a \in User, mute_all(h, a) PROVE SInv'
  <2>1. Fresh(Begun("mute_all", a, a, row[a]))
    BY BegunFacts
  <2>2. QED
    BY <1>2, <2>1, SerialBegin DEF mute_all
<1>3. ASSUME NEW a \in User, deactivate_classroom(h, a) PROVE SInv'
  <2> DEFINE r == [Idle EXCEPT !.phase = "read", !.op = "deactivate_classroom", !.actor = a,
                               !.ids = { m \in Member : Active(m) }]
  <2>1. req' = [req EXCEPT ![h] = r] /\ UNCHANGED <<room, row>>
    BY <1>3 DEF deactivate_classroom
  <2>2. r.op = "deactivate_classroom" /\ r.ids = { m \in Member : Active(m) }
    BY DEF Idle
  <2> HIDE DEF r
  <2>3. \A m \in Member : row[m].active => m \in r.ids
    BY <2>2 DEF SInv, Blank, Active
  <2>4. Fresh(r)
    BY <2>2, <2>3
  <2>5. QED
    BY <2>1, <2>4, SerialRead
<1>4. ASSUME NEW a \in User, NEW locked \in BOOLEAN, set_classroom_locked(h, a, locked)
      PROVE  SInv'
  <2>1. [room EXCEPT !.locked = locked].active = room.active
    BY <1>0 DEF Room
  <2>2. QED
    BY <1>1, <1>4, <2>1 DEF set_classroom_locked
<1>5. ASSUME NEW a \in User, NEW fields \in SUBSET Toggled, NEW values \in SUBSET fields,
             update_settings(h, a, fields, values)
      PROVE  SInv'
  <2>1. [room EXCEPT !.on = (@ \ fields) \cup values].active = room.active
    BY <1>0 DEF Room
  <2>2. QED
    BY <1>1, <1>5, <2>1 DEF update_settings
<1>6. ASSUME NEW values \in SUBSET {"allow_guests"}, customize(h, values) PROVE SInv'
  <2>1. [room EXCEPT !.on = (@ \ {"allow_guests"}) \cup values].active = room.active
    BY <1>0 DEF Room
  <2>2. QED
    BY <1>1, <1>6, <2>1 DEF customize
<1>7. QED
  BY <1>2, <1>3, <1>4, <1>5, <1>6 DEF HostOnRoom

-----------------------------------------------------------------------------
(* Writes.                                                                 *)

\* What a write of request r may do to the row of member m.
WrittenOK(r, m) ==
  /\ row[m].banned => row'[m].banned
  /\ row[m].muted /\ ~row'[m].muted => Due(r, MemberOps) /\ Unmutes(r, m)
  /\ row[m].known =>
       /\ row'[m].known
       /\ row[m].role # row'[m].role =>
            r.op = "set_member_role" /\ r.target = m /\ r.actor = Owner
  /\ row[m].known /\ row'[m].waiting => row[m].waiting
  /\ row[m].active /\ ~row'[m].active =>
       \/ /\ r.op \in {"deactivate_member", "remove_member", "deny_waiting_room"}
          /\ r.target = m
       \/ r.op = "deactivate_classroom" /\ m \in r.ids
  /\ ~row'[m].known => ~row'[m].active /\ ~row'[m].banned /\ ~row'[m].muted
  /\ ~row[m].active /\ row'[m].active =>
       /\ room.active /\ ~room.locked /\ ~row[m].banned
       /\ m \in Guest /\ row'[m].ip # NoIp =>
            \A b \in Guest : row[b].banned => row[b].ip # row'[m].ip

LEMMA SerialSaveMember ==
  ASSUME SInv, NEW h \in Handler, SaveMember(h), NEW m \in Member
  PROVE  WrittenOK(req[h], m)
<1> DEFINE r == req[h]
           t == r.target
           cur == row[t]
           s == Saved(r, cur)
           cols == update_fields(r.op)
<1>1. /\ r \in Request /\ t \in Member /\ r.copy \in Row /\ row \in [Member -> Row]
      /\ cur \in Row /\ r.op \in MemberOps /\ Due(r, MemberOps)
      /\ Blank
  BY DEF SInv, IInv, TypeOK, Request, SaveMember, Due
<1>2. Fresh(r)
  BY DEF SInv, AllFresh, SaveMember, Due, Unwritten
<1>3. CopyOK(r.op, r.actor, r.target, r.copy)
  BY DEF SInv, IInv, InFlightOK
<1>4. row'[t] = s /\ \A k \in Member \ {t} : row'[k] = row[k]
  BY <1>1 DEF SaveMember
<1>5. CASE m # t
  BY <1>1, <1>4, <1>5 DEF WrittenOK, Blank
<1>6. CASE m = t
  <2>0. cur.known
    BY <1>1, <1>2 DEF Fresh, FreshCopy
  <2>1. CASE r.op \in FullSaveOps
    <3>1. s = r.copy
      BY <2>1 DEF Saved
    <3>2. /\ r.op = "set_member_permission" \/ r.op = "set_member_role"
          /\ s.known = cur.known /\ s.active = cur.active /\ s.banned = cur.banned
          /\ s.waiting = cur.waiting
          /\ r.op = "set_member_permission" => s.role = cur.role
          /\ cur.muted /\ ~s.muted => r.perm = "can_use_microphone"
          /\ r.op = "set_member_role" => r.actor = Owner
      BY <1>2, <2>1, <3>1 DEF Fresh, FreshCopy, FullSaveOps
    <3> HIDE DEF s
    <3>3. QED
      BY <1>1, <1>4, <1>6, <2>0, <3>2 DEF WrittenOK, Unmutes
  <2>2. CASE r.op \notin FullSaveOps
    <3>1. /\ s.active  = IF "active"  \in cols THEN r.copy.active  ELSE cur.active
          /\ s.banned  = IF "banned"  \in cols THEN r.copy.banned  ELSE cur.banned
          /\ s.muted   = IF "muted"   \in cols THEN r.copy.muted   ELSE cur.muted
          /\ s.waiting = IF "waiting" \in cols THEN r.copy.waiting ELSE cur.waiting
          /\ s.role = cur.role /\ s.known = cur.known
      BY <1>1, <2>2 DEF Saved, Row
    <3> HIDE DEF s
    <3>2. s.active /\ ~cur.active => r.op = "join_classroom"
      BY <1>1, <1>3, <2>2, <3>1, Columns DEF CopyOK, MemberOps, FullSaveOps
    <3>3. cur.banned => s.banned
      <4>1. r.op = "join_classroom" => ~cur.banned
        BY <1>2 DEF Fresh, FreshEntry
      <4>2. r.op = "remove_member" => (cur.banned => r.copy.banned)
        BY <1>2 DEF Fresh, FreshCopy
      <4>3. r.op \notin {"join_classroom", "remove_member"} => "banned" \notin cols
        BY <1>1, <2>2, Columns DEF MemberOps, FullSaveOps
      <4> HIDE DEF cols
      <4>4. QED
        BY <3>1, <4>1, <4>2, <4>3
    <3>4. cur.muted /\ ~s.muted => r.op = "set_member_muted"
      BY <1>1, <2>2, <3>1, Columns DEF MemberOps, FullSaveOps
    <3>5. r.op = "join_classroom" => room.active /\ ~room.locked /\ ~cur.banned /\ t \notin Guest
      BY <1>2, GuestAssumption DEF Fresh, FreshEntry
    <3>6. s.waiting => cur.waiting
      BY <1>1, <1>3, <2>2, <3>1, Columns DEF CopyOK, MemberOps, FullSaveOps
    <3>7. cur.active /\ ~s.active =>
            r.op \in {"deactivate_member", "remove_member", "deny_waiting_room"}
      BY <1>1, <1>3, <2>2, <3>1, Columns DEF CopyOK, MemberOps, FullSaveOps
    <3> HIDE DEF cols
    <3>8. QED
      BY <1>1, <1>4, <1>6, <2>0, <3>1, <3>2, <3>3, <3>4, <3>5, <3>6, <3>7 DEF WrittenOK, Unmutes
  <2>3. QED
    BY <2>1, <2>2
<1>7. QED
  BY <1>5, <1>6

LEMMA SerialCreateMember ==
  ASSUME SInv, NEW h \in Handler, CreateMember(h), NEW m \in Member
  PROVE  WrittenOK(req[h], m)
<1> DEFINE r == req[h]
           t == r.target
<1>1. /\ t \in Member /\ row \in [Member -> Row] /\ r.op = "create_member" /\ Blank
      /\ r.copy \in Row
  BY DEF SInv, IInv, TypeOK, Request, CreateMember, Due, CreateOps
<1>2. Fresh(r)
  BY DEF SInv, AllFresh, CreateMember, Due, Unwritten
<1>3. row'[t] = r.copy /\ \A k \in Member \ {t} : row'[k] = row[k]
  BY <1>1 DEF CreateMember
<1>4. CASE m # t
  BY <1>1, <1>3, <1>4 DEF WrittenOK, Blank
<1>5. CASE m = t
  <2>1. /\ ~row[t].known /\ ~row[t].active /\ ~row[t].banned /\ ~row[t].muted
        /\ r.copy.known /\ room.active /\ ~room.locked
        /\ t \in Guest /\ r.copy.ip # NoIp =>
             \A b \in Guest : row[b].banned => row[b].ip # r.copy.ip
    BY <1>1, <1>2 DEF Fresh, FreshEntry, Blank
  <2>2. QED
    BY <1>3, <1>5, <2>1 DEF WrittenOK
<1>6. QED
  BY <1>4, <1>5

LEMMA SerialWrite ==
  ASSUME SInv, NEW h \in Handler, Save(h), NEW m \in Member
  PROVE  WrittenOK(req[h], m)
<1>1. Blank /\ row[m] \in Row
  BY DEF SInv, IInv, TypeOK
<1>2. ASSUME row'[m].known = row[m].known, row'[m].role = row[m].role,
             row'[m].banned = row[m].banned,
             row'[m].active => row[m].active, row'[m].waiting => row[m].waiting,
             row[m].active /\ ~row'[m].active =>
               req[h].op = "deactivate_classroom" /\ m \in req[h].ids,
             row[m].muted => row'[m].muted,
             row'[m].muted => row[m].muted \/ row[m].known
      PROVE  WrittenOK(req[h], m)
  BY <1>1, <1>2 DEF WrittenOK, Blank
<1>3. CASE MuteAll(h)
  <2>1. row'[m] = IF m \in MuteAllTargets(req[h]) THEN [row[m] EXCEPT !.muted = TRUE] ELSE row[m]
    BY <1>3 DEF MuteAll
  <2>2. m \in MuteAllTargets(req[h]) => row[m].known
    BY DEF MuteAllTargets, Active
  <2>3. QED
    BY <1>1, <1>2, <2>1, <2>2 DEF Row
<1>4. CASE Deactivate(h)
  <2>1. row'[m] = IF m \in req[h].ids
                    THEN [row[m] EXCEPT !.active = FALSE, !.waiting = FALSE, !.hand = FALSE]
                    ELSE row[m]
    BY <1>4 DEF Deactivate
  <2>2. req[h].op = "deactivate_classroom"
    BY <1>4 DEF Deactivate, Due
  <2>3. QED
    BY <1>1, <1>2, <2>1, <2>2 DEF Row
<1>5. CASE SaveRoom(h)
  BY <1>2, <1>5 DEF SaveRoom
<1>6. QED
  BY <1>3, <1>4, <1>5, SerialSaveMember, SerialCreateMember DEF Save

\* A write of the end of the classroom leaves nobody active, and no other write ends it.
LEMMA SerialWriteEnds ==
  ASSUME SInv, NEW h \in Handler, Save(h), \A m \in Member : WrittenOK(req[h], m)
  PROVE  EndRevokesEverybody'
<1>1. /\ Fresh(req[h]) \/ ~Unwritten(req[h])
      /\ room \in Room /\ EndRevokesEverybody /\ \A m \in Member : row[m] \in Row
  BY DEF SInv, AllFresh, IInv, TypeOK
<1>2. ASSUME room'.active = room.active PROVE EndRevokesEverybody'
  BY <1>1, <1>2 DEF EndRevokesEverybody, WrittenOK
<1>3. CASE SaveMember(h) \/ CreateMember(h) \/ MuteAll(h)
  BY <1>2, <1>3 DEF SaveMember, CreateMember, MuteAll
<1>4. CASE Deactivate(h)
  <2>1. Fresh(req[h]) /\ req[h].op = "deactivate_classroom"
    BY <1>1, <1>4 DEF Deactivate, Due, Unwritten
  <2>2. \A m \in Member : row[m].active => m \in req[h].ids
    BY <2>1 DEF Fresh, FreshRoom
  <2>3. \A m \in Member :
          row'[m] = IF m \in req[h].ids
                      THEN [row[m] EXCEPT !.active = FALSE, !.waiting = FALSE, !.hand = FALSE]
                      ELSE row[m]
    BY <1>4 DEF Deactivate
  <2>4. \A m \in Member : ~row'[m].active
    BY <1>1, <2>2, <2>3 DEF Row
  <2>5. QED
    BY <2>4 DEF EndRevokesEverybody
<1>5. CASE SaveRoom(h)
  <2>1. Fresh(req[h]) /\ req[h].op \in {"set_classroom_locked", "update_settings", "customize"}
    BY <1>1, <1>5 DEF SaveRoom, Due, Unwritten, RoomOps
  <2>2. room'.active = room.active
    BY <1>1, <1>5, <2>1 DEF SaveRoom, Fresh, FreshRoom, Room
  <2>3. QED
    BY <1>2, <2>2
<1>6. QED
  BY <1>3, <1>4, <1>5 DEF Save

\* A request that is over, or only has events left, knows nothing any more.
LEMMA SerialDone ==
  ASSUME SInv, OneAtATime, NEW h \in Handler, Done(h), Due(req[h], Op)
  PROVE  AllFresh'
<1>1. req[h] \in Request /\ req \in [Handler -> Request]
  BY DEF SInv, IInv, TypeOK
<1>2. ~Unwritten(req'[h])
  BY <1>1 DEF Done, Unwritten, Idle, Request
<1>3. QED
  BY <1>2 DEF OneAtATime, AllFresh

LEMMA SerialSave ==
  ASSUME SInv, IInv', OneAtATime, NEW h \in Handler, Save(h)
  PROVE  SInv'
<1>1. \A m \in Member : WrittenOK(req[h], m)
  BY SerialWrite
<1>2. EndRevokesEverybody'
  BY <1>1, SerialWriteEnds
<1>3. Blank'
  BY <1>1 DEF Blank, WrittenOK
<1>4. Done(h) /\ Due(req[h], Op)
  BY DEF Save, SaveMember, CreateMember, MuteAll, Deactivate, SaveRoom, Due, Op, BulkOps
<1>5. QED
  BY <1>2, <1>3, <1>4, SerialDone DEF SInv

LEMMA SerialInit == Init => SInv
<1> SUFFICES ASSUME Init PROVE SInv
  OBVIOUS
<1>1. IInv
  BY InvInit
<1>2. /\ row[Owner] = NewRow("OWNER", FALSE, NoIp)
      /\ \A m \in Member \ {Owner} : row[m] = NoRow
      /\ room.active /\ \A h \in Handler : req[h] = Idle
  BY OwnerIsMember DEF Init
<1>3. Blank
  <2>1. row[Owner].known /\ \A m \in Member \ {Owner} : ~row[m].active /\ ~row[m].banned /\ ~row[m].muted
    BY <1>2 DEF NewRow, NoRow
  <2>2. QED
    BY <2>1 DEF Blank
<1>4. AllFresh /\ EndRevokesEverybody
  BY <1>2 DEF AllFresh, EndRevokesEverybody, Unwritten, Idle
<1>5. QED
  BY <1>1, <1>3, <1>4 DEF SInv

LEMMA SerialStep ==
  ASSUME OneAtATime, SInv, [Next]_vars
  PROVE  SInv'
<1>0. IInv' /\ TypeOK
  BY InvStep DEF SInv, IInv
<1>1. ASSUME NEW h \in Handler, Refused(h) PROVE SInv'
  <2>1. \A k \in Handler : req'[k] = Idle
    BY <1>0, <1>1 DEF Refused, OneAtATime, TypeOK
  <2>2. AllFresh' /\ UNCHANGED <<room, row>>
    BY <1>1, <2>1 DEF AllFresh, Refused, Unwritten, Idle
  <2>3. QED
    BY <1>0, <2>2 DEF SInv, Blank, EndRevokesEverybody
<1>2. ASSUME NEW h \in Handler, Announce(h) PROVE SInv'
  <2> DEFINE r == [req[h] EXCEPT !.phase = "announced"]
  <2>1. UNCHANGED <<room, row>>
    BY <1>2 DEF Announce
  <2>2. CASE req[h].phase = "saved"
    <3>1. \A k \in Handler : req'[k] = Idle
      BY <1>0, <1>2, <2>2 DEF Announce, OneAtATime, TypeOK
    <3>2. AllFresh'
      BY <3>1 DEF AllFresh, Unwritten, Idle
    <3>3. QED
      BY <1>0, <2>1, <3>2 DEF SInv, Blank, EndRevokesEverybody
  <2>3. CASE req[h].phase # "saved"
    <3>1. req' = [req EXCEPT ![h] = r] /\ Unwritten(req[h])
      BY <1>2, <2>3 DEF Announce, Announces, Unwritten
    <3>2. Fresh(req[h]) /\ req[h] \in Request
      BY <1>0, <3>1 DEF SInv, AllFresh, TypeOK
    <3>3. /\ r.op = req[h].op /\ r.actor = req[h].actor /\ r.target = req[h].target
          /\ r.copy = req[h].copy /\ r.perm = req[h].perm /\ r.room = req[h].room
          /\ r.ids = req[h].ids
      BY <3>2 DEF Request
    <3> HIDE DEF r
    <3>4. Fresh(r)
      BY <3>2, <3>3 DEF Fresh, FreshEntry, FreshCopy, FreshRoom
    <3>5. QED
      BY <1>0, <2>1, <3>1, <3>4, SerialRead
  <2>4. QED
    BY <2>2, <2>3
<1>3. ASSUME NEW m \in Member, BanExpires(m) PROVE SInv'
  <2>1. /\ row \in [Member -> Row] /\ row[m] \in Row
        /\ row' = [row EXCEPT ![m].banned = FALSE] /\ UNCHANGED <<room, req>>
    BY <1>0, <1>3 DEF BanExpires, TypeOK
  <2>2. \A k \in Member :
          /\ row'[k].known = row[k].known /\ row'[k].active = row[k].active
          /\ row'[k].muted = row[k].muted /\ row'[k].ip = row[k].ip
          /\ row'[k].role = row[k].role
          /\ row'[k].banned => row[k].banned
          /\ k # m => row'[k] = row[k]
    BY <2>1 DEF Row
  <2>3. ASSUME NEW h \in Handler, Unwritten(req[h]) PROVE Fresh(req[h])'
    <3>1. Fresh(req[h]) /\ req[h].target # m /\ req[h].target \in Member /\ req' = req /\ room' = room
      BY <1>0, <1>3, <2>1, <2>3 DEF SInv, AllFresh, BanExpires, Unwritten, TypeOK, Request
    <3>2. row'[req[h].target] = row[req[h].target]
      BY <2>2, <3>1
    <3>3. FreshEntry(req[h])'
      BY <2>2, <3>1, <3>2 DEF Fresh, FreshEntry, Member
    <3>4. FreshCopy(req[h])'
      BY <3>1, <3>2 DEF Fresh, FreshCopy
    <3>5. FreshRoom(req[h])'
      BY <2>2, <3>1 DEF Fresh, FreshRoom
    <3>6. QED
      BY <3>3, <3>4, <3>5 DEF Fresh
  <2>4. AllFresh' /\ Blank' /\ EndRevokesEverybody'
    BY <2>1, <2>2, <2>3 DEF SInv, AllFresh, Blank, EndRevokesEverybody, Unwritten
  <2>5. QED
    BY <1>0, <2>4 DEF SInv
<1>4. CASE UNCHANGED vars
  <2>1. Blank' /\ EndRevokesEverybody' /\ AllFresh'
    BY <1>4 DEF vars, SInv, Blank, EndRevokesEverybody, AllFresh, Unwritten, Fresh, FreshEntry,
       FreshCopy, FreshRoom
  <2>2. QED
    BY <1>0, <2>1 DEF SInv
<1>5. QED
  BY <1>0, <1>1, <1>2, <1>3, <1>4, Proceeding, SerialJoinOrLeave, SerialHostOnMember,
     SerialHostOnRoom, SerialSave
  DEF Next

THEOREM SerialInductive == ASSUME OneAtATime PROVE Spec => []SInv
<1>1. SInv /\ [Next]_vars => SInv'
  BY SerialStep
<1>2. QED
  BY <1>1, SerialInit, PTL DEF Spec

-----------------------------------------------------------------------------
(* What follows.                                                           *)

\* An operation that begins takes a handler that was idle and writes nothing yet.
LEMMA ReadsWriteNothing ==
  ASSUME TypeOK, NEW h \in Handler, JoinOrLeave(h) \/ HostOnMember(h) \/ HostOnRoom(h)
  PROVE  req[h].phase = "idle" /\ req'[h].phase = "read" /\ UNCHANGED <<room, row>>
<1> DEFINE Goal == req[h].phase = "idle" /\ req'[h].phase = "read" /\ UNCHANGED <<room, row>>
<1>1. ASSUME NEW op, NEW a, NEW t, NEW copy, Begin(h, op, a, t, copy) PROVE Goal
  BY <1>1 DEF Begin, Idle, TypeOK
<1>2. ASSUME NEW op, NEW a, NEW instance, NEW fields, BeginRoom(h, op, a, instance, fields)
      PROVE  Goal
  BY <1>2 DEF BeginRoom, Idle, TypeOK
<1>3. ASSUME NEW a, NEW t, NEW p, NEW value, set_member_permission(h, a, t, p, value)
      PROVE  Goal
  BY <1>3 DEF set_member_permission, Idle, TypeOK
<1>4. ASSUME NEW a, deactivate_classroom(h, a) PROVE Goal
  BY <1>4 DEF deactivate_classroom, Idle, TypeOK
<1> HIDE DEF Goal
<1>5. JoinOrLeave(h) => Goal
  BY <1>1 DEF JoinOrLeave, join_classroom, join_classroom_guest, deactivate_member,
     set_hand_raised
<1>6. HostOnMember(h) => Goal
  BY <1>1, <1>3 DEF HostOnMember, set_member_role, set_member_muted, remove_member,
     approve_waiting_room, deny_waiting_room
<1>7. HostOnRoom(h) => Goal
  BY <1>1, <1>2, <1>4 DEF HostOnRoom, mute_all, set_classroom_locked, update_settings, customize
<1>8. QED
  BY <1>5, <1>6, <1>7 DEF Goal

\* What a step of the system does to the row of a member: nothing, what WrittenOK says, or
\* the end of a ban.
LEMMA SerialRowStep ==
  ASSUME SInv, [Next]_vars, NEW m \in Member
  PROVE  \/ row'[m] = row[m]
         \/ \E h \in Handler : Save(h) /\ WrittenOK(req[h], m)
         \/ /\ BanExpires(m)
            /\ row'[m].known = row[m].known /\ row'[m].role = row[m].role
            /\ row'[m].muted = row[m].muted /\ row'[m].active = row[m].active
            /\ row'[m].waiting = row[m].waiting
<1>1. ASSUME NEW h \in Handler, Save(h) PROVE WrittenOK(req[h], m)
  BY <1>1, SerialWrite
<1>2. ASSUME NEW k \in Member, BanExpires(k) PROVE row'[m] = row[m] \/ k = m
  BY <1>2 DEF BanExpires, SInv, IInv, TypeOK
<1>3. ASSUME BanExpires(m)
      PROVE  /\ row'[m].known = row[m].known /\ row'[m].role = row[m].role
             /\ row'[m].muted = row[m].muted /\ row'[m].active = row[m].active
             /\ row'[m].waiting = row[m].waiting
  <2>1. row[m] \in Row /\ row'[m] = [row[m] EXCEPT !.banned = FALSE]
    BY <1>3 DEF BanExpires, SInv, IInv, TypeOK
  <2>2. QED
    BY <2>1 DEF Row
<1>4. ASSUME NEW h \in Handler, JoinOrLeave(h) \/ HostOnMember(h) \/ HostOnRoom(h)
      PROVE  row' = row
  BY <1>4, ReadsWriteNothing DEF SInv, IInv
<1>5. ASSUME NEW h \in Handler, Refused(h) \/ Announce(h) PROVE row' = row
  BY <1>5 DEF Refused, Announce
<1>6. UNCHANGED vars => row' = row
  BY DEF vars
<1>7. QED
  BY <1>1, <1>2, <1>3, <1>4, <1>5, <1>6, Proceeding DEF Next

\* No join, removal, grant or role change that follows clears a running ban: banned_until
\* passes, or the member stays out (remove_member, join_classroom and every save).
THEOREM BansRunTheirTime == ASSUME OneAtATime PROVE Spec => BanRunsItsTime
<1>1. SInv /\ [Next]_vars =>
        [\A m \in Member : row[m].banned /\ ~row[m]'.banned => BanExpires(m)]_vars
  BY SerialRowStep DEF WrittenOK
<1>2. QED
  BY <1>1, SerialInductive, PTL DEF Spec, BanRunsItsTime

\* A muted member who leaves and joins again, or is given a role or another capability, is
\* still muted (set_member_muted, set_member_permission and the columns every save names).
THEOREM MutesStick == ASSUME OneAtATime PROVE Spec => MuteSticks
<1>1. SInv /\ [Next]_vars =>
        [\A m \in Member : row[m].muted /\ ~row[m]'.muted =>
           \E h \in Handler : Due(req[h], MemberOps) /\ Unmutes(req[h], m)]_vars
  BY SerialRowStep DEF WrittenOK
<1>2. QED
  BY <1>1, SerialInductive, PTL DEF Spec, MuteSticks

\* Neither a moderator nor a re-join changes what somebody is in the class
\* (set_member_role, set_member_permission, join_classroom).
THEOREM RolesComeFromTheOwner == ASSUME OneAtATime PROVE Spec => OnlyOwnerAssignsRoles
<1>1. SInv /\ [Next]_vars =>
        [\A m \in Member : row[m].known /\ row[m].role # row[m]'.role =>
           \E h \in Handler : /\ req[h].op = "set_member_role"
                              /\ req[h].target = m
                              /\ req[h].actor = Owner]_vars
  BY SerialRowStep DEF WrittenOK
<1>2. QED
  BY <1>1, SerialInductive, PTL DEF Spec, OnlyOwnerAssignsRoles

\* Every way in passes the lock, the end of the class and the bans, a banned address
\* included (join_classroom, join_classroom_guest; no host action lets anybody in).
THEOREM NoWayAround == ASSUME OneAtATime PROVE Spec => NoBackDoor
<1>1. SInv /\ [Next]_vars =>
        [\A m \in Member : ~row[m].active /\ row[m]'.active =>
           /\ room.active /\ ~room.locked /\ ~row[m].banned
           /\ m \in Guest /\ row[m]'.ip # NoIp =>
                \A b \in Guest : row[b].banned => row[b].ip # row[m]'.ip]_vars
  BY SerialRowStep DEF WrittenOK
<1>2. QED
  BY <1>1, SerialInductive, PTL DEF Spec, NoBackDoor

-----------------------------------------------------------------------------
(* The doors (module Doors).                                               *)

\* Nobody is left with an active membership of a classroom that has ended.
LEMMA WhoIsInside ==
  ASSUME EndRevokesEverybody, NEW m \in Member
  PROVE  /\ resolve_member(m) = Active(m)
         /\ Active(m) => room.active
         /\ InClass(m) = Admitted(m)
<1>1. resolve_member(m) = Active(m)
  BY DEF resolve_member, get_active_member, get_guest_member, Member, Active
<1>2. Active(m) => room.active
  BY DEF EndRevokesEverybody, Active
<1>3. QED
  BY <1>1, <1>2 DEF InClass, Admitted

LEMMA EveryAddressLeadsHome ==
  ASSUME EndRevokesEverybody, NEW m \in Member
  PROVE  OnePlace(m)
<1> DEFINE home == IF InClass(m) THEN "room" ELSE IF Active(m) THEN "waiting" ELSE lobby_view(m)
<1>1. ASSUME NEW p \in Page
      PROVE  LET end == Answer(Answer(p, m), m) IN
             Answer(end, m) = end /\ (room.active => end = home)
  <2> USE WhoIsInside DEF Answer, lobby_view, waiting_view, room_view, Admitted
  <2>1. CASE p = "lobby"
    BY <2>1
  <2>2. CASE p = "waiting"
    BY <2>2
  <2>3. CASE p = "room"
    BY <2>3
  <2>4. QED
    BY <1>1, <2>1, <2>2, <2>3 DEF Page
<1>2. room.active => leave_view(m) = (home \in {"room", "waiting"})
  <2>1. leave_view(m) = Active(m)
    BY WhoIsInside DEF leave_view
  <2>2. Active(m) => home \in {"room", "waiting"}
    OBVIOUS
  <2>3. room.active /\ ~Active(m) => home \notin {"room", "waiting"}
    BY WhoIsInside DEF lobby_view, Admitted
  <2> HIDE DEF home
  <2>4. QED
    BY <2>1, <2>2, <2>3 DEF Active
<1>3. QED
  BY <1>1, <1>2 DEF OnePlace

LEMMA OneDoorOpensAll ==
  ASSUME EndRevokesEverybody, NEW m \in Member
  PROVE  AdmittingDoors(m) = {InClass(m)}
<1>1. /\ (room_view(m) = "room") = InClass(m)
      /\ media_token_view(m) = InClass(m)
      /\ socket_opens(m) = InClass(m)
      /\ file_download_view(m) = InClass(m)
      /\ quiz_answer_view(m) = InClass(m)
      /\ _member_active_now(m) = InClass(m)
  BY WhoIsInside
     DEF room_view, media_token_view, socket_opens, resolve_scope_member, file_download_view,
         quiz_answer_view, _member_or_none, _member_active_now, Admitted, Active
<1>2. m \in User => /\ MessageListAPIView(m) = InClass(m) /\ FileListAPIView(m) = InClass(m)
                     /\ file_delete_view(m) = InClass(m)
  BY WhoIsInside
     DEF MessageListAPIView, FileListAPIView, file_delete_view, initial, get_active_member,
         Admitted, Active
<1>3. QED
  BY <1>1, <1>2 DEF AdmittingDoors

\* Somebody with an active membership is in class or waits, the classroom running.
LEMMA InsideOrWaiting ==
  ASSUME EndRevokesEverybody, NEW u \in User
  PROVE  /\ Active(u) = (InClass(u) \/ Waits(u))
         /\ get_active_member(u) = Active(u)
         /\ Active(u) => room.active
<1>1. u \in Member
  BY DEF Member
<1>2. (Active(u) => room.active) /\ InClass(u) = Admitted(u)
  BY <1>1, WhoIsInside
<1>3. Active(u) = (InClass(u) \/ Waits(u))
  BY <1>2 DEF Waits, Admitted, Active, InClass
<1>4. get_active_member(u) = Active(u)
  BY DEF get_active_member, Active
<1>5. QED
  BY <1>2, <1>3, <1>4

LEMMA TheUnaskedAgree ==
  ASSUME EndRevokesEverybody, NEW u \in User
  PROVE  UnaskedDoors(u)
<1> DEFINE inside == InClass(u) \/ Waits(u)
<1>1. Active(u) = inside /\ get_active_member(u) = Active(u) /\ (Active(u) => room.active)
  BY InsideOrWaiting
<1> HIDE DEF inside
<1>2. /\ file_upload_view(u) = (inside /\ "can_upload_files" \in Effective(u))
      /\ set_presentation(u) = (inside /\ "can_present" \in Effective(u))
  BY <1>1 DEF file_upload_view, set_presentation
<1>3. /\ _require_privileged(u) = (inside /\ is_privileged(row[u]))
      /\ attendance_view(u) = (inside /\ is_privileged(row[u]))
  BY <1>1 DEF _require_privileged, attendance_view, Active, is_privileged
<1>4. QED
  BY <1>2, <1>3 DEF UnaskedDoors, inside

LEMMA HostsAgree ==
  ASSUME EndRevokesEverybody, OwnerSovereign, NEW u \in User
  PROVE  HostDoors(u)
<1>1. Active(u) => room.active
  BY InsideOrWaiting
<1> DEFINE host == _require_privileged(u) /\ ~Waits(u)
<1>2. AttendanceListAPIView(u) = host /\ ParticipantUpdateAPIView(u) = host
  BY <1>1
     DEF AttendanceListAPIView, ParticipantUpdateAPIView, initial, get_active_member,
         _require_privileged, Waits, Active, is_privileged
<1>3. _is_privileged_now(u) = host
  BY <1>1
     DEF _is_privileged_now, _member_active_now, _require_privileged, Waits, Active,
         is_privileged
<1>4. {AttendanceListAPIView(u), ParticipantUpdateAPIView(u), _is_privileged_now(u)} = {host}
  BY <1>2, <1>3
<1>5. classroom_delete_view(u) = (classroom_detail_view(u) /\ Active(u))
  <2>1. u = Owner => row[u].role = "OWNER"
    BY DEF OwnerSovereign
  <2>2. QED
    BY <2>1 DEF classroom_delete_view, classroom_detail_view, _require_owner
<1>6. ASSUME initial(u, FALSE), NEW m \in participants(u), row[m].waiting
      PROVE  _require_privileged(u)
  BY <1>1, <1>6
     DEF initial, get_active_member, participants, _require_privileged
<1>7. QED
  BY <1>4, <1>5, <1>6 DEF HostDoors

LEMMA ListsAgree ==
  ASSUME EndRevokesEverybody, OwnerSovereign, NEW u \in User
  PROVE  Lists(u)
<1>1. u \in Member
  BY DEF Member
<1>2. (row[u].role = "OWNER") <=> (u = Owner)
  BY <1>1 DEF OwnerSovereign
<1>3. dashboard_view(u) = classroom_list_view(u)
  BY <1>2 DEF dashboard_view, classroom_list_view
<1>4. /\ ClassroomListCreateAPIView(u) = ("owned" \in dashboard_view(u))
      /\ ClassroomDetailAPIView(u) = (dashboard_view(u) # {})
  BY DEF ClassroomListCreateAPIView, ClassroomDetailAPIView, dashboard_view
<1>5. ASSUME "joined" \in dashboard_view(u)
      PROVE  lobby_view(u) \in {"room", "waiting"}
  <2>1. Active(u)
    BY <1>5 DEF dashboard_view
  <2>2. QED
    BY <2>1, <1>1, WhoIsInside DEF lobby_view
<1>6. QED
  BY <1>3, <1>4, <1>5 DEF Lists

\* The pages, the tokens, the files, the sockets, the API and the lists that ask for
\* admission agree on who is in class, although most of them never ask whether the
\* classroom is still running: the end of the classroom has cleared every membership
\* (deactivate_classroom), and nobody gets one afterwards.  Uploading, presenting, the host
\* actions and the report of a session, which do not ask whether the member waits, are open
\* to who is in class or waits, and to nobody else.
THEOREM OneAnswerForAll == ASSUME OneAtATime PROVE Spec => []DoorsAgree
<1>1. SInv => DoorsAgree
  <2> SUFFICES ASSUME SInv PROVE DoorsAgree
    OBVIOUS
  <2>1. EndRevokesEverybody /\ OwnerSovereign
    BY DEF SInv, IInv
  <2>2. \A m \in Member : OnePlace(m) /\ AdmittingDoors(m) = {InClass(m)}
    BY <2>1, EveryAddressLeadsHome, OneDoorOpensAll
  <2>3. \A u \in User : UnaskedDoors(u) /\ HostDoors(u) /\ Lists(u)
    BY <2>1, TheUnaskedAgree, HostsAgree, ListsAgree
  <2>4. QED
    BY <2>2, <2>3 DEF DoorsAgree
<1>2. QED
  BY <1>1, SerialInductive, PTL

-----------------------------------------------------------------------------
(***************************************************************************)
(* The end of the classroom, whatever requests overlap it (module          *)
(* Closing).  An end that has made its list and not yet committed has      *)
(* listed whoever is active, but for those who became active since.        *)
(***************************************************************************)
ListedOrLate ==
  /\ OnlyLatecomersRemain
  /\ \A h \in Handler : EndsNow(h) =>
       \A m \in Member : Active(m) => m \in req[h].ids \cup latecomers
  /\ \A h \in Handler : req[h].op = "customize" => req[h].room.active

CInv == TypeOK /\ ListedOrLate

\* Who is active and not late was active before the step, and not late then.
LEMMA NotLate ==
  ASSUME ClosingNext, NEW m \in Member, Active(m)', m \notin latecomers'
  PROVE  /\ m \notin latecomers
         /\ Active(m) \/ (room.active /\ \A h \in Handler : ~EndsNow(h))
BY DEF ClosingNext

\* A step that leaves the room's end and the requests of deactivate_classroom and of the
\* form as they were.
LEMMA ListsKept ==
  ASSUME CInv, ClosingNext, TypeOK',
         room'.active = room.active,
         \A h \in Handler : EndsNow(h)' => EndsNow(h) /\ req'[h].ids = req[h].ids,
         \A h \in Handler : req'[h].op = "customize" => req'[h].room.active
  PROVE  CInv'
<1>1. ASSUME NEW m \in Member, ~room'.active, Active(m)' PROVE m \in latecomers'
  <2> SUFFICES ASSUME m \notin latecomers' PROVE FALSE
    OBVIOUS
  <2>1. m \notin latecomers /\ Active(m)
    BY <1>1, NotLate
  <2>2. QED
    BY <1>1, <2>1 DEF CInv, ListedOrLate, OnlyLatecomersRemain
<1>2. ASSUME NEW h \in Handler, EndsNow(h)', NEW m \in Member, Active(m)'
      PROVE  m \in req'[h].ids \cup latecomers'
  <2> SUFFICES ASSUME m \notin latecomers' PROVE m \in req'[h].ids
    OBVIOUS
  <2>1. EndsNow(h) /\ req'[h].ids = req[h].ids
    BY <1>2
  <2>2. m \notin latecomers /\ Active(m)
    BY <1>2, <2>1, NotLate
  <2>3. QED
    BY <2>1, <2>2 DEF CInv, ListedOrLate
<1>3. QED
  BY <1>1, <1>2 DEF CInv, ListedOrLate, OnlyLatecomersRemain

\* A request that is made in handler h and is no end of the classroom.
LEMMA BeginsOther ==
  ASSUME CInv, ClosingNext, TypeOK', NEW h \in Handler, NEW r \in Request,
         room' = room, req' = [req EXCEPT ![h] = r],
         r.op # "deactivate_classroom", r.op = "customize" => r.room.active
  PROVE  CInv'
<1>1. \A k \in Handler : req'[k] = IF k = h THEN r ELSE req[k]
  BY DEF CInv, TypeOK
<1>2. \A k \in Handler : EndsNow(k)' => EndsNow(k) /\ req'[k].ids = req[k].ids
  BY <1>1 DEF EndsNow
<1>3. \A k \in Handler : req'[k].op = "customize" => req'[k].room.active
  BY <1>1 DEF CInv, ListedOrLate
<1>4. QED
  BY <1>2, <1>3, ListsKept

LEMMA ClosingBegin ==
  ASSUME CInv, ClosingNext, TypeOK', NEW h \in Handler,
         JoinOrLeave(h) \/ HostOnMember(h) \/ HostOnRoom(h)
  PROVE  CInv'
<1> USE DEF MemberOps, CreateOps, Idle
<1>0. req \in [Handler -> Request] /\ req' \in [Handler -> Request]
  BY DEF CInv, TypeOK
<1>1. ASSUME NEW op \in MemberOps \cup CreateOps \cup {"mute_all"}, NEW a, NEW t, NEW copy,
             Begin(h, op, a, t, copy)
      PROVE  CInv'
  <2>1. req'[h].op = op /\ req' = [req EXCEPT ![h] = req'[h]] /\ room' = room
    BY <1>0, <1>1 DEF Begin
  <2>2. QED
    BY <1>0, <2>1, BeginsOther
<1>2. ASSUME NEW op \in RoomOps, NEW a, NEW instance, NEW fields,
             BeginRoom(h, op, a, instance, fields), op = "customize" => instance.active
      PROVE  CInv'
  <2>1. /\ req'[h].op = op /\ req'[h].room = instance
        /\ req' = [req EXCEPT ![h] = req'[h]] /\ room' = room
    BY <1>0, <1>2 DEF BeginRoom
  <2>2. QED
    BY <1>0, <1>2, <2>1, BeginsOther DEF RoomOps
<1>3. ASSUME NEW a, NEW t, NEW p, NEW value, set_member_permission(h, a, t, p, value)
      PROVE  CInv'
  <2>1. /\ req'[h].op = "set_member_permission"
        /\ req' = [req EXCEPT ![h] = req'[h]] /\ room' = room
    BY <1>0, <1>3 DEF set_member_permission
  <2>2. QED
    BY <1>0, <2>1, BeginsOther
<1>4. ASSUME NEW a, deactivate_classroom(h, a) PROVE CInv'
  <2>1. /\ req'[h].ids = { m \in Member : Active(m) } /\ req'[h].op = "deactivate_classroom"
        /\ \A k \in Handler \ {h} : req'[k] = req[k]
        /\ room' = room /\ row' = row /\ room.active
    BY <1>0, <1>4 DEF deactivate_classroom, _require_owner
  <2>2. ASSUME NEW k \in Handler, EndsNow(k)', NEW m \in Member, Active(m)'
        PROVE  m \in req'[k].ids \cup latecomers'
    <3> SUFFICES ASSUME m \notin latecomers' PROVE m \in req'[k].ids
      OBVIOUS
    <3>1. m \notin latecomers /\ Active(m)
      BY <2>1, <2>2, NotLate DEF Active
    <3>2. CASE k = h
      BY <2>1, <3>1, <3>2
    <3>3. CASE k # h
      <4>1. req'[k] = req[k] /\ EndsNow(k)
        BY <2>1, <2>2, <3>3 DEF EndsNow
      <4>2. QED
        BY <3>1, <4>1 DEF CInv, ListedOrLate
    <3>4. QED
      BY <3>2, <3>3
  <2>3. \A k \in Handler : req'[k].op = "customize" => req'[k].room.active
    BY <2>1 DEF CInv, ListedOrLate
  <2>4. QED
    BY <2>1, <2>2, <2>3 DEF CInv, ListedOrLate, OnlyLatecomersRemain
<1>5. JoinOrLeave(h) => CInv'
  BY <1>1 DEF JoinOrLeave, join_classroom, join_classroom_guest, deactivate_member,
     set_hand_raised
<1>6. HostOnMember(h) => CInv'
  BY <1>1, <1>3 DEF HostOnMember, set_member_role, set_member_muted, remove_member,
     approve_waiting_room, deny_waiting_room
<1>7. HostOnRoom(h) => CInv'
  <2>1. ASSUME NEW values, customize(h, values) PROVE CInv'
    <3>1. [room EXCEPT !.on = (@ \ {"allow_guests"}) \cup values].active
      BY <2>1 DEF customize, CInv, TypeOK, Room
    <3>2. QED
      BY <2>1, <3>1, <1>2 DEF customize, RoomOps
  <2>2. ASSUME NEW a \in User, NEW locked, set_classroom_locked(h, a, locked) PROVE CInv'
    BY <2>2, <1>2 DEF set_classroom_locked, RoomOps
  <2>3. ASSUME NEW a \in User, NEW fields, NEW values, update_settings(h, a, fields, values)
        PROVE  CInv'
    BY <2>3, <1>2 DEF update_settings, RoomOps
  <2>4. QED
    BY <1>1, <1>4, <2>1, <2>2, <2>3 DEF HostOnRoom, mute_all
<1>8. QED
  BY <1>5, <1>6, <1>7

\* The writes.  The end clears whom it has listed; of the others none ends a classroom.
LEMMA ClosingWrite ==
  ASSUME CInv, ClosingNext, TypeOK', NEW h \in Handler, Save(h)
  PROVE  CInv'
<1> DEFINE done == IF req[h].op \in AtomicOps THEN Idle ELSE [req[h] EXCEPT !.phase = "saved"]
<1>0. req \in [Handler -> Request] /\ req' \in [Handler -> Request]
  BY DEF CInv, TypeOK
<1>1. req' = [req EXCEPT ![h] = done]
  BY DEF Save, SaveMember, CreateMember, MuteAll, Deactivate, SaveRoom, Done
<1>2. \A k \in Handler : req'[k] = IF k = h THEN done ELSE req[k]
  BY <1>0, <1>1
<1>3. /\ done.op = "customize" => req[h].op = "customize" /\ done.room = req[h].room
      /\ done.op = "deactivate_classroom" => done.phase \notin {"read", "announced"}
  BY <1>0 DEF Idle, Request, AtomicOps
<1> HIDE DEF done
<1>4. \A k \in Handler : EndsNow(k)' => EndsNow(k) /\ req'[k].ids = req[k].ids
  BY <1>2, <1>3 DEF EndsNow
<1>5. \A k \in Handler : req'[k].op = "customize" => req'[k].room.active
  BY <1>2, <1>3 DEF CInv, ListedOrLate
<1>6. CASE room'.active = room.active
  BY <1>4, <1>5, <1>6, ListsKept
<1>7. CASE Deactivate(h)
  <2>1. /\ EndsNow(h)
        /\ \A m \in Member : m \in req[h].ids => ~Active(m)'
    BY <1>7 DEF Deactivate, Due, AtomicOps, EndsNow, CInv, TypeOK, Row, Active
  <2>2. ASSUME NEW m \in Member, Active(m)', m \notin latecomers'
        PROVE  FALSE
    <3>1. m \notin latecomers /\ Active(m)
      BY <2>1, <2>2, NotLate
    <3>2. m \in req[h].ids
      BY <2>1, <3>1 DEF CInv, ListedOrLate
    <3>3. QED
      BY <2>1, <2>2, <3>2
  <2>3. QED
    BY <1>5, <2>2 DEF CInv, ListedOrLate, OnlyLatecomersRemain
<1>8. CASE SaveRoom(h) /\ room'.active # room.active
  <2>1. req[h].op = "customize" /\ room' = req[h].room
    BY <1>8 DEF SaveRoom, Due, RoomOps, CInv, TypeOK, Room
  <2>2. room'.active
    BY <2>1 DEF CInv, ListedOrLate
  <2>3. ASSUME NEW k \in Handler, EndsNow(k)', NEW m \in Member, Active(m)'
        PROVE  m \in req'[k].ids \cup latecomers'
    BY <1>4, <2>3, NotLate DEF CInv, ListedOrLate
  <2>4. QED
    BY <1>5, <2>2, <2>3 DEF CInv, ListedOrLate, OnlyLatecomersRemain
<1>9. SaveMember(h) \/ CreateMember(h) \/ MuteAll(h) => room'.active = room.active
  BY DEF SaveMember, CreateMember, MuteAll
<1>10. QED
  BY <1>6, <1>7, <1>8, <1>9 DEF Save

LEMMA ClosingStep == CInv /\ [ClosingNext]_closingVars => CInv'
<1> SUFFICES ASSUME CInv, [ClosingNext]_closingVars PROVE CInv'
  OBVIOUS
<1>1. CASE UNCHANGED closingVars
  BY <1>1 DEF closingVars, vars, CInv, ListedOrLate, OnlyLatecomersRemain, EndsNow, TypeOK, Active
<1>2. CASE ClosingNext
  <2>0. TypeOK /\ TypeOK'
    BY <1>2, TypeStep DEF ClosingNext, CInv
  <2>1. ASSUME NEW h \in Handler, Refused(h) PROVE CInv'
    <3>1. room' = room /\ req' = [req EXCEPT ![h] = Idle]
      BY <2>1 DEF Refused
    <3>2. Idle.op = "none"
      BY DEF Idle
    <3>3. QED
      BY <1>2, <2>0, <3>1, <3>2, IdleIsRequest, BeginsOther
  <2>2. ASSUME NEW h \in Handler, Announce(h) PROVE CInv'
    <3>1. CASE req[h].phase = "saved"
      <4>1. room' = room /\ req' = [req EXCEPT ![h] = Idle]
        BY <2>2, <3>1 DEF Announce
      <4>2. Idle.op = "none"
        BY DEF Idle
      <4>3. QED
        BY <1>2, <2>0, <4>1, <4>2, IdleIsRequest, BeginsOther
    <3>2. CASE req[h].phase # "saved"
      <4>1. /\ req[h].phase = "read" /\ room' = room
            /\ req' = [req EXCEPT ![h] = [req[h] EXCEPT !.phase = "announced"]]
        BY <2>2, <3>2 DEF Announce, Announces
      <4>2. \A k \in Handler : /\ req'[k].op = req[k].op /\ req'[k].ids = req[k].ids
                               /\ req'[k].room = req[k].room
                               /\ req'[k].phase \in {"read", "announced"} =>
                                    req[k].phase \in {"read", "announced"}
        BY <2>0, <4>1 DEF TypeOK, Request
      <4>3. /\ \A k \in Handler : EndsNow(k)' => EndsNow(k) /\ req'[k].ids = req[k].ids
            /\ \A k \in Handler : req'[k].op = "customize" => req'[k].room.active
        BY <4>2 DEF EndsNow, CInv, ListedOrLate
      <4>4. QED
        BY <1>2, <2>0, <4>1, <4>3, ListsKept
    <3>3. QED
      BY <3>1, <3>2
  <2>3. ASSUME NEW m \in Member, BanExpires(m) PROVE CInv'
    <3>1. room' = room /\ req' = req
      BY <2>3 DEF BanExpires
    <3>2. /\ \A k \in Handler : EndsNow(k)' => EndsNow(k) /\ req'[k].ids = req[k].ids
          /\ \A k \in Handler : req'[k].op = "customize" => req'[k].room.active
      BY <3>1 DEF EndsNow, CInv, ListedOrLate
    <3>3. QED
      BY <1>2, <2>0, <3>1, <3>2, ListsKept
  <2>4. QED
    BY <1>2, <2>0, <2>1, <2>2, <2>3, Proceeding, ClosingBegin, ClosingWrite
    DEF ClosingNext, Next
<1>3. QED
  BY <1>1, <1>2

\* Whatever requests overlap the end of the classroom, every active membership it leaves
\* became active after deactivate_classroom made its list.
THEOREM EndMissesLatecomersOnly == ClosingSpec => []OnlyLatecomersRemain
<1>1. ClosingInit => CInv
  <2> SUFFICES ASSUME ClosingInit PROVE CInv
    OBVIOUS
  <2>1. TypeOK
    BY TypeInit DEF ClosingInit
  <2>2. room.active /\ \A h \in Handler : req[h].op = "none"
    BY DEF ClosingInit, Init, Idle
  <2>3. QED
    BY <2>1, <2>2 DEF CInv, ListedOrLate, OnlyLatecomersRemain, EndsNow
<1>2. CInv => OnlyLatecomersRemain
  BY DEF CInv, ListedOrLate
<1>3. QED
  BY <1>1, <1>2, ClosingStep, PTL DEF ClosingSpec

-----------------------------------------------------------------------------
(***************************************************************************)
(* Module Presence implements module Membership: with its sockets and      *)
(* channels hidden, every step of it is a step of Membership or changes    *)
(* none of the tables and requests.  What is proved of the tables          *)
(* therefore holds while sockets act on them.                              *)
(***************************************************************************)
LEMMA StepImplements == PresenceTypeOK /\ [PresenceNext]_presenceVars => [Next]_vars
<1> SUFFICES ASSUME PresenceTypeOK, [PresenceNext]_presenceVars PROVE [Next]_vars
  OBVIOUS
<1>1. CASE UNCHANGED presenceVars
  BY <1>1 DEF presenceVars
<1>2. ASSUME NEW h \in Handler, HttpRequest(h) PROVE Next
  BY <1>2 DEF HttpRequest, Next, JoinOrLeave
<1>3. ASSUME NEW h \in Handler, Table(h) \/ Publish(h) PROVE Next
  BY <1>3, Proceeding DEF Table, Publish, Next
<1>4. ASSUME NEW m \in Member, BanExpires(m) PROVE Next
  BY <1>4 DEF Next
<1>5. ASSUME NEW s \in Sock, NEW h \in Handler, NEW raised \in BOOLEAN,
             RaiseHand(s, h, raised)
      PROVE  Next
  <2>1. conn[s].who \in Member
    BY DEF PresenceTypeOK, Consumer
  <2>2. QED
    BY <1>5, <2>1 DEF RaiseHand, Next, JoinOrLeave
<1>6. ASSUME NEW s \in Sock,
             \/ Connecting(s) \/ Disconnect(s) \/ RefuseAction(s)
             \/ \E msg \in inbox[s] : Dispatch(s, msg)
      PROVE  UNCHANGED vars
  BY <1>6 DEF Connecting, Load, JoinGroups, Snapshot, Disconnect, RefuseAction, Dispatch
<1>7. QED
  BY <1>1, <1>2, <1>3, <1>4, <1>5, <1>6 DEF PresenceNext

LEMMA OffIsConsumer == Off \in Consumer
BY OwnerIsMember DEF Off, Consumer

LEMMA PresenceTypeInit == PresenceInit => PresenceTypeOK
BY TypeInit, OffIsConsumer DEF PresenceInit, PresenceTypeOK

\* The consumers and channels keep their types on every step of theirs.
LEMMA ChannelTypes ==
  ASSUME PresenceTypeOK, [PresenceNext]_presenceVars
  PROVE  conn' \in [Sock -> Consumer] /\ inbox' \in [Sock -> SUBSET Message]
<1>0. /\ TypeOK /\ conn \in [Sock -> Consumer] /\ inbox \in [Sock -> SUBSET Message]
      /\ \A s \in Sock : conn[s] \in Consumer
  BY DEF PresenceTypeOK
<1>1. CASE UNCHANGED <<conn, inbox>>
  BY <1>0, <1>1
<1>2. ASSUME NEW h \in Handler, Publish(h)
      PROVE  conn' \in [Sock -> Consumer] /\ inbox' \in [Sock -> SUBSET Message]
  <2>1. \A s \in Sock : Sent(req[h], s) \subseteq Message
    BY DEF Sent
  <2>2. \A s \in Sock : [conn[s] EXCEPT !.missed = TRUE] \in Consumer
    BY <1>0 DEF Consumer
  <2>3. QED
    BY <1>0, <1>2, <2>1, <2>2 DEF Publish
<1>3. ASSUME NEW s \in Sock, Connecting(s)
      PROVE  conn' \in [Sock -> Consumer] /\ inbox' \in [Sock -> SUBSET Message]
  <2>1. ASSUME NEW m \in Visitor, Load(s, m) PROVE conn' \in [Sock -> Consumer] /\ inbox' = inbox
    <3>1. row[m].waiting \in BOOLEAN /\ m \in Member
      BY <1>0, VisitorAssumption DEF TypeOK, Row
    <3>2. [st |-> "loaded", who |-> m, waiting |-> row[m].waiting,
           missed |-> \E h \in Ending : m \in req[h].ids] \in Consumer
      BY <3>1 DEF Consumer
    <3>3. QED
      BY <1>0, <2>1, <3>2 DEF Load
  <2>2. ASSUME JoinGroups(s) \/ Snapshot(s) PROVE conn' \in [Sock -> Consumer] /\ inbox' = inbox
    <3>1. \A st \in {"grouped", "open"} : [conn[s] EXCEPT !.st = st] \in Consumer
      BY <1>0 DEF Consumer
    <3>2. QED
      BY <1>0, <2>2, <3>1 DEF JoinGroups, Snapshot
  <2>3. QED
    BY <1>0, <1>3, <2>1, <2>2 DEF Connecting
<1>4. ASSUME NEW s \in Sock, Disconnect(s)
      PROVE  conn' \in [Sock -> Consumer] /\ inbox' \in [Sock -> SUBSET Message]
  BY <1>0, <1>4, OffIsConsumer DEF Disconnect
<1>5. ASSUME NEW s \in Sock, RefuseAction(s) \/ \E msg \in inbox[s] : Dispatch(s, msg)
      PROVE  conn' \in [Sock -> Consumer] /\ inbox' \in [Sock -> SUBSET Message]
  <2>1. [conn[s] EXCEPT !.st = "closing"] \in Consumer
    BY <1>0 DEF Consumer
  <2>2. CASE RefuseAction(s)
    BY <1>0, <2>1, <2>2 DEF RefuseAction
  <2>3. CASE \E msg \in inbox[s] : Dispatch(s, msg)
    <3>1. PICK msg \in inbox[s] : Dispatch(s, msg)
      BY <2>3
    <3>2. inbox' = [inbox EXCEPT ![s] = @ \ {msg}] /\ inbox[s] \in SUBSET Message
      BY <1>0, <3>1 DEF Dispatch
    <3>3. inbox' \in [Sock -> SUBSET Message]
      BY <1>0, <3>2
    <3>4. conn' = [conn EXCEPT ![s].st = "closing"] \/ conn' = [conn EXCEPT ![s].st = conn[s].st]
      BY <3>1 DEF Dispatch
    <3>5. [conn[s] EXCEPT !.st = conn[s].st] \in Consumer
      BY <1>0 DEF Consumer
    <3>6. conn' \in [Sock -> Consumer]
      BY <1>0, <2>1, <3>4, <3>5
    <3>7. QED
      BY <3>3, <3>6
  <2>4. QED
    BY <1>5, <2>2, <2>3
<1>6. QED
  BY <1>1, <1>2, <1>3, <1>4, <1>5
  DEF PresenceNext, presenceVars, HttpRequest, Table, RaiseHand

LEMMA PresenceTypeStep == PresenceTypeOK /\ [PresenceNext]_presenceVars => PresenceTypeOK'
<1> SUFFICES ASSUME PresenceTypeOK, [PresenceNext]_presenceVars PROVE PresenceTypeOK'
  OBVIOUS
<1>1. TypeOK'
  BY StepImplements, TypeStep DEF PresenceTypeOK
<1>2. QED
  BY <1>1, ChannelTypes DEF PresenceTypeOK

\* Consumers hold a member and a state of connect(), channels hold group messages.
THEOREM PresenceTypeCorrect == PresenceSpec => []PresenceTypeOK
BY PresenceTypeInit, PresenceTypeStep, PTL DEF PresenceSpec

\* Sockets change the tables by the operations of services.py and in no other
\* way: the module with the consumers implements the one without.
THEOREM PresenceImplementsMembership == PresenceSpec => Spec
<1>1. PresenceInit => Init
  BY DEF PresenceInit
<1>2. QED
  BY <1>1, StepImplements, PresenceTypeCorrect, PTL DEF PresenceSpec, Spec

-----------------------------------------------------------------------------
(* Sockets of members who lost their membership, requests one at a time.   *)

Connected(s) == conn[s].st \in {"loaded", "grouped", "open"}

Closing(msg) == msg.kind \in {"revoked", "ended"}

\* A consumer speaks for a row that exists, and whoever it did not take for waiting is not.
CachedWaiting ==
  \A s \in Sock : conn[s].st # "off" =>
    row[conn[s].who].known /\ (row[conn[s].who].waiting => conn[s].waiting)

\* NoSilentSurvivor, of the consumers too that are still to join their groups.
LostArePending ==
  \A s \in Sock : Connected(s) /\ ~conn[s].missed /\ ~Active(conn[s].who) => ClosePending(s)

\* The end of the classroom is announced before it is committed.
EndIsSent ==
  \A s \in Sock, h \in Handler :
    h \in Ending /\ Connected(s) /\ ~conn[s].missed /\ conn[s].who \in req[h].ids =>
      \E msg \in inbox[s] : Closing(msg)

PInv == PresenceTypeOK /\ SInv /\ CachedWaiting /\ LostArePending /\ EndIsSent

LEMMA SocketInit == PresenceInit => PInv
<1> SUFFICES ASSUME PresenceInit PROVE PInv
  OBVIOUS
<1>1. PresenceTypeOK /\ SInv
  BY PresenceTypeInit, SerialInit DEF PresenceInit
<1>2. \A s \in Sock : conn[s].st = "off"
  BY DEF PresenceInit, Off
<1>3. QED
  BY <1>1, <1>2 DEF PInv, CachedWaiting, LostArePending, EndIsSent, Connected

\* A step of the socket s that leaves the tables and requests alone: it is gone, or it still
\* speaks for the same member and has lost no event that closes it.
SocketStepOK(s) ==
  \/ conn'[s].st = "off"
  \/ /\ conn[s].st # "off"
     /\ conn'[s].who = conn[s].who /\ conn'[s].waiting = conn[s].waiting
     /\ conn'[s].missed = conn[s].missed
     /\ Connected(s)' => Connected(s) /\ \A msg \in inbox[s] : Closing(msg) => msg \in inbox'[s]

LEMMA SocketSteps ==
  ASSUME PInv, PresenceTypeOK', UNCHANGED vars, \A s \in Sock : SocketStepOK(s)
  PROVE  PInv'
<1>0. UNCHANGED <<room, row, req>>
  BY DEF vars
<1>1. SInv'
  BY <1>0 DEF PInv, SInv, IInv, TypeOK, OwnerSovereign, BannedIsOut, WaitingIsActive, InFlightOK,
     Blank, AllFresh, Unwritten, Fresh, FreshEntry, FreshCopy, FreshRoom, EndRevokesEverybody
<1>2. CachedWaiting'
  BY <1>0 DEF PInv, CachedWaiting, SocketStepOK
<1>3. ASSUME NEW s \in Sock, Connected(s)', ~conn'[s].missed, ~Active(conn[s].who)'
      PROVE  ClosePending(s)'
  <2>1. /\ conn'[s].who = conn[s].who /\ Connected(s) /\ ~conn[s].missed
        /\ \A msg \in inbox[s] : Closing(msg) => msg \in inbox'[s]
    BY <1>3 DEF SocketStepOK, Connected
  <2>2. ClosePending(s)
    BY <1>0, <1>3, <2>1 DEF PInv, LostArePending, Active
  <2>3. QED
    BY <1>0, <2>1, <2>2 DEF ClosePending, Closing, Revoked
<1>4. ASSUME NEW s \in Sock, NEW h \in Handler, h \in Ending', Connected(s)',
             ~conn'[s].missed, conn'[s].who \in req'[h].ids
      PROVE  \E msg \in inbox'[s] : Closing(msg)
  <2>1. /\ conn'[s].who = conn[s].who /\ Connected(s) /\ ~conn[s].missed
        /\ \A msg \in inbox[s] : Closing(msg) => msg \in inbox'[s]
    BY <1>4 DEF SocketStepOK, Connected
  <2>2. h \in Ending
    BY <1>0, <1>4 DEF Ending
  <2>3. QED
    BY <1>0, <1>4, <2>1, <2>2 DEF PInv, EndIsSent
<1>5. LostArePending' /\ EndIsSent'
  BY <1>3, <1>4 DEF LostArePending, EndIsSent, Closing
<1>6. QED
  BY <1>1, <1>2, <1>5 DEF PInv

LEMMA KeepsSockets ==
  ASSUME PInv, PresenceTypeOK', NEW s \in Sock,
         \/ JoinGroups(s) \/ Snapshot(s) \/ Disconnect(s) \/ RefuseAction(s)
         \/ \E msg \in inbox[s] : Dispatch(s, msg)
  PROVE  PInv'
<1>0. /\ conn \in [Sock -> Consumer] /\ inbox \in [Sock -> SUBSET Message]
      /\ \A k \in Sock : conn[k] \in Consumer
  BY DEF PInv, PresenceTypeOK
<1>1. UNCHANGED vars
  BY DEF JoinGroups, Snapshot, Disconnect, RefuseAction, Dispatch
<1>2. ASSUME NEW k \in Sock \ {s} PROVE SocketStepOK(k)
  <2>1. conn'[k] = conn[k] /\ inbox'[k] = inbox[k]
    BY <1>0 DEF JoinGroups, Snapshot, Disconnect, RefuseAction, Dispatch
  <2>2. QED
    BY <2>1 DEF SocketStepOK, Connected
<1>3. SocketStepOK(s)
  <2>1. CASE JoinGroups(s) \/ Snapshot(s) \/ RefuseAction(s)
    <3>1. /\ conn'[s].who = conn[s].who /\ conn'[s].waiting = conn[s].waiting
          /\ conn'[s].missed = conn[s].missed
          /\ conn[s].st \in {"loaded", "grouped", "open"} /\ inbox' = inbox
      BY <1>0, <2>1 DEF JoinGroups, Snapshot, RefuseAction, Consumer
    <3>2. QED
      BY <3>1 DEF SocketStepOK, Connected
  <2>2. CASE Disconnect(s)
    BY <1>0, <2>2 DEF Disconnect, Off, SocketStepOK
  <2>3. ASSUME NEW msg \in inbox[s], Dispatch(s, msg) PROVE SocketStepOK(s)
    <3>1. /\ conn'[s].who = conn[s].who /\ conn'[s].waiting = conn[s].waiting
          /\ conn'[s].missed = conn[s].missed /\ conn[s].st = "open"
          /\ Closing(msg) => conn'[s].st = "closing"
          /\ inbox'[s] = inbox[s] \ {msg}
      BY <1>0, <2>3 DEF Dispatch, Consumer, Closing
    <3>2. QED
      BY <3>1 DEF SocketStepOK, Connected
  <2>4. QED
    BY <2>1, <2>2, <2>3
<1>4. QED
  BY <1>1, <1>2, <1>3, SocketSteps

LEMMA KeepsLoad ==
  ASSUME PInv, PresenceTypeOK', NEW s \in Sock, NEW m \in Visitor, Load(s, m)
  PROVE  PInv'
<1>0. /\ conn \in [Sock -> Consumer] /\ UNCHANGED <<room, row, req>> /\ inbox' = inbox
      /\ \A k \in Sock \ {s} : conn'[k] = conn[k]
      /\ conn'[s].st = "loaded" /\ conn'[s].who = m /\ conn'[s].waiting = row[m].waiting
      /\ conn'[s].missed <=> \E h \in Ending : m \in req[h].ids
      /\ Active(m)
  BY DEF PInv, PresenceTypeOK, Load, vars
<1>1. SInv'
  BY <1>0 DEF PInv, SInv, IInv, TypeOK, OwnerSovereign, BannedIsOut, WaitingIsActive, InFlightOK,
     Blank, AllFresh, Unwritten, Fresh, FreshEntry, FreshCopy, FreshRoom, EndRevokesEverybody
<1>2. CachedWaiting'
  BY <1>0 DEF PInv, CachedWaiting, Active
<1>3. LostArePending'
  BY <1>0 DEF PInv, LostArePending, Connected, Active, ClosePending, Revoked
<1>4. EndIsSent'
  BY <1>0 DEF PInv, EndIsSent, Connected, Ending, Closing
<1>5. QED
  BY <1>1, <1>2, <1>3, <1>4 DEF PInv

\* Requests read, give up, write; bans end.
LEMMA KeepsTables ==
  ASSUME OneAtATime, PInv, PresenceTypeOK', UNCHANGED <<conn, inbox>>,
         \/ \E h \in Handler :
              JoinOrLeave(h) \/ HostOnMember(h) \/ HostOnRoom(h) \/ Save(h) \/ Refused(h)
         \/ \E m \in Member : BanExpires(m)
  PROVE  PInv'
<1>0. /\ SInv /\ SInv' /\ TypeOK /\ [Next]_vars
      /\ \A s \in Sock : conn[s].who \in Member
  <2>1. Next /\ SInv
    BY Proceeding DEF Next, PInv
  <2>2. QED
    BY <2>1, SerialStep DEF PInv, PresenceTypeOK, Consumer
<1>1. \A m \in Member :
        \/ row'[m] = row[m]
        \/ \E h \in Handler : Save(h) /\ WrittenOK(req[h], m)
        \/ /\ row'[m].known = row[m].known /\ row'[m].active = row[m].active
           /\ row'[m].waiting = row[m].waiting
  BY <1>0, SerialRowStep
<1>2. CachedWaiting'
  BY <1>0, <1>1 DEF PInv, CachedWaiting, WrittenOK
<1>3. ASSUME NEW h \in Handler, JoinOrLeave(h) \/ HostOnMember(h) \/ HostOnRoom(h)
      PROVE  /\ req[h].phase = "idle" /\ req'[h].phase = "read" /\ row' = row
  BY <1>0, <1>3, ReadsWriteNothing
<1>4. ASSUME NEW h \in Handler, Refused(h)
      PROVE  req[h].phase = "read" /\ req'[h].phase = "idle" /\ row' = row
  BY <1>0, <1>4 DEF Refused, InsertFails, Idle, TypeOK
<1>5. ASSUME NEW h \in Handler, Save(h)
      PROVE  /\ Due(req[h], Op) /\ Unwritten(req[h])
             /\ req[h].op \notin AtomicOps =>
                  req'[h].phase = "saved" /\ req'[h].op = req[h].op
                    /\ req'[h].target = req[h].target /\ req'[h].ids = req[h].ids
             /\ req'[h].phase \in {"idle", "saved"}
  <2>1. Done(h) /\ Due(req[h], Op) /\ req[h] \in Request
    BY <1>0, <1>5
    DEF Save, SaveMember, CreateMember, MuteAll, Deactivate, SaveRoom, Due, Op, BulkOps, TypeOK
  <2>2. QED
    BY <1>0, <2>1 DEF Done, Due, Unwritten, Idle, TypeOK, Request
\* No request is announcing an end after such a step.
<1>6. EndIsSent'
  <2>1. CASE \E m \in Member : BanExpires(m)
    BY <2>1 DEF PInv, EndIsSent, BanExpires, Ending, Connected, Closing
  <2>2. CASE \E h \in Handler :
               JoinOrLeave(h) \/ HostOnMember(h) \/ HostOnRoom(h) \/ Save(h) \/ Refused(h)
    BY <1>3, <1>4, <1>5, <2>2 DEF OneAtATime, EndIsSent, Ending
  <2>3. QED
    BY <2>1, <2>2
<1>7. ASSUME NEW s \in Sock, Connected(s), ~conn[s].missed, ~Active(conn[s].who)'
      PROVE  ClosePending(s)'
  <2> DEFINE m == conn[s].who
  <2>0. m \in Member /\ row[m].known
    BY <1>0, <1>7 DEF PInv, CachedWaiting, Connected
  <2>1. CASE \E k \in Member : BanExpires(k)
    <3>1. UNCHANGED req /\ ~Active(m)
      <4>1. PICK k \in Member : BanExpires(k)
        BY <2>1
      <4>2. row[k] \in Row /\ row' = [row EXCEPT ![k].banned = FALSE] /\ UNCHANGED req
        BY <1>0, <4>1 DEF BanExpires, TypeOK
      <4>3. row'[m].known = row[m].known /\ row'[m].active = row[m].active
        BY <1>0, <2>0, <4>2 DEF TypeOK, Row
      <4>4. QED
        BY <1>7, <4>2, <4>3 DEF Active
    <3>2. QED
      BY <1>7, <3>1 DEF PInv, LostArePending, ClosePending, Revoked
  <2>2. ASSUME NEW h \in Handler, JoinOrLeave(h) \/ HostOnMember(h) \/ HostOnRoom(h) \/ Refused(h)
        PROVE  ClosePending(s)'
    <3>1. ~Active(m) /\ \A k \in Handler : req[k].phase # "saved"
      BY <1>3, <1>4, <1>7, <2>2 DEF Active, OneAtATime
    <3>2. QED
      BY <1>7, <3>1 DEF PInv, LostArePending, ClosePending
  <2>3. ASSUME NEW h \in Handler, Save(h) PROVE ClosePending(s)'
    <3>1. CASE ~Active(m)
      <4>1. \A k \in Handler : req[k].phase # "saved"
        BY <1>5, <2>3 DEF OneAtATime, Unwritten
      <4>2. QED
        BY <1>7, <3>1, <4>1 DEF PInv, LostArePending, ClosePending
    <3>2. CASE Active(m)
      <4>1. WrittenOK(req[h], m)
        BY <1>0, <2>0, <2>3, SerialWrite
      <4>2. row[m].active /\ ~row'[m].active
        BY <1>7, <2>0, <3>2, <4>1 DEF Active, WrittenOK
      <4>3. CASE /\ req[h].op \in {"deactivate_member", "remove_member", "deny_waiting_room"}
                 /\ req[h].target = m
        <5>1. req'[h].phase = "saved" /\ m \in Revoked(req'[h])
          BY <1>5, <2>3, <4>3 DEF AtomicOps, Revoked, RevokingOps
        <5>2. QED
          BY <5>1 DEF ClosePending
      <4>4. CASE req[h].op = "deactivate_classroom" /\ m \in req[h].ids
        <5>1. h \in Ending
          BY <1>5, <2>3, <4>4 DEF Ending, Due, AtomicOps
        <5>2. \E msg \in inbox[s] : Closing(msg)
          BY <1>7, <4>4, <5>1 DEF PInv, EndIsSent
        <5>3. QED
          BY <5>2 DEF ClosePending, Closing
      <4>5. QED
        BY <4>1, <4>2, <4>3, <4>4 DEF WrittenOK
    <3>3. QED
      BY <3>1, <3>2
  <2>4. QED
    BY <2>1, <2>2, <2>3
<1>8. LostArePending'
  BY <1>7 DEF LostArePending, Connected
<1>9. QED
  BY <1>0, <1>2, <1>6, <1>8 DEF PInv

LEMMA KeepsPublish ==
  ASSUME OneAtATime, PInv, PresenceTypeOK', NEW h \in Handler, Publish(h)
  PROVE  PInv'
<1>0. /\ SInv /\ SInv' /\ TypeOK /\ UNCHANGED <<room, row>>
      /\ conn \in [Sock -> Consumer] /\ \A s \in Sock : conn[s] \in Consumer
  <2>1. Next /\ SInv
    BY Proceeding DEF Next, Publish, PInv
  <2>2. QED
    BY <2>1, SerialStep DEF PInv, PresenceTypeOK, Publish, Announce
<1>1. ASSUME NEW s \in Sock
      PROVE  /\ conn'[s].st = conn[s].st /\ conn'[s].who = conn[s].who
             /\ conn'[s].waiting = conn[s].waiting
             /\ conn[s].missed => conn'[s].missed
             /\ conn[s].st = "loaded" /\ conn[s].who \in Revoked(req[h]) => conn'[s].missed
             /\ inbox'[s] = inbox[s] \cup Sent(req[h], s)
  BY <1>0 DEF Publish, Consumer
\* Whoever loses access by what is announced has the event, or has missed it.
<1>2. ASSUME NEW s \in Sock, Connected(s), ~conn'[s].missed, conn[s].who \in Revoked(req[h])
      PROVE  \E msg \in inbox'[s] : Closing(msg)
  <2> DEFINE msg == [kind |-> "revoked", about |-> conn[s].who]
  <2>1. InMemberGroup(s, conn[s].who)
    BY <1>1, <1>2 DEF InMemberGroup, Connected
  <2>2. msg \in Message /\ Closing(msg)
    BY <1>0 DEF Message, Consumer, Closing
  <2>3. msg \in Sent(req[h], s)
    BY <1>2, <2>1, <2>2 DEF Sent
  <2>4. QED
    BY <1>1, <2>2, <2>3
<1>3. CachedWaiting'
  BY <1>0, <1>1 DEF PInv, CachedWaiting
<1>4. ASSUME NEW s \in Sock, Connected(s)', ~conn'[s].missed, ~Active(conn[s].who)'
      PROVE  ClosePending(s)'
  <2>1. Connected(s) /\ ~conn[s].missed /\ ~Active(conn[s].who)
    BY <1>0, <1>1, <1>4 DEF Connected, Active
  <2>2. ClosePending(s)
    BY <2>1 DEF PInv, LostArePending
  <2>3. (\E msg \in inbox[s] : Closing(msg)) \/ conn[s].who \in Revoked(req[h])
    BY <2>2 DEF ClosePending, Closing, OneAtATime
  <2>4. \E msg \in inbox'[s] : Closing(msg)
    BY <1>1, <1>2, <1>4, <2>1, <2>3
  <2>5. QED
    BY <2>4 DEF ClosePending, Closing
<1>5. ASSUME NEW s \in Sock, NEW k \in Handler, k \in Ending', Connected(s)',
             ~conn'[s].missed, conn'[s].who \in req'[k].ids
      PROVE  \E msg \in inbox'[s] : Closing(msg)
  <2>1. /\ k = h /\ req[h] \in Request /\ req'[h].phase = "announced"
        /\ req'[h].op = "deactivate_classroom"
    BY <1>0, <1>5 DEF OneAtATime, Ending, TypeOK
  <2>2. req'[h] = [req[h] EXCEPT !.phase = "announced"]
    BY <1>0, <2>1 DEF Publish, Announce, Idle, TypeOK
  <2>3. req[h].op = "deactivate_classroom" /\ req'[h].ids = req[h].ids
    BY <2>1, <2>2 DEF Request
  <2>4. conn[s].who \in Revoked(req[h]) /\ Connected(s)
    BY <1>1, <1>5, <2>1, <2>3 DEF Revoked, RevokingOps, Connected
  <2>5. QED
    BY <1>2, <1>5, <2>4
<1>6. LostArePending' /\ EndIsSent'
  BY <1>1, <1>4, <1>5 DEF LostArePending, EndIsSent, Closing
<1>7. QED
  BY <1>0, <1>3, <1>6 DEF PInv

LEMMA SocketStep ==
  ASSUME OneAtATime, PInv, [PresenceNext]_presenceVars
  PROVE  PInv'
<1>0. PresenceTypeOK'
  BY PresenceTypeStep DEF PInv
<1>1. CASE UNCHANGED presenceVars
  <2>1. UNCHANGED vars /\ \A s \in Sock : SocketStepOK(s)
    BY <1>1 DEF presenceVars, SocketStepOK, Connected
  <2>2. QED
    BY <1>0, <2>1, SocketSteps
<1>2. ASSUME NEW h \in Handler, HttpRequest(h) \/ Table(h) PROVE PInv'
  BY <1>0, <1>2, KeepsTables DEF HttpRequest, Table, JoinOrLeave
<1>3. ASSUME NEW h \in Handler, Publish(h) PROVE PInv'
  BY <1>0, <1>3, KeepsPublish
<1>4. ASSUME NEW m \in Member, BanExpires(m), UNCHANGED <<conn, inbox>> PROVE PInv'
  BY <1>0, <1>4, KeepsTables
<1>5. ASSUME NEW s \in Sock, NEW h \in Handler, NEW raised \in BOOLEAN,
             RaiseHand(s, h, raised)
      PROVE  PInv'
  <2>1. conn[s].who \in Member
    BY DEF PInv, PresenceTypeOK, Consumer
  <2>2. JoinOrLeave(h) /\ UNCHANGED <<conn, inbox>>
    BY <1>5, <2>1 DEF RaiseHand, JoinOrLeave
  <2>3. QED
    BY <1>0, <2>2, KeepsTables
<1>6. ASSUME NEW s \in Sock,
             \/ Connecting(s) \/ Disconnect(s) \/ RefuseAction(s)
             \/ \E msg \in inbox[s] : Dispatch(s, msg)
      PROVE  PInv'
  BY <1>0, <1>6, KeepsSockets, KeepsLoad DEF Connecting
<1>7. QED
  BY <1>1, <1>2, <1>3, <1>4, <1>5, <1>6 DEF PresenceNext

THEOREM SocketInductive == ASSUME OneAtATime PROVE PresenceSpec => []PInv
<1>1. PInv /\ [PresenceNext]_presenceVars => PInv'
  BY SocketStep
<1>2. QED
  BY <1>1, SocketInit, PTL DEF PresenceSpec

\* "close every live socket for them": whatever steps of connect() and of the removal, the
\* denial, the departure or the end of the class interleave, a socket without a membership
\* has the closing event in its channel or about to be sent, unless it missed it.
THEOREM SurvivorsAreTold == ASSUME OneAtATime PROVE PresenceSpec => []NoSilentSurvivor
<1>1. PInv => NoSilentSurvivor
  BY DEF PInv, LostArePending, NoSilentSurvivor, Live, Connected
<1>2. QED
  BY <1>1, SocketInductive, PTL

\* The flag a consumer cached when it connected never lets a member who waits into the
\* room group (ClassroomConsumer.connect).
THEOREM RoomGroupAdmitted == ASSUME OneAtATime PROVE PresenceSpec => []RoomGroupIsAdmitted
<1>1. PInv => RoomGroupIsAdmitted
  BY DEF PInv, CachedWaiting, RoomGroupIsAdmitted, InRoomGroup
<1>2. QED
  BY <1>1, SocketInductive, PTL
===============================================================================
