-------------------------- MODULE MembershipProofs --------------------------
(***************************************************************************)
(* What holds of module Membership for every set of users, guests and      *)
(* request handlers, however many requests overlap.                        *)
(*                                                                         *)
(* The invariants are not inductive by themselves: a request in flight     *)
(* carries an instance read earlier and writes it back later.  They are    *)
(* strengthened by InFlightOK, which says what such an instance may        *)
(* contain and on whom which operation may be under way.                   *)
(***************************************************************************)
EXTENDS Membership, TLAPS

\* Operations that _can_manage has let through.
RankedOps == {"set_member_permission", "set_member_role", "set_member_muted",
              "remove_member"}

\* What the instance c of an operation op of actor a on target t may contain.
CopyOK(op, a, t, c) ==
  /\ op \in RankedOps \cup CreateOps => t # Owner
  /\ op \in FullSaveOps \cup CreateOps =>
       /\ c.role # "OWNER"
       /\ c.banned => ~c.active
       /\ c.waiting => c.active
  /\ op = "join_classroom" => c.active /\ ~c.banned
  /\ op \in {"deactivate_member", "remove_member", "deny_waiting_room"} =>
       ~c.active /\ ~c.waiting
  /\ op = "approve_waiting_room" => ~c.waiting
  /\ op = "mute_all" /\ c.role = "OWNER" => a = Owner

InFlightOK ==
  \A h \in Handler : CopyOK(req[h].op, req[h].actor, req[h].target, req[h].copy)

IInv == TypeOK /\ OwnerSovereign /\ BannedIsOut /\ WaitingIsActive /\ InFlightOK

-----------------------------------------------------------------------------
(* What the helpers return.                                                *)

LEMMA OwnerIsMember == Owner \in Member
BY OwnerAssumption DEF Member

\* A new row is a row, admitted or waiting, with no ban and its role's defaults.
LEMMA NewRowFacts ==
  ASSUME NEW role \in Role, NEW waits \in BOOLEAN, NEW ip \in Ip \cup {NoIp}
  PROVE  /\ NewRow(role, waits, ip) \in Row
         /\ NewRow(role, waits, ip).role = role
         /\ NewRow(role, waits, ip).active
         /\ ~NewRow(role, waits, ip).banned
         /\ NewRow(role, waits, ip).waiting = waits
         /\ ~NewRow(role, waits, ip).muted
         /\ NewRow(role, waits, ip).known
         /\ NewRow(role, waits, ip).caps = ROLE_DEFAULTS[role]
<1>1. ROLE_DEFAULTS[role] \subseteq Capability
  BY DEF ROLE_DEFAULTS, Role, PRIVILEGED_ROLES, Capability, Baseline
<1>2. QED
  BY <1>1 DEF NewRow, NoRow, Row

\* The row of somebody who joins for the first time.
LEMMA NewcomerFacts ==
  ASSUME NEW role \in {"STUDENT", "GUEST"}, NEW ip \in Ip \cup {NoIp}
  PROVE  LET c == NewRow(role, "enable_waiting_room" \in room.on, ip)
         IN  c \in Row /\ c.active /\ ~c.banned /\ c.role = role
<1> DEFINE waits == "enable_waiting_room" \in room.on
<1>1. waits \in BOOLEAN /\ role \in Role
  BY DEF Role
<1> HIDE DEF waits
<1>2. /\ NewRow(role, waits, ip) \in Row
      /\ NewRow(role, waits, ip).active
      /\ ~NewRow(role, waits, ip).banned
      /\ NewRow(role, waits, ip).role = role
  BY <1>1, NewRowFacts
<1>3. QED
  BY <1>2 DEF waits

LEMMA IdleIsRequest == Idle \in Request
BY OwnerIsMember DEF Idle, Request, NoRow, Row, IdleRoom, Room, Role

\* Reading rows for an operation and keeping an instance in the request
\* preserves the types.
LEMMA BeginType ==
  ASSUME TypeOK, NEW h \in Handler, NEW op \in Op, NEW a \in Member,
         NEW t \in Member, NEW copy \in Row, Begin(h, op, a, t, copy)
  PROVE  TypeOK'
<1>1. [Idle EXCEPT !.phase = "read", !.op = op, !.actor = a, !.target = t,
                   !.copy = copy] \in Request
  BY IdleIsRequest DEF Idle, Request
<1>2. QED
  BY <1>1 DEF TypeOK, Begin

\* The instance a request hands to save() leaves a well-typed row behind.
LEMMA SavedType ==
  ASSUME NEW r \in Request, NEW cur \in Row
  PROVE  Saved(r, cur) \in Row
<1>1. r.copy \in Row
  BY DEF Request
<1> DEFINE cols == update_fields(r.op)
           a == IF "active"  \in cols THEN r.copy.active  ELSE cur.active
           w == IF "waiting" \in cols THEN r.copy.waiting ELSE cur.waiting
           b == IF "banned"  \in cols THEN r.copy.banned  ELSE cur.banned
           m == IF "muted"   \in cols THEN r.copy.muted   ELSE cur.muted
           n == IF "hand"    \in cols THEN r.copy.hand    ELSE cur.hand
           new == [cur EXCEPT !.active = a, !.waiting = w, !.banned = b, !.muted = m, !.hand = n]
<1>2. a \in BOOLEAN /\ w \in BOOLEAN /\ b \in BOOLEAN /\ m \in BOOLEAN /\ n \in BOOLEAN
  BY <1>1 DEF Row
<1>3. Saved(r, cur) = IF r.op \in FullSaveOps THEN r.copy ELSE new
  BY DEF Saved, Row
<1> HIDE DEF a, w, b, m, n
<1>4. new \in Row
  BY <1>2 DEF Row
<1> HIDE DEF new
<1>5. QED
  BY <1>1, <1>3, <1>4

-----------------------------------------------------------------------------
(* Type correctness.                                                       *)

LEMMA TypeInit == Init => TypeOK
<1>1. /\ NewRow("OWNER", FALSE, NoIp) \in Row
      /\ NoRow \in Row
  BY NewRowFacts DEF Role, NoRow, Row
<1>2. DefaultSettings \subseteq SETTING_FIELDS
  BY DEF DefaultSettings, SETTING_FIELDS
<1>3. ASSUME Init PROVE room \in Room /\ req \in [Handler -> Request]
  BY <1>2, <1>3, IdleIsRequest DEF Init, Room
<1>4. ASSUME Init PROVE row \in [Member -> Row]
  BY <1>1, <1>4 DEF Init
<1>5. QED
  BY <1>3, <1>4 DEF TypeOK

\* Joins, leaves and raised hands.
LEMMA TypeJoinOrLeave ==
  ASSUME TypeOK, NEW h \in Handler, JoinOrLeave(h)
  PROVE  TypeOK'
<1> USE DEF Op, MemberOps, CreateOps
<1>1. CASE \E u \in User : join_classroom(h, u)
  <2>1. PICK u \in User : join_classroom(h, u)
    BY <1>1
  <2>2. /\ u \in Member
        /\ [row[u] EXCEPT !.active = TRUE, !.banned = FALSE] \in Row
    BY DEF TypeOK, Member, Row
  <2>3. NewRow("STUDENT", "enable_waiting_room" \in room.on, NoIp) \in Row
    BY NewcomerFacts
  <2>4. QED
    BY <2>1, <2>2, <2>3, BeginType DEF join_classroom
<1>2. CASE \E g \in Guest, ip \in Ip \cup {NoIp} : join_classroom_guest(h, g, ip)
  <2>1. PICK g \in Guest, ip \in Ip \cup {NoIp} : join_classroom_guest(h, g, ip)
    BY <1>2
  <2>2. NewRow("GUEST", "enable_waiting_room" \in room.on, ip) \in Row
    BY NewcomerFacts
  <2>3. QED
    BY <2>1, <2>2, BeginType DEF join_classroom_guest, Member
<1>3. CASE \E m \in Member : deactivate_member(h, m)
  <2>1. PICK m \in Member : deactivate_member(h, m)
    BY <1>3
  <2>2. [row[m] EXCEPT !.active = FALSE, !.waiting = FALSE, !.hand = FALSE] \in Row
    BY DEF TypeOK, Row
  <2>3. QED
    BY <2>1, <2>2, BeginType DEF deactivate_member
<1>4. CASE \E m \in Member, raised \in BOOLEAN : set_hand_raised(h, m, raised)
  <2>1. PICK m \in Member, raised \in BOOLEAN : set_hand_raised(h, m, raised)
    BY <1>4
  <2>2. [row[m] EXCEPT !.hand = raised] \in Row
    BY DEF TypeOK, Row
  <2>3. QED
    BY <2>1, <2>2, BeginType DEF set_hand_raised
<1>5. QED
  BY <1>1, <1>2, <1>3, <1>4 DEF JoinOrLeave

\* What a host action assigns to the instance of its target is a row.
LEMMA HostCopies ==
  ASSUME NEW m \in Row
  PROVE  /\ \A p \in Capability, value \in BOOLEAN : WithPermission(m, p, value) \in Row
         /\ \A role \in Role : [m EXCEPT !.role = role, !.caps = ROLE_DEFAULTS[role]] \in Row
         /\ \A muted \in BOOLEAN : [m EXCEPT !.muted = muted] \in Row
         /\ \A ban \in BOOLEAN :
              [m EXCEPT !.active = FALSE, !.waiting = FALSE, !.hand = FALSE,
                        !.banned = @ \/ ban] \in Row
         /\ [m EXCEPT !.waiting = FALSE] \in Row
         /\ [m EXCEPT !.active = FALSE, !.waiting = FALSE] \in Row
<1>1. \A p \in Capability, value \in BOOLEAN : WithPermission(m, p, value) \in Row
  BY DEF WithPermission, Flag, Row
<1>2. \A role \in Role : ROLE_DEFAULTS[role] \subseteq Capability
  BY DEF ROLE_DEFAULTS, Role, PRIVILEGED_ROLES, Capability, Baseline
<1>3. \A role \in Role : [m EXCEPT !.role = role, !.caps = ROLE_DEFAULTS[role]] \in Row
  BY <1>2 DEF Row
<1>4. \A muted \in BOOLEAN : [m EXCEPT !.muted = muted] \in Row
  BY DEF Row
<1>5. \A ban \in BOOLEAN :
        [m EXCEPT !.active = FALSE, !.waiting = FALSE, !.hand = FALSE,
                  !.banned = @ \/ ban] \in Row
  BY DEF Row
<1>6. [m EXCEPT !.waiting = FALSE] \in Row
  BY DEF Row
<1>7. [m EXCEPT !.active = FALSE, !.waiting = FALSE] \in Row
  BY DEF Row
<1>8. QED
  BY <1>1, <1>3, <1>4, <1>5, <1>6, <1>7

LEMMA TypeHostOnMember ==
  ASSUME TypeOK, NEW h \in Handler, HostOnMember(h)
  PROVE  TypeOK'
<1> USE DEF Op, MemberOps
<1>1. PICK a \in User, t \in Member :
        \/ \E p \in Grantable, value \in BOOLEAN : set_member_permission(h, a, t, p, value)
        \/ \E role \in Assignable : set_member_role(h, a, t, role)
        \/ \E muted \in BOOLEAN : set_member_muted(h, a, t, muted)
        \/ \E ban \in BOOLEAN : remove_member(h, a, t, ban)
        \/ approve_waiting_room(h, a, t)
        \/ deny_waiting_room(h, a, t)
  BY DEF HostOnMember
<1>2. a \in Member /\ row[t] \in Row
  BY DEF Member, TypeOK
<1>3. CASE \E p \in Grantable, value \in BOOLEAN : set_member_permission(h, a, t, p, value)
  <2>1. PICK p \in Grantable, value \in BOOLEAN : set_member_permission(h, a, t, p, value)
    BY <1>3
  <2>2. p \in Capability /\ WithPermission(row[t], p, value) \in Row
    BY <1>2, BoundAssumption, HostCopies
  <2>3. [Idle EXCEPT !.phase = "read", !.op = "set_member_permission", !.actor = a,
                     !.target = t, !.copy = WithPermission(row[t], p, value),
                     !.perm = p] \in Request
    BY <1>2, <2>2, IdleIsRequest DEF Idle, Request
  <2>4. QED
    BY <2>1, <2>3 DEF set_member_permission, TypeOK
<1>4. CASE \E role \in Assignable : set_member_role(h, a, t, role)
  <2>1. PICK role \in Assignable : set_member_role(h, a, t, role)
    BY <1>4
  <2>2. [row[t] EXCEPT !.role = role, !.caps = ROLE_DEFAULTS[role]] \in Row
    BY <1>2, BoundAssumption, HostCopies
  <2>3. QED
    BY <1>2, <2>1, <2>2, BeginType DEF set_member_role
<1>5. CASE \E muted \in BOOLEAN : set_member_muted(h, a, t, muted)
  BY <1>2, <1>5, HostCopies, BeginType DEF set_member_muted
<1>6. CASE \E ban \in BOOLEAN : remove_member(h, a, t, ban)
  <2>1. PICK ban \in BOOLEAN : remove_member(h, a, t, ban)
    BY <1>6
  <2>2. [row[t] EXCEPT !.active = FALSE, !.waiting = FALSE, !.hand = FALSE,
                       !.banned = @ \/ ban] \in Row
    BY <1>2, HostCopies
  <2>3. QED
    BY <1>2, <2>1, <2>2, BeginType DEF remove_member
<1>7. CASE approve_waiting_room(h, a, t)
  BY <1>2, <1>7, HostCopies, BeginType DEF approve_waiting_room
<1>8. CASE deny_waiting_room(h, a, t)
  BY <1>2, <1>8, HostCopies, BeginType DEF deny_waiting_room
<1>9. QED
  BY <1>1, <1>3, <1>4, <1>5, <1>6, <1>7, <1>8

LEMMA TypeHostOnRoom ==
  ASSUME TypeOK, NEW h \in Handler, HostOnRoom(h)
  PROVE  TypeOK'
<1> DEFINE RoomRequest(op, a, instance, fields) ==
             [Idle EXCEPT !.phase = "read", !.op = op, !.actor = a,
                          !.room = instance, !.fields = fields]
<1>1. ASSUME NEW op \in Op, NEW a \in Member, NEW instance \in Room,
             NEW fields \in SUBSET SETTING_FIELDS, BeginRoom(h, op, a, instance, fields)
      PROVE  TypeOK'
  <2>1. RoomRequest(op, a, instance, fields) \in Request
    BY IdleIsRequest DEF Idle, Request
  <2>2. QED
    BY <1>1, <2>1 DEF BeginRoom, TypeOK
<1>2. User \subseteq Member /\ room \in Room
  BY DEF Member, TypeOK
<1>3. ASSUME NEW a \in User, mute_all(h, a) PROVE TypeOK'
  <2>1. "mute_all" \in Op /\ row[a] \in Row
    BY <1>2 DEF TypeOK, Op, BulkOps
  <2>2. QED
    BY <1>2, <1>3, <2>1, BeginType DEF mute_all
<1>4. ASSUME NEW a \in User, deactivate_classroom(h, a) PROVE TypeOK'
  <2>1. [Idle EXCEPT !.phase = "read", !.op = "deactivate_classroom", !.actor = a,
                     !.ids = { m \in Member : Active(m) }] \in Request
    BY <1>2, IdleIsRequest DEF Idle, Request, Op, BulkOps
  <2>2. QED
    BY <1>4, <2>1 DEF deactivate_classroom, TypeOK
<1>5. ASSUME NEW a \in User, NEW locked \in BOOLEAN, set_classroom_locked(h, a, locked)
      PROVE  TypeOK'
  <2>1. [room EXCEPT !.locked = locked] \in Room /\ "set_classroom_locked" \in Op
    BY <1>2 DEF Room, Op, RoomOps
  <2>2. QED
    BY <1>1, <1>2, <1>5, <2>1 DEF set_classroom_locked
<1>6. ASSUME NEW a \in User, NEW fields \in SUBSET Toggled, NEW values \in SUBSET fields,
             update_settings(h, a, fields, values)
      PROVE  TypeOK'
  <2>1. /\ fields \subseteq SETTING_FIELDS
        /\ [room EXCEPT !.on = (@ \ fields) \cup values] \in Room
        /\ "update_settings" \in Op
    BY <1>2, BoundAssumption DEF Room, Op, RoomOps
  <2>2. QED
    BY <1>1, <1>2, <1>6, <2>1 DEF update_settings
<1>7. ASSUME NEW values \in SUBSET {"allow_guests"}, customize(h, values) PROVE TypeOK'
  <2>1. /\ [room EXCEPT !.on = (@ \ {"allow_guests"}) \cup values] \in Room
        /\ "customize" \in Op
    BY <1>2 DEF Room, Op, RoomOps, SETTING_FIELDS
  <2>2. QED
    BY <1>1, <1>7, <2>1, OwnerIsMember DEF customize
<1>8. QED
  BY <1>3, <1>4, <1>5, <1>6, <1>7 DEF HostOnRoom

\* A request that has written goes on to "saved", or is over if it was atomic.
LEMMA DoneType ==
  ASSUME TypeOK, NEW h \in Handler, Done(h)
  PROVE  req' \in [Handler -> Request]
<1>1. [req[h] EXCEPT !.phase = "saved"] \in Request
  BY DEF TypeOK, Request
<1>2. QED
  BY <1>1, IdleIsRequest DEF Done, TypeOK

LEMMA TypeSave ==
  ASSUME TypeOK, NEW h \in Handler, Save(h)
  PROVE  TypeOK'
<1>1. req[h] \in Request /\ req[h].target \in Member /\ req[h].copy \in Row
  BY DEF TypeOK, Request
<1>2. CASE SaveMember(h)
  <2>1. Saved(req[h], row[req[h].target]) \in Row
    BY <1>1, SavedType DEF TypeOK
  <2>2. QED
    BY <1>1, <1>2, <2>1, DoneType DEF SaveMember, TypeOK
<1>3. CASE CreateMember(h)
  BY <1>1, <1>3, DoneType DEF CreateMember, TypeOK
<1>4. CASE MuteAll(h)
  <2>1. \A m \in Member : [row[m] EXCEPT !.muted = TRUE] \in Row
    BY DEF TypeOK, Row
  <2>2. QED
    BY <1>4, <2>1, DoneType DEF MuteAll, TypeOK
<1>5. CASE Deactivate(h)
  <2>1. \A m \in Member :
          [row[m] EXCEPT !.active = FALSE, !.waiting = FALSE, !.hand = FALSE] \in Row
    BY DEF TypeOK, Row
  <2>2. room' \in Room
    BY <1>5 DEF Deactivate, TypeOK, Room
  <2>3. QED
    BY <1>5, <2>1, <2>2, DoneType DEF Deactivate, TypeOK
<1>6. CASE SaveRoom(h)
  <2>1. req[h].room \in Room /\ req[h].fields \in SUBSET SETTING_FIELDS /\ room \in Room
    BY <1>1 DEF Request, TypeOK
  <2>2. /\ [room EXCEPT !.locked = req[h].room.locked] \in Room
        /\ [room EXCEPT !.on = (@ \ req[h].fields)
                                 \cup (req[h].room.on \cap req[h].fields)] \in Room
    BY <2>1 DEF Room
  <2>3. req[h].op \in {"set_classroom_locked", "update_settings", "customize"}
    BY <1>6 DEF SaveRoom, Due, RoomOps
  <2>4. room' \in Room
    BY <1>6, <2>1, <2>2, <2>3 DEF SaveRoom
  <2>5. QED
    BY <1>6, <2>4, DoneType DEF SaveRoom, TypeOK
<1>7. QED
  BY <1>2, <1>3, <1>4, <1>5, <1>6 DEF Save

LEMMA Proceeding ==
  ASSUME NEW h \in Handler
  PROVE  Proceeds(h) <=> Refused(h) \/ Announce(h)
BY DEF Proceeds, Refused, Announce, Announces, InsertFails

LEMMA TypeStep == TypeOK /\ [Next]_vars => TypeOK'
<1> SUFFICES ASSUME TypeOK, [Next]_vars PROVE TypeOK'
  OBVIOUS
<1>1. ASSUME NEW h \in Handler, Refused(h) PROVE TypeOK'
  BY <1>1, IdleIsRequest DEF Refused, TypeOK
<1>2. ASSUME NEW h \in Handler, Announce(h) PROVE TypeOK'
  <2>1. [req[h] EXCEPT !.phase = "announced"] \in Request
    BY DEF TypeOK, Request
  <2>2. QED
    BY <1>2, <2>1, IdleIsRequest DEF Announce, TypeOK
<1>3. ASSUME NEW m \in Member, BanExpires(m) PROVE TypeOK'
  <2>1. [row[m] EXCEPT !.banned = FALSE] \in Row
    BY DEF TypeOK, Row
  <2>2. QED
    BY <1>3, <2>1 DEF BanExpires, TypeOK
<1>4. CASE UNCHANGED vars
  BY <1>4 DEF vars, TypeOK
<1>5. QED
  BY <1>1, <1>2, <1>3, <1>4, Proceeding, TypeJoinOrLeave, TypeHostOnMember, TypeHostOnRoom,
     TypeSave
  DEF Next

\* The tables and the instances in flight keep their types (the columns of
\* Classroom and ClassroomMember, the locals of the services).
THEOREM TypeCorrect == Spec => []TypeOK
BY TypeInit, TypeStep, PTL DEF Spec

-----------------------------------------------------------------------------
(* The inductive invariant.                                                *)

LEMMA InvInit == Init => IInv
<1> SUFFICES ASSUME Init PROVE IInv
  OBVIOUS
<1>1. TypeOK
  BY TypeInit
<1>2. row[Owner] = NewRow("OWNER", FALSE, NoIp) /\ \A m \in Member \ {Owner} : row[m] = NoRow
  BY OwnerIsMember DEF Init
<1>3. ROLE_DEFAULTS["OWNER"] = Capability
  BY DEF ROLE_DEFAULTS, Role, PRIVILEGED_ROLES
<1>4. /\ row[Owner].role = "OWNER" /\ row[Owner].known /\ row[Owner].caps = Capability
      /\ ~row[Owner].muted /\ ~row[Owner].banned /\ ~row[Owner].waiting
  BY <1>2, <1>3 DEF NewRow, NoRow
<1>5. \A m \in Member \ {Owner} :
        row[m].role = "STUDENT" /\ ~row[m].banned /\ ~row[m].waiting
  BY <1>2 DEF NoRow
<1>6. InFlightOK
  BY DEF Init, InFlightOK, CopyOK, Idle, RankedOps, CreateOps, FullSaveOps
<1>7. QED
  BY <1>1, <1>4, <1>5, <1>6 DEF IInv, OwnerSovereign, BannedIsOut, WaitingIsActive

\* A read keeps the invariant if what it puts into the request is CopyOK: the
\* tables do not change.
LEMMA ReadKeeps ==
  ASSUME IInv, TypeOK', UNCHANGED row, NEW h \in Handler, NEW r \in Request,
         req' = [req EXCEPT ![h] = r], CopyOK(r.op, r.actor, r.target, r.copy)
  PROVE  IInv'
<1>1. InFlightOK'
  BY DEF IInv, TypeOK, InFlightOK
<1>2. QED
  BY <1>1 DEF IInv, OwnerSovereign, BannedIsOut, WaitingIsActive

LEMMA BeginKeeps ==
  ASSUME IInv, TypeOK', NEW h \in Handler, NEW op \in Op, NEW a \in Member,
         NEW t \in Member, NEW copy \in Row, Begin(h, op, a, t, copy),
         CopyOK(op, a, t, copy)
  PROVE  IInv'
<1> DEFINE r == [Idle EXCEPT !.phase = "read", !.op = op, !.actor = a,
                             !.target = t, !.copy = copy]
<1>1. r \in Request /\ r.op = op /\ r.actor = a /\ r.target = t /\ r.copy = copy
  BY IdleIsRequest DEF Idle, Request
<1>2. UNCHANGED row /\ req' = [req EXCEPT ![h] = r]
  BY DEF Begin
<1>3. CopyOK(r.op, r.actor, r.target, r.copy)
  BY <1>1
<1> HIDE DEF r
<1>4. QED
  BY <1>1, <1>2, <1>3, ReadKeeps

\* Nobody but the owner passes _can_manage on the owner, and the owner does not
\* pass it on the owner's own row.
LEMMA NobodyManagesTheOwner ==
  ASSUME OwnerSovereign, NEW a \in Member, _can_manage(a, Owner)
  PROVE  FALSE
BY DEF OwnerSovereign, _can_manage, PRIVILEGED_ROLES

LEMMA KeepsJoinOrLeave ==
  ASSUME IInv, TypeOK', NEW h \in Handler, JoinOrLeave(h)
  PROVE  IInv'
<1> USE DEF Op, MemberOps, CreateOps
<1>0. OwnerSovereign /\ TypeOK
  BY DEF IInv
<1>1. ASSUME NEW u \in User, join_classroom(h, u) PROVE IInv'
  <2>1. u \in Member /\ row[u] \in Row
    BY <1>0 DEF TypeOK, Member
  <2>2. CASE row[u].known
    <3> DEFINE copy == [row[u] EXCEPT !.active = TRUE, !.banned = FALSE]
    <3>1. copy \in Row /\ copy.active /\ ~copy.banned
      BY <2>1 DEF Row
    <3>2. Begin(h, "join_classroom", u, u, copy)
      BY <1>1, <2>2 DEF join_classroom
    <3> HIDE DEF copy
    <3>3. CopyOK("join_classroom", u, u, copy)
      BY <3>1 DEF CopyOK, RankedOps, FullSaveOps
    <3>4. QED
      BY <2>1, <3>1, <3>2, <3>3, BeginKeeps
  <2>3. CASE ~row[u].known
    <3> DEFINE copy == NewRow("STUDENT", "enable_waiting_room" \in room.on, NoIp)
    <3>2. copy \in Row /\ copy.active /\ ~copy.banned /\ copy.role = "STUDENT"
      BY NewcomerFacts
    <3>3. Begin(h, "create_member", u, u, copy)
      BY <1>1, <2>3 DEF join_classroom
    <3>4. u # Owner
      BY <1>0, <2>3 DEF OwnerSovereign
    <3> HIDE DEF copy
    <3>5. CopyOK("create_member", u, u, copy)
      BY <3>2, <3>4 DEF CopyOK, RankedOps, FullSaveOps
    <3>6. QED
      BY <2>1, <3>2, <3>3, <3>5, BeginKeeps
  <2>4. QED
    BY <2>2, <2>3
<1>2. ASSUME NEW g \in Guest, NEW ip \in Ip \cup {NoIp}, join_classroom_guest(h, g, ip) PROVE IInv'
  <2> DEFINE copy == NewRow("GUEST", "enable_waiting_room" \in room.on, ip)
  <2>2. copy \in Row /\ copy.active /\ ~copy.banned /\ copy.role = "GUEST"
    BY NewcomerFacts
  <2>3. Begin(h, "create_member", g, g, copy) /\ g \in Member
    BY <1>2 DEF join_classroom_guest, Member
  <2>4. g # Owner
    BY OwnerAssumption, GuestAssumption
  <2> HIDE DEF copy
  <2>5. CopyOK("create_member", g, g, copy)
    BY <2>2, <2>4 DEF CopyOK, RankedOps, FullSaveOps
  <2>6. QED
    BY <2>2, <2>3, <2>5, BeginKeeps
<1>3. ASSUME NEW m \in Member, deactivate_member(h, m) PROVE IInv'
  <2> DEFINE copy == [row[m] EXCEPT !.active = FALSE, !.waiting = FALSE, !.hand = FALSE]
  <2>1. copy \in Row /\ ~copy.active /\ ~copy.waiting
    BY <1>0 DEF TypeOK, Row
  <2>2. Begin(h, "deactivate_member", m, m, copy)
    BY <1>3 DEF deactivate_member
  <2> HIDE DEF copy
  <2>3. CopyOK("deactivate_member", m, m, copy)
    BY <2>1 DEF CopyOK, RankedOps, FullSaveOps
  <2>4. QED
    BY <2>1, <2>2, <2>3, BeginKeeps
<1>4. ASSUME NEW m \in Member, NEW raised \in BOOLEAN, set_hand_raised(h, m, raised)
      PROVE  IInv'
  <2>1. [row[m] EXCEPT !.hand = raised] \in Row
    BY <1>0 DEF TypeOK, Row
  <2>2. CopyOK("set_hand_raised", m, m, [row[m] EXCEPT !.hand = raised])
    BY DEF CopyOK, RankedOps, FullSaveOps
  <2>3. QED
    BY <1>4, <2>1, <2>2, BeginKeeps DEF set_hand_raised
<1>5. QED
  BY <1>1, <1>2, <1>3, <1>4 DEF JoinOrLeave

LEMMA KeepsHostOnMember ==
  ASSUME IInv, TypeOK', NEW h \in Handler, HostOnMember(h)
  PROVE  IInv'
<1> USE DEF Op, MemberOps
<1>0. OwnerSovereign /\ TypeOK /\ BannedIsOut /\ WaitingIsActive
  BY DEF IInv
<1>1. PICK a \in User, t \in Member :
        \/ \E p \in Grantable, value \in BOOLEAN : set_member_permission(h, a, t, p, value)
        \/ \E role \in Assignable : set_member_role(h, a, t, role)
        \/ \E muted \in BOOLEAN : set_member_muted(h, a, t, muted)
        \/ \E ban \in BOOLEAN : remove_member(h, a, t, ban)
        \/ approve_waiting_room(h, a, t)
        \/ deny_waiting_room(h, a, t)
  BY DEF HostOnMember
<1>2. a \in Member /\ row[t] \in Row
  BY <1>0 DEF Member, TypeOK
<1>3. _can_manage(a, t) => t # Owner
  BY <1>0, <1>2, NobodyManagesTheOwner
<1>4. t # Owner => row[t].role # "OWNER"
  BY <1>0 DEF OwnerSovereign
<1>5. (row[t].banned => ~row[t].active) /\ (row[t].waiting => row[t].active)
  BY <1>0 DEF BannedIsOut, WaitingIsActive
<1>6. ASSUME NEW p \in Grantable, NEW value \in BOOLEAN, set_member_permission(h, a, t, p, value)
      PROVE  IInv'
  <2> DEFINE copy == WithPermission(row[t], p, value)
             r == [Idle EXCEPT !.phase = "read", !.op = "set_member_permission",
                               !.actor = a, !.target = t, !.copy = copy, !.perm = p]
  <2>1. p \in Capability /\ copy \in Row
    BY <1>2, BoundAssumption, HostCopies
  <2>2. /\ copy.role = row[t].role /\ copy.banned = row[t].banned
        /\ copy.active = row[t].active /\ copy.waiting = row[t].waiting
    BY <1>2 DEF WithPermission, Row
  <2>3. t # Owner /\ UNCHANGED row /\ req' = [req EXCEPT ![h] = r]
    BY <1>3, <1>6 DEF set_member_permission
  <2> HIDE DEF copy
  <2>4. /\ r \in Request /\ r.op = "set_member_permission"
        /\ r.actor = a /\ r.target = t /\ r.copy = copy
    BY <1>2, <2>1, IdleIsRequest DEF Idle, Request
  <2>5. CopyOK("set_member_permission", a, t, copy)
    BY <1>4, <1>5, <2>2, <2>3 DEF CopyOK
  <2> HIDE DEF r
  <2>6. CopyOK(r.op, r.actor, r.target, r.copy)
    BY <2>4, <2>5
  <2>7. QED
    BY <2>3, <2>4, <2>6, ReadKeeps
<1>7. ASSUME NEW role \in Assignable, set_member_role(h, a, t, role) PROVE IInv'
  <2> DEFINE copy == [row[t] EXCEPT !.role = role, !.caps = ROLE_DEFAULTS[role]]
  <2>1. role \in Role /\ role # "OWNER" /\ copy \in Row
    BY <1>2, BoundAssumption, HostCopies
  <2>2. /\ copy.role = role /\ copy.banned = row[t].banned
        /\ copy.active = row[t].active /\ copy.waiting = row[t].waiting
    BY <1>2 DEF Row
  <2>3. t # Owner /\ Begin(h, "set_member_role", a, t, copy)
    BY <1>0, <1>7 DEF set_member_role, OwnerSovereign
  <2> HIDE DEF copy
  <2>4. CopyOK("set_member_role", a, t, copy)
    BY <1>5, <2>1, <2>2, <2>3 DEF CopyOK
  <2>5. QED
    BY <1>2, <2>1, <2>3, <2>4, BeginKeeps
<1>8. ASSUME NEW muted \in BOOLEAN, set_member_muted(h, a, t, muted) PROVE IInv'
  <2> DEFINE copy == [row[t] EXCEPT !.muted = muted]
  <2>1. copy \in Row
    BY <1>2, HostCopies
  <2>2. t # Owner /\ Begin(h, "set_member_muted", a, t, copy)
    BY <1>3, <1>8 DEF set_member_muted
  <2> HIDE DEF copy
  <2>3. CopyOK("set_member_muted", a, t, copy)
    BY <2>2 DEF CopyOK, FullSaveOps, CreateOps
  <2>4. QED
    BY <1>2, <2>1, <2>2, <2>3, BeginKeeps
<1>9. ASSUME NEW ban \in BOOLEAN, remove_member(h, a, t, ban) PROVE IInv'
  <2> DEFINE copy == [row[t] EXCEPT !.active = FALSE, !.waiting = FALSE, !.hand = FALSE,
                                    !.banned = @ \/ ban]
  <2>1. copy \in Row
    BY <1>2, HostCopies
  <2>2. ~copy.active /\ ~copy.waiting
    BY <1>2 DEF Row
  <2>3. t # Owner /\ Begin(h, "remove_member", a, t, copy)
    BY <1>3, <1>9 DEF remove_member
  <2> HIDE DEF copy
  <2>4. CopyOK("remove_member", a, t, copy)
    BY <2>2, <2>3 DEF CopyOK, FullSaveOps, CreateOps
  <2>5. QED
    BY <1>2, <2>1, <2>3, <2>4, BeginKeeps
<1>10. ASSUME approve_waiting_room(h, a, t) PROVE IInv'
  <2> DEFINE copy == [row[t] EXCEPT !.waiting = FALSE]
  <2>1. copy \in Row /\ ~copy.waiting
    BY <1>2 DEF Row
  <2>2. Begin(h, "approve_waiting_room", a, t, copy)
    BY <1>10 DEF approve_waiting_room
  <2> HIDE DEF copy
  <2>3. CopyOK("approve_waiting_room", a, t, copy)
    BY <2>1 DEF CopyOK, RankedOps, FullSaveOps, CreateOps
  <2>4. QED
    BY <1>2, <2>1, <2>2, <2>3, BeginKeeps
<1>11. ASSUME deny_waiting_room(h, a, t) PROVE IInv'
  <2> DEFINE copy == [row[t] EXCEPT !.active = FALSE, !.waiting = FALSE]
  <2>1. copy \in Row /\ ~copy.active /\ ~copy.waiting
    BY <1>2 DEF Row
  <2>2. Begin(h, "deny_waiting_room", a, t, copy)
    BY <1>11 DEF deny_waiting_room
  <2> HIDE DEF copy
  <2>3. CopyOK("deny_waiting_room", a, t, copy)
    BY <2>1 DEF CopyOK, RankedOps, FullSaveOps, CreateOps
  <2>4. QED
    BY <1>2, <2>1, <2>2, <2>3, BeginKeeps
<1>12. QED
  BY <1>1, <1>6, <1>7, <1>8, <1>9, <1>10, <1>11

LEMMA KeepsHostOnRoom ==
  ASSUME IInv, TypeOK', NEW h \in Handler, HostOnRoom(h)
  PROVE  IInv'
<1> USE DEF RankedOps, CreateOps, FullSaveOps, RoomOps
<1>0. OwnerSovereign /\ TypeOK /\ User \subseteq Member
  BY DEF IInv, Member
\* A request on the classroom row carries no membership instance at all.
<1>1. ASSUME NEW op \in RoomOps, NEW a \in Member, NEW instance, NEW fields,
             BeginRoom(h, op, a, instance, fields)
      PROVE  IInv'
  <2>1. UNCHANGED row /\ req'[h].op = op /\ \A k \in Handler \ {h} : req'[k] = req[k]
    BY <1>0, <1>1 DEF BeginRoom, Idle, TypeOK
  <2>2. CopyOK(op, req'[h].actor, req'[h].target, req'[h].copy)
    BY DEF CopyOK
  <2>3. InFlightOK'
    BY <2>1, <2>2 DEF IInv, InFlightOK
  <2>4. QED
    BY <2>1, <2>3 DEF IInv, OwnerSovereign, BannedIsOut, WaitingIsActive
<1>2. ASSUME NEW a \in User, mute_all(h, a) PROVE IInv'
  <2>1. a \in Member /\ row[a] \in Row /\ "mute_all" \in Op
    BY <1>0 DEF TypeOK, Op, BulkOps
  <2>2. row[a].role = "OWNER" => a = Owner
    BY <1>0, <2>1 DEF OwnerSovereign
  <2>3. CopyOK("mute_all", a, a, row[a])
    BY <2>2 DEF CopyOK
  <2>4. QED
    BY <1>2, <2>1, <2>3, BeginKeeps DEF mute_all
<1>3. ASSUME NEW a \in User, deactivate_classroom(h, a) PROVE IInv'
  <2>1. /\ UNCHANGED row /\ req'[h].op = "deactivate_classroom"
        /\ \A k \in Handler \ {h} : req'[k] = req[k]
    BY <1>0, <1>3 DEF deactivate_classroom, Idle, TypeOK
  <2>2. CopyOK("deactivate_classroom", req'[h].actor, req'[h].target, req'[h].copy)
    BY DEF CopyOK
  <2>3. InFlightOK'
    BY <2>1, <2>2 DEF IInv, InFlightOK
  <2>4. QED
    BY <2>1, <2>3 DEF IInv, OwnerSovereign, BannedIsOut, WaitingIsActive
<1>4. QED
  BY <1>0, <1>1, <1>2, <1>3, OwnerIsMember
  DEF HostOnRoom, set_classroom_locked, update_settings, customize

LEMMA Columns ==
  /\ update_fields("join_classroom")       = {"active", "banned"}
  /\ update_fields("deactivate_member")    = {"active", "waiting", "hand"}
  /\ update_fields("remove_member")        = {"active", "waiting", "hand", "banned"}
  /\ update_fields("deny_waiting_room")    = {"active", "waiting"}
  /\ update_fields("approve_waiting_room") = {"waiting"}
  /\ update_fields("set_member_muted")     = {"muted"}
  /\ update_fields("set_hand_raised")      = {"hand"}
BY DEF update_fields, JoinColumns, LeaveColumns, RemoveColumns, DenyColumns

\* What a save makes of the row it finds, which need not be the row it read.
LEMMA SavedFacts ==
  ASSUME NEW r \in Request, r.op \in MemberOps, NEW cur \in Row,
         CopyOK(r.op, r.actor, r.target, r.copy),
         cur.banned => ~cur.active, cur.waiting => cur.active
  PROVE  LET s == Saved(r, cur) IN
         /\ s.banned => ~s.active
         /\ s.waiting => s.active
         /\ cur.role # "OWNER" => s.role # "OWNER"
         /\ r.target = Owner =>
              /\ s.role = cur.role /\ s.caps = cur.caps /\ s.known = cur.known
              /\ s.muted = cur.muted
              /\ s.banned => cur.banned
              /\ s.waiting => cur.waiting
<1> DEFINE s == Saved(r, cur)
           cols == update_fields(r.op)
<1>1. CASE r.op \in FullSaveOps
  <2>1. s = r.copy /\ r.target # Owner
    BY <1>1 DEF Saved, CopyOK, RankedOps, FullSaveOps
  <2>2. QED
    BY <1>1, <2>1 DEF CopyOK
<1>2. CASE r.op \notin FullSaveOps
  <2>1. /\ s.active  = IF "active"  \in cols THEN r.copy.active  ELSE cur.active
        /\ s.waiting = IF "waiting" \in cols THEN r.copy.waiting ELSE cur.waiting
        /\ s.banned  = IF "banned"  \in cols THEN r.copy.banned  ELSE cur.banned
        /\ s.muted   = IF "muted"   \in cols THEN r.copy.muted   ELSE cur.muted
        /\ s.role = cur.role /\ s.caps = cur.caps /\ s.known = cur.known
    BY <1>2 DEF Saved, Row
  <2>2. r.copy \in Row
    BY DEF Request
  <2> HIDE DEF s, cols
  <2>3. CASE r.op = "join_classroom"
    <3>1. s.active /\ ~s.banned /\ s.waiting = cur.waiting /\ s.muted = cur.muted
      BY <2>1, <2>2, <2>3, Columns DEF CopyOK, Row, cols
    <3>2. QED
      BY <2>1, <3>1 DEF s
  <2>4. CASE r.op \in {"deactivate_member", "deny_waiting_room"}
    <3>1. ~s.active /\ ~s.waiting /\ s.banned = cur.banned /\ s.muted = cur.muted
      BY <2>1, <2>2, <2>4, Columns DEF CopyOK, Row, cols
    <3>2. QED
      BY <2>1, <3>1 DEF s
  <2>5. CASE r.op = "remove_member"
    <3>1. ~s.active /\ ~s.waiting /\ r.target # Owner
      BY <2>1, <2>2, <2>5, Columns DEF CopyOK, RankedOps, Row, cols
    <3>2. QED
      BY <2>1, <3>1 DEF s
  <2>6. CASE r.op = "approve_waiting_room"
    <3>1. /\ s.active = cur.active /\ ~s.waiting
          /\ s.banned = cur.banned /\ s.muted = cur.muted
      BY <2>1, <2>2, <2>6, Columns DEF CopyOK, Row, cols
    <3>2. QED
      BY <2>1, <3>1 DEF s
  <2>7. CASE r.op \in {"set_member_muted", "set_hand_raised"}
    <3>1. /\ s.active = cur.active /\ s.waiting = cur.waiting /\ s.banned = cur.banned
          /\ r.target = Owner => s.muted = cur.muted
      BY <2>1, <2>2, <2>7, Columns DEF CopyOK, RankedOps, Row, cols
    <3>2. QED
      BY <2>1, <3>1 DEF s
  <2>8. QED
    BY <1>2, <2>3, <2>4, <2>5, <2>6, <2>7 DEF MemberOps, FullSaveOps
<1>3. QED
  BY <1>1, <1>2

\* A request that has written, published or given up carries no new instance.
LEMMA InFlightKept ==
  ASSUME IInv, NEW h \in Handler,
         req' = [req EXCEPT ![h] = Idle]
         \/ \E ph \in {"saved", "announced"} : req' = [req EXCEPT ![h] = [req[h] EXCEPT !.phase = ph]]
  PROVE  InFlightOK'
<1>0. \A k \in Handler : req[k] \in Request
  BY DEF IInv, TypeOK
<1>1. CopyOK(Idle.op, Idle.actor, Idle.target, Idle.copy)
  BY DEF CopyOK, Idle, RankedOps, CreateOps, FullSaveOps
<1>2. \A k \in Handler \ {h} : req'[k] = req[k]
  BY DEF IInv, TypeOK
<1>3. CopyOK(req'[h].op, req'[h].actor, req'[h].target, req'[h].copy)
  <2>1. CASE req' = [req EXCEPT ![h] = Idle]
    BY <1>1, <2>1 DEF IInv, TypeOK
  <2>2. CASE \E ph \in {"saved", "announced"} : req' = [req EXCEPT ![h] = [req[h] EXCEPT !.phase = ph]]
    <3>1. /\ req'[h].op = req[h].op /\ req'[h].actor = req[h].actor
          /\ req'[h].target = req[h].target /\ req'[h].copy = req[h].copy
      BY <1>0, <2>2 DEF IInv, TypeOK, Request
    <3>2. QED
      BY <3>1 DEF IInv, InFlightOK
  <2>3. QED
    BY <2>1, <2>2
<1>4. QED
  BY <1>2, <1>3 DEF IInv, InFlightOK

\* The rows may change if every changed row still satisfies these.
RowStepOK(m) ==
  /\ row'[m].banned => ~row'[m].active
  /\ row'[m].waiting => row'[m].active
  /\ m # Owner => row'[m].role # "OWNER"
  /\ m = Owner => /\ row'[m].known /\ row'[m].role = "OWNER"
                  /\ row'[m].caps = Capability
                  /\ ~row'[m].muted /\ ~row'[m].banned /\ ~row'[m].waiting

LEMMA RowStepsKeep ==
  ASSUME IInv, TypeOK', InFlightOK', \A m \in Member : row'[m] # row[m] => RowStepOK(m)
  PROVE  IInv'
<1>1. \A m \in Member : RowStepOK(m)
  BY DEF IInv, OwnerSovereign, BannedIsOut, WaitingIsActive, RowStepOK
<1>2. QED
  BY <1>1, OwnerIsMember DEF IInv, OwnerSovereign, BannedIsOut, WaitingIsActive, RowStepOK

LEMMA KeepsSave ==
  ASSUME IInv, TypeOK', NEW h \in Handler, Save(h)
  PROVE  IInv'
<1>0. /\ TypeOK /\ OwnerSovereign /\ BannedIsOut /\ WaitingIsActive
      /\ CopyOK(req[h].op, req[h].actor, req[h].target, req[h].copy)
  BY DEF IInv, InFlightOK
<1>1. /\ req[h] \in Request /\ req[h].target \in Member /\ req[h].copy \in Row
      /\ \A m \in Member : row[m] \in Row
  BY <1>0 DEF TypeOK, Request
<1>2. Done(h) => InFlightOK'
  BY InFlightKept DEF Done
<1>3. \A m \in Member : (row[m].banned => ~row[m].active) /\ (row[m].waiting => row[m].active)
  BY <1>0 DEF BannedIsOut, WaitingIsActive
<1>4. ASSUME SaveMember(h) PROVE IInv'
  <2> DEFINE t == req[h].target
             s == Saved(req[h], row[t])
  <2>1. /\ req[h].op \in MemberOps /\ InFlightOK'
        /\ row' = [row EXCEPT ![t] = s]
    BY <1>2, <1>4 DEF SaveMember, Due
  <2>2. /\ s.banned => ~s.active
        /\ s.waiting => s.active
        /\ row[t].role # "OWNER" => s.role # "OWNER"
        /\ t = Owner =>
             /\ s.role = row[t].role /\ s.caps = row[t].caps /\ s.known = row[t].known
             /\ s.muted = row[t].muted
             /\ s.banned => row[t].banned
             /\ s.waiting => row[t].waiting
    BY <1>0, <1>1, <1>3, <2>1, SavedFacts
  <2> HIDE DEF s
  <2>3. row'[t] = s /\ \A m \in Member \ {t} : row'[m] = row[m]
    BY <1>0, <1>1, <2>1 DEF TypeOK
  <2>4. RowStepOK(t)
    BY <1>0, <1>1, <2>2, <2>3 DEF RowStepOK, OwnerSovereign
  <2>5. QED
    BY <2>1, <2>3, <2>4, RowStepsKeep
<1>5. ASSUME CreateMember(h) PROVE IInv'
  <2> DEFINE t == req[h].target
  <2>1. req[h].op \in CreateOps /\ InFlightOK' /\ row' = [row EXCEPT ![t] = req[h].copy]
    BY <1>2, <1>5 DEF CreateMember, Due
  <2>2. row'[t] = req[h].copy /\ \A m \in Member \ {t} : row'[m] = row[m]
    BY <1>0, <1>1, <2>1 DEF TypeOK
  <2>3. RowStepOK(t)
    BY <1>0, <2>1, <2>2 DEF RowStepOK, CopyOK
  <2>4. QED
    BY <2>1, <2>2, <2>3, RowStepsKeep
<1>6. ASSUME MuteAll(h) PROVE IInv'
  <2> DEFINE targets == MuteAllTargets(req[h])
  <2>1. /\ req[h].op = "mute_all" /\ InFlightOK'
        /\ \A m \in Member \ targets : row'[m] = row[m]
        /\ \A m \in targets : row'[m] = [row[m] EXCEPT !.muted = TRUE]
    BY <1>2, <1>6 DEF MuteAll, Due, MuteAllTargets
  <2>2. Owner \notin targets
    BY <1>0, <2>1 DEF MuteAllTargets, CopyOK, OwnerSovereign, PRIVILEGED_ROLES
  <2>3. targets \subseteq Member
    BY DEF MuteAllTargets
  <2> HIDE DEF targets
  <2>4. ASSUME NEW m \in targets PROVE RowStepOK(m)
    <3>0. row[m] \in Row /\ row'[m] = [row[m] EXCEPT !.muted = TRUE]
      BY <1>1, <2>1, <2>3
    <3>1. /\ row'[m].banned = row[m].banned /\ row'[m].active = row[m].active
          /\ row'[m].waiting = row[m].waiting /\ row'[m].role = row[m].role
      BY <3>0 DEF Row
    <3>2. QED
      BY <1>0, <1>3, <2>2, <2>3, <3>1 DEF RowStepOK, OwnerSovereign
  <2>5. QED
    BY <2>1, <2>3, <2>4, RowStepsKeep
<1>7. ASSUME Deactivate(h) PROVE IInv'
  <2> DEFINE out(m) == [row[m] EXCEPT !.active = FALSE, !.waiting = FALSE, !.hand = FALSE]
  <2>1. InFlightOK' /\ \A m \in Member : row'[m] = IF m \in req[h].ids THEN out(m) ELSE row[m]
    BY <1>2, <1>7 DEF Deactivate
  <2>2. ASSUME NEW m \in Member, row'[m] # row[m] PROVE RowStepOK(m)
    <3>1. /\ ~row'[m].waiting /\ ~row'[m].active
          /\ row'[m].role = row[m].role /\ row'[m].caps = row[m].caps
          /\ row'[m].known = row[m].known /\ row'[m].muted = row[m].muted
          /\ row'[m].banned = row[m].banned
      <4>1. row[m] \in Row /\ row'[m] = out(m)
        BY <1>1, <2>1, <2>2
      <4>2. QED
        BY <4>1 DEF Row
    <3>2. QED
      BY <1>0, <3>1 DEF RowStepOK, OwnerSovereign
  <2>3. QED
    BY <2>1, <2>2, RowStepsKeep
<1>8. ASSUME SaveRoom(h) PROVE IInv'
  <2>1. UNCHANGED row /\ InFlightOK'
    BY <1>2, <1>8 DEF SaveRoom
  <2>2. QED
    BY <2>1, RowStepsKeep
<1>9. QED
  BY <1>4, <1>5, <1>6, <1>7, <1>8 DEF Save

LEMMA InvStep == IInv /\ [Next]_vars => IInv'
<1> SUFFICES ASSUME IInv, [Next]_vars PROVE IInv'
  OBVIOUS
<1>0. TypeOK'
  BY TypeStep DEF IInv
<1>1. ASSUME NEW h \in Handler, Refused(h) PROVE IInv'
  <2>1. UNCHANGED row /\ InFlightOK'
    BY <1>1, InFlightKept DEF Refused
  <2>2. QED
    BY <1>0, <2>1, RowStepsKeep
<1>2. ASSUME NEW h \in Handler, Announce(h) PROVE IInv'
  <2>1. UNCHANGED row /\ InFlightOK'
    BY <1>2, InFlightKept DEF Announce
  <2>2. QED
    BY <1>0, <2>1, RowStepsKeep
<1>3. ASSUME NEW m \in Member, BanExpires(m) PROVE IInv'
  <2>1. /\ row' = [row EXCEPT ![m].banned = FALSE] /\ row[m].banned /\ UNCHANGED req
        /\ row \in [Member -> Row]
    BY <1>3 DEF BanExpires, IInv, TypeOK
  <2>2. m # Owner
    BY <2>1 DEF IInv, OwnerSovereign
  <2>3. /\ ~row'[m].banned /\ row'[m].active = row[m].active
        /\ row'[m].waiting = row[m].waiting /\ row'[m].role = row[m].role
    BY <2>1 DEF Row
  <2>4. RowStepOK(m)
    BY <2>2, <2>3 DEF RowStepOK, IInv, OwnerSovereign, WaitingIsActive
  <2>5. InFlightOK' /\ \A k \in Member \ {m} : row'[k] = row[k]
    BY <2>1 DEF IInv, InFlightOK
  <2>6. QED
    BY <1>0, <2>4, <2>5, RowStepsKeep
<1>4. CASE UNCHANGED vars
  BY <1>4 DEF vars, IInv, TypeOK, OwnerSovereign, BannedIsOut, WaitingIsActive, InFlightOK
<1>5. QED
  BY <1>0, <1>1, <1>2, <1>3, <1>4, Proceeding, KeepsJoinOrLeave, KeepsHostOnMember,
     KeepsHostOnRoom, KeepsSave
  DEF Next

THEOREM Inductive == Spec => []IInv
BY InvInit, InvStep, PTL DEF Spec

-----------------------------------------------------------------------------
(* What follows.                                                           *)

\* Whatever requests of the owner, moderators and members overlap, the owner
\* keeps role and capabilities and is never muted, banned or put on hold
\* (_can_manage, set_member_role and mute_all).
THEOREM OwnerIsSovereign == Spec => []OwnerSovereign
<1>1. IInv => OwnerSovereign
  BY DEF IInv
<1>2. QED
  BY <1>1, Inductive, PTL

\* A ban that is running and an active membership exclude each other: a stale
\* full-row save may lose the ban but never yields a banned member who is in
\* (remove_member, join_classroom, set_member_permission).
THEOREM BannedAreOut == Spec => []BannedIsOut
<1>1. IInv => BannedIsOut
  BY DEF IInv
<1>2. QED
  BY <1>1, Inductive, PTL

\* Only active members are in the waiting list (join_classroom, deactivate_member,
\* approve_waiting_room, deny_waiting_room).
THEOREM WaitingAreActive == Spec => []WaitingIsActive
<1>1. IInv => WaitingIsActive
  BY DEF IInv
<1>2. QED
  BY <1>1, Inductive, PTL

\* No combination of the room-wide switches takes anything from an owner who is
\* in the running classroom (effective_permissions).
THEOREM OwnerMayAll ==
  Spec => [](room.active /\ row[Owner].active => Effective(Owner) = Capability)
<1>1. IInv /\ room.active /\ row[Owner].active => Effective(Owner) = Capability
  <2> SUFFICES ASSUME IInv, room.active, row[Owner].active
               PROVE  Effective(Owner) = Capability
    OBVIOUS
  <2>1. row[Owner].role = "OWNER" /\ Owner \notin Guest
    BY OwnerAssumption, GuestAssumption DEF IInv, OwnerSovereign
  <2>2. QED
    BY <2>1 DEF Effective, effective_permissions, PassesRoomSwitches, PRIVILEGED_ROLES
<1>2. QED
  BY <1>1, Inductive, PTL
=============================================================================
