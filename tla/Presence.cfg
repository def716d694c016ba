SPECIFICATION FairPresenceSpec
CONSTANTS
  owner = owner
  u1 = u1
  u2 = u2
  h1 = h1
  s1 = s1
  s2 = s2
  NoIp = NoIp
  Owner = owner
  User = {owner, u1}
  Guest = {}
  Ip = {}
  Handler = {h1}
  Sock = {s1, s2}
  Visitor = {u1}
  Ops = {"create_member", "join_classroom", "deactivate_member", "set_hand_raised", "remove_member", "approve_waiting_room", "deny_waiting_room", "deactivate_classroom", "update_settings"}
  Grantable = {}
  Assignable = {}
  Toggled = {"enable_waiting_room"}
INVARIANTS PresenceTypeOK NoSilentSurvivor RoomGroupIsAdmitted
PROPERTIES RevokedSocketsClose
CHECK_DEADLOCK FALSE
