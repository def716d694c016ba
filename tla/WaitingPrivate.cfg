SPECIFICATION PresenceSpec
CONSTANTS
  owner = owner
  u1 = u1
  u2 = u2
  h1 = h1
  s1 = s1
  s2 = s2
  NoIp = NoIp
  Owner = owner
  User = {owner, u1, u2}
  Guest = {}
  Ip = {}
  Handler = {h1}
  Sock = {s1}
  Visitor = {u1}
  Ops = {"create_member", "update_settings"}
  Grantable = {}
  Assignable = {}
  Toggled = {"enable_waiting_room"}
INVARIANTS WaitingIsPrivate
CHECK_DEADLOCK FALSE
