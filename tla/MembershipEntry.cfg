SPECIFICATION Spec
CONSTANTS
  owner = owner
  u1 = u1
  u2 = u2
  g1 = g1
  g2 = g2
  h1 = h1
  h2 = h2
  ip1 = ip1
  NoIp = NoIp
  Owner = owner
  Ip = {ip1}
  User = {owner, u1}
  Guest = {g1, g2}
  Handler = {h1}
  Ops = {"create_member", "set_member_role", "join_classroom", "remove_member", "approve_waiting_room", "deactivate_classroom", "set_classroom_locked", "update_settings", "customize"}
  Grantable = {}
  Assignable = {"MODERATOR"}
  Toggled = {"enable_waiting_room"}
INVARIANTS TypeOK DoorsAgree
PROPERTIES NoBackDoor
SYMMETRY Symmetry
CHECK_DEADLOCK FALSE
