SPECIFICATION ClosingSpec
CONSTANTS
  owner = owner
  u1 = u1
  u2 = u2
  g1 = g1
  g2 = g2
  h1 = h1
  h2 = h2
  ip1 = ip1
  NoIp = NoIp
  Owner = owner
  Ip = {ip1}
  User = {owner, u1}
  Guest = {}
  Handler = {h1, h2}
  Ops = {"create_member", "join_classroom", "deactivate_member", "set_member_permission", "set_member_role", "set_member_muted", "remove_member", "approve_waiting_room", "deny_waiting_room", "mute_all", "update_settings", "deactivate_classroom"}
  Grantable = {"can_use_microphone"}
  Assignable = {"MODERATOR"}
  Toggled = {"enable_waiting_room"}
INVARIANTS OwnerSovereign BannedIsOut WaitingIsActive OnlyLatecomersRemain
SYMMETRY Symmetry
CHECK_DEADLOCK FALSE
