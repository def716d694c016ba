SPECIFICATION HistorySpec
CONSTANTS
  owner = owner
  u1 = u1
  u2 = u2
  g1 = g1
  g2 = g2
  h1 = h1
  h2 = h2
  ip1 = ip1
  NoIp = NoIp
  Owner = owner
  Ip = {ip1}
  User = {owner, u1}
  Guest = {}
  Handler = {h1}
  Ops = {"create_member", "join_classroom", "deny_waiting_room", "approve_waiting_room", "update_settings"}
  Grantable = {}
  Assignable = {}
  Toggled = {"enable_waiting_room"}
PROPERTIES NewcomersAreApproved
