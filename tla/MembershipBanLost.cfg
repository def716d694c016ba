SPECIFICATION Spec
CONSTANTS
  owner = owner
  u1 = u1
  u2 = u2
  g1 = g1
  g2 = g2
  h1 = h1
  h2 = h2
  ip1 = ip1
  NoIp = NoIp
  Owner = owner
  Ip = {ip1}
  User = {owner, u1}
  Guest = {}
  Handler = {h1, h2}
  Ops = {"create_member", "join_classroom", "set_member_permission", "remove_member"}
  Grantable = {"can_upload_files"}
  Assignable = {}
  Toggled = {}
PROPERTIES BanRunsItsTime
