SPECIFICATION Spec
CONSTANTS
  owner = owner
  u1 = u1
  u2 = u2
  g1 = g1
  g2 = g2
  h1 = h1
  h2 = h2
  ip1 = ip1
  NoIp = NoIp
  Owner = owner
  Ip = {ip1}
  User = {owner, u1, u2}
  Guest = {}
  Handler = {h1}
  Ops = {"set_hand_raised", "create_member", "join_classroom", "deactivate_member", "set_member_permission", "set_member_role", "set_member_muted", "remove_member", "deny_waiting_room", "mute_all"}
  Grantable = {"can_use_microphone", "can_upload_files"}
  Assignable = {"MODERATOR", "STUDENT"}
  Toggled = {}
PROPERTIES MuteSticks OnlyOwnerAssignsRoles BanRunsItsTime
SYMMETRY Symmetry
