CONSTANTS
  v1 = v1
  q1 = q1
  Listeners = {v1}
  HostReqs = {q1}
  NoLink = NoLink
  VoicePlans <- MCVoicePlans
SPECIFICATION VoiceSpec
INVARIANT MutedStaysOff
CHECK_DEADLOCK FALSE
