CONSTANTS
  h1 = h1
  h2 = h2
  p1 = p1
  m1 = m1
  c1 = c1
  s1 = s1
  s2 = s2
  t1 = t1
  t2 = t2
  u1 = u1
  q1 = q1
  q2 = q2
  pg1 = pg1
  pg2 = pg2
  v1 = v1
  v2 = v2
  QuizHosts = {h1, h2}
  Pupils = {p1}
  MaxRuns = 3
  QuizPlans <- MCQuizPlans
  Chatters = {m1, c1}
  ChatMods = {m1}
  HISTORY_LIMIT = 2
  ChatPlans <- MCChatPlans
  Leaders = {h1, h2}
  SessionIds = {1, 2}
  Tabs = {s1, s2}
  TabOwner <- MCTabOwner
  SessionPlans <- MCSessionPlans
  FileReqs = {q1, q2}
  FilePages = {pg1, pg2}
  FileIds = {1, 2, 3}
  MAX_FILES_PER_CLASSROOM = 1
  FilePlans <- MCFilePlans
  SlideFiles = {"f1", "f2", "img", "zip"}
  FileKind <- MCFileKind
  NumPages <- MCNumPages
  SlidePlans <- MCSlidePlans
  Listeners = {v1}
  HostReqs = {q1, q2}
  NoLink = NoLink
  VoicePlans <- MCVoicePlans
  Folk = {m1}
  RosterReqs = {q1, q2}
  RoomTabs = {t1, t2}
  TabFolk <- MCTabFolk
  Viewers = {v1, v2}
  Hosts = {v1}
  RosterPlans <- MCRosterPlans
  Attempts = {q1, q2}
  LOGIN_MAX = 2
  LIMIT = 2
  WINDOW = 2
  Callers = {"ali", "sara"}
  Accounts = {"sara"}
  PASS_MAX = 2
  PASS_MAX_IP = 2
  WINDOW_IP = 2
  ThrottlePlans <- MCThrottlePlans
  Posts = {q1, q2}
  GradePlans <- MCGradePlans
  Visits <- MCVisits
  TRUSTED <- MCTrusted
  Canvases <- MCCanvases
  Pixels <- MCPixels
  Pens = {3, 24}
  POINTS_MAX = 4
  OP_FITS = 4
  FRAME_FITS = 5
  PAGE_MAX = 2
  GesturePlans <- MCGesturePlans
INIT LessonInit
NEXT LessonNext
INVARIANTS
  LessonTypeOK
  QuizFollowed
  MarkedIsRecorded
  NothingIsMissed
  DeletionsShow
  EndedIsClosed
  AttendeesAreThere
  FilesBounded
  PageFollowsFiles
  SlideShown
  MutedNotHeard
  MicTellsTheTruth
  
  Throttled
  AnswerIsKept
  HeardAsDrawn
PROPERTY OneRunAfterStart
CHECK_DEADLOCK FALSE
