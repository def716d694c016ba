\* Two boards and two presentations of three members, two at a time.
CONSTANTS
  w1 = w1  w2 = w2  p1 = p1  p2 = p2
  teacher = teacher  presenter = presenter  student = student
  Sock = {w1, w2, p1, p2}
  Member = {teacher, presenter, student}
  Who <- MCWho
  View <- MCView
  Plans <- MCPlans
  CanDraw = {w1, w2, p1}
  MaxPage = 2
  MaxOps = 3
  HISTORY_LIMIT = 3
SPECIFICATION BoardSpec
INVARIANTS BoardTypeOK CompactionExact NewerIsOnItsWay ViewersAgree
PROPERTY KeepsTheLog
\* the browsers stop after MaxOps operations
CHECK_DEADLOCK FALSE
