SPECIFICATION FairSpec
CONSTANTS
  p1 = p1
  Submits = {s1, s2}
  Pollers = {p1}
  Callers = {c1}
  RequestIds = {r1}
  Bodies = {b1}
  Principal <- OnePoller
  Internal = Internal
  NoId = NoId
  StaleAfter = 2
  MaxSkew = 1
  DbMayFail = FALSE
INVARIANTS
  NoOrphanPending
PROPERTIES
  PendingEnds
  JobEndIsRecorded
