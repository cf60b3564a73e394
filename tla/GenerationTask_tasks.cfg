SPECIFICATION TableSpec
CONSTANTS
  p1 = p1
  p2 = p2
  c1 = c1
  Submits = {s1, s2}
  Pollers = {p1, p2}
  Callers = {c1}
  RequestIds = {r1}
  Bodies = {b1, b2}
  Principal <- TwoPollers
  Internal = Internal
  NoId = NoId
  StaleAfter = 2
  MaxSkew = 1
  DbMayFail = TRUE
SYMMETRY Interchangeable
INVARIANTS
  TableImplementsRows
  OneUpstreamRequestPerKey
  SameKeySameTask
  RowMatchesUpstream
  DefiniteFailureIsTrue
  VerdictsHold
  ReapLosesNoJob
PROPERTIES
  ImplementsLifecycle
  ClosedRowsFrozen
