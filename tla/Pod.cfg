SPECIFICATION MCSpec
CONSTANTS
  intra = intra
  Calls = {intra, pub1}
  Port <- MCPort
  KeyIds = {k}
  Secrets = {s1, s2}
  Principals = {p}
  Forms = {"bare", "bearer"}
  MaxRows = 1
  Runs = {r1, r2}
  Nobody = Nobody
INVARIANTS
  ServingHasItsParts
  CallsAreDrained
  KeyVerdictsHold
  MigrationsTakeTurns
PROPERTIES
  ShutdownEnds
CHECK_DEADLOCK FALSE
