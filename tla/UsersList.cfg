\* Two clients over two profiles on two pages, one change, entries of one second.
SPECIFICATION Spec
CONSTANTS
  Client = {c1, c2}
  Row = {r1, r2}
  Key = {1, 2}
  Limit = 1
  Ttl = 1
  CallTimeout = 1
  MaxTime = 3
  MaxChanges = 1
  MaxInFlight = 1
SYMMETRY Symmetry
INVARIANTS TypeOK AnswerIsRecent QuietWalkIsComplete
CHECK_DEADLOCK FALSE
