SPECIFICATION Spec
CONSTANTS
  Requests = {r1}
  UpdatesCap = 1
  MaxGen = 2
  MaxUpdates = 0
INVARIANTS
  RepliesNotDiverted
CHECK_DEADLOCK FALSE
