\* Two calls while a dispatcher is closed and the next one is made.  When both are
\* closed and the calls have returned, the system has stopped.
SPECIFICATION Spec
CONSTANTS
  Requests = {r1, r2}
  UpdatesCap = 1
  MaxGen = 2
  MaxUpdates = 1
SYMMETRY Symmetry
INVARIANTS
  TypeOK
  OwnReply
  HandNeverBlocks
  CallReachable
CHECK_DEADLOCK FALSE
