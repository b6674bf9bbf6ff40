\* A call and two updates over a one-slot channel, while a dispatcher is closed
\* and the next one is made.  When both are closed and the call has returned, the
\* system has stopped.
SPECIFICATION FairSpec
CONSTANTS
  Requests = {r1}
  UpdatesCap = 1
  MaxGen = 2
  MaxUpdates = 2
INVARIANTS
  UpdatesComplete
  OldestDropped
PROPERTIES
  EventsDrain
  StoppedLoopEnds
CHECK_DEADLOCK FALSE
