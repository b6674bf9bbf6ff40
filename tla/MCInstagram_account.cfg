\* A connector action at a time beside Start, which logs in too, and two
\* successful logins; no messages.
SPECIFICATION FairSpec
CONSTANTS
  Starter = start
  Actions = {a1}
  Recent = 1
  InboundCap = 1
  MaxSessions = 2
  MaxMsgs = 0
PROPERTIES
  ConnectingEnds
  DeadSessionNoticed
