\* Three messages past a one-slot channel; only Start logs in, once.
SPECIFICATION FairSpec
CONSTANTS
  Starter = start
  Actions = {}
  Recent = 2
  InboundCap = 1
  MaxSessions = 1
  MaxMsgs = 3
INVARIANTS
  TypeOK
  SurfacedOnce
PROPERTIES
  ReadStaysRead
  ConnectedReceives
