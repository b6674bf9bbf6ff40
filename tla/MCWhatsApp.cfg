\* Start and one caller, two pairings and one event from outside; three
\* messages and a one-slot channel.  When the link is settled and nobody calls
\* any more, it has stopped.
SPECIFICATION WSpec
CONSTANTS
  Starter = start
  Callers = {c1}
  MaxFlows = 2
  MaxEvents = 1
  paper = paper
  letter = letter
  report = report
  scan = scan
  NoName = NoName
  Msgs = {paper, letter, report}
  Author <- Authors
  Shape <- Carried
  DocName <- Titles
  InboundCap = 1
INVARIANTS
  TypesOK
  FilesOwn
PROPERTIES
  QRGoesAway
  ReadStaysRead
  HandlerReturns
CHECK_DEADLOCK FALSE
