\* An ask and two subscribers to one transport, over fair goroutines.  Once
\* MaxMsgs messages have been handled the hub waits for the next one.
CONSTANTS
  Users = {u1}
  Transports = {tg}
  Telegram = tg
  Roles = {bridge}
  Askers = {a1}
  Subs = {s1, s2}
  InboundCap = 1
  SubCap = 1
  MaxMsgs = 2
SPECIFICATION FairSpec
INVARIANTS StreamComplete NoStaleSubscriber
PROPERTIES EveryMessageSettles AnswerArrives DepartedForgotten ImplementsRouter
CHECK_DEADLOCK FALSE
