\* One ask, one user: ReplyReachesAsk is violated.
CONSTANTS
  Users = {u1}
  Transports = {tg}
  Telegram = tg
  Roles = {bridge}
  Askers = {a1}
  Subs = {}
  InboundCap = 1
  SubCap = 1
  MaxMsgs = 1
SPECIFICATION Spec
INVARIANTS ReplyReachesAsk
CHECK_DEADLOCK FALSE
