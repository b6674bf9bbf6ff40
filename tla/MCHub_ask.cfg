\* Two asks of two users over two transports, and no subscriber.
CONSTANTS
  Users = {u1, u2}
  Transports = {tg, wa}
  Telegram = tg
  Roles = {bridge}
  Askers = {a1, a2}
  Subs = {}
  InboundCap = 1
  SubCap = 1
  MaxMsgs = 2
SPECIFICATION Spec
SYMMETRY Symmetry
INVARIANTS TypeOK ReplyNeverBlocks QueuesExact OneFate OldestFirst
\* Once MaxMsgs messages have been handled the hub waits for the next one.
CHECK_DEADLOCK FALSE
