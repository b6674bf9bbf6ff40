\* Two contacts, one writer and one reader of the directory; two processes of zc,
\* one of which installs; five messages in a chat, two pages of two.  Nothing is
\* left to do when both processes have run and the chat is full.
SPECIFICATION MSpec
CONSTANTS
  sam = sam
  samantha = samantha
  full = full
  bare = bare
  p1 = p1
  p2 = p2
  Procs = {p1, p2}
  Components = {"agent", "team"}
  Runs <- InstallAndUninstall
  PageSize = 2
  MaxPages = 2
  MaxMsgs = 5
  Writers = {w1}
  Conns = {k1}
  Tokens = {sam, samantha}
  Lines <- OneLine
  Prefixes <- SamBeginsSamantha
  Channels = {full, bare}
  Kind <- AddressKinds
  MaxId = 2
INVARIANTS
  TypesOK
  NoSharedToken
  RequirementsRecorded
  WholeBinary
  NothingUnseenRead
PROPERTIES
  DirectoryOutranks
CHECK_DEADLOCK FALSE
