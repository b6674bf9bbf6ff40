\* Two writers.
CONSTANTS
  sam = sam
  samantha = samantha
  Writers = {w1, w2}
  Tokens = {sam, samantha}
  Lines <- OneLine
  Prefixes <- SamBeginsSamantha
  Channels = {c1}
  MaxId = 2
SPECIFICATION Spec
SYMMETRY Symmetry
INVARIANTS NoSharedTokenEver
