CONSTANTS
  NaN = NaN
  Undefined = Undefined
  TextVals <- MCTextVals
  Times = {9, 10}
  MaxPosts = 2
  MaxReplies = 2
  HostFaults = TRUE
SPECIFICATION Spec
INVARIANTS
  ReplyCountMatches
CHECK_DEADLOCK FALSE
