CONSTANTS
  NaN = NaN
  Undefined = Undefined
  TextVals <- MCTextVals
  Times = {9, 10}
  MaxPosts = 2
  MaxReplies = 2
  HostFaults = FALSE
SPECIFICATION Spec
INVARIANTS
  ReplyKeysUnique
CHECK_DEADLOCK FALSE
