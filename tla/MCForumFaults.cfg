CONSTANTS
  NaN = NaN
  Undefined = Undefined
  TextVals <- MCTextVals
  Times = {9, 10}
  MaxPosts = 2
  MaxReplies = 2
  HostFaults = TRUE
SPECIFICATION Spec
PROPERTIES
  ForumRefinesAbstract
INVARIANTS
  ReplyCountCovers
CHECK_DEADLOCK FALSE
