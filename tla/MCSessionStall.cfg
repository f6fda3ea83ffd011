CONSTANTS
  s1 = s1
  s2 = s2
  Sids = {s1}
  maxConnections = 1
  MaxMsgs = 2
  MsgsOf <- MCMsgsOf
  MaxReplies = 2
  MaxLost = 1
SPECIFICATION SessionFairSpec
PROPERTY EveryMessageAnswered
CHECK_DEADLOCK FALSE
