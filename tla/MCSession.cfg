CONSTANTS
  s1 = s1
  s2 = s2
  Sids = {s1, s2}
  maxConnections = 1
  MaxMsgs = 3
  MsgsOf <- MCMsgsOf
  MaxReplies = 2
  MaxLost = 1
SPECIFICATION SessionFairSpec
INVARIANT SessionTypeOK
INVARIANT ConnectCount
INVARIANT InOrder
INVARIANT OneAtATime
INVARIANT AnswersInOrder
PROPERTY ImplementsMailbox
PROPERTY SilentDropped
PROPERTY AnsweredBehindAnswerable
CHECK_DEADLOCK FALSE
