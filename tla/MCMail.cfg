CONSTANTS
  login1 = login1
  login2 = login2
  claim1 = claim1
  claim2 = claim2
  receive1 = receive1
  receive2 = receive2
  s1 = s1
  s2 = s2
  base = base
  Bag = bag
  m1 = m1
  Calls = {login1, login2, claim1, claim2, receive1, receive2}
  SessionOf <- MCSessionOf
  Logins = {login1, login2}
  LoggedIn = {}
  Quiet = {claim1, claim2, receive1, receive2}
  Claims = {claim1, claim2}
  Receives = {receive1, receive2}
  Records = {base, bag}
  Required = {bag}
  ReadsOf <- MCReadsOf
  WritesOf <- MCWritesOf
  Created <- MCCreated
  Faults = {login1, claim2, receive1, receive2}
  LostMails = {m1}
  Mails = {m1}
SPECIFICATION MailSpec
INVARIANT MailTypeOK
INVARIANT BaseFirst
INVARIANT AnsweredIsStored
INVARIANT PaidOnce
INVARIANT ClaimedArrives
INVARIANT PoolsDisjoint
INVARIANT MailsHaveHeads
PROPERTY RunsPipeline
CHECK_DEADLOCK FALSE
SYMMETRY MCSymmetry
VIEW MCView
