CONSTANTS
  enrol1 = enrol1
  enrol2 = enrol2
  enrol3 = enrol3
  play = play
  Job = job
  s0 = s0
  s1 = s1
  s2 = s2
  s3 = s3
  p = p
  q = q
  infoP = infoP
  infoQ = infoQ
  Day = day
  Global = global
  r1 = r1
  r2 = r2
  r3 = r3
  r4 = r4
  o1 = o1
  o2 = o2
  Calls = {enrol1, enrol2, enrol3, play, job}
  SessionOf <- MCSessionOf
  Logins = {}
  LoggedIn = {s0, s1, s2, s3}
  Quiet = {job}
  Records = {infoP, infoQ, day, global}
  Required = {infoP, infoQ, day, global}
  ReadsOf <- MCReadsOf
  WritesOf <- MCReadsOf
  Created <- MCCreated
  Faults = {enrol2, job}
  Enrols = {enrol1, enrol2, enrol3}
  PlayerOf <- MCPlayerOf
  InfoOf <- MCInfoOf
  Robots <- MCRobots
  BodyOf <- MCBodyOf
  StartTickets <- MCStartTickets
  Gains = {1}
  Limit = 1
  MinTickets = 1
  MinSize = 4
  RoundEnd = 2
  MaxRounds = 2
  Finalists = 1
  MaxCalls = 3
SPECIFICATION PvpSpec
INVARIANT PvpTypeOK
INVARIANT EveryoneRanked
INVARIANT RanksByStart
INVARIANT PointsConserved
INVARIANT ListedOnce
INVARIANT WithinLimit
INVARIANT NeverShort
PROPERTY ImplementsStore
CHECK_DEADLOCK FALSE
