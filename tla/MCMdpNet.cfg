CONSTANTS
  w1 = w1
  w2 = w2
  r1 = r1
  chat = chat
  None = None
  HB = HB
  Workers = {w1}
  Servers <- MCServers
  TypeOf <- MCTypeOf
  Clients <- MCClients
  Rids = {r1}
  ClientOf <- MCClientOf
  HEALTH_LIVENESS = 2
  MaxReplies = 2
  BROKER_LIVENESS = 1
  REQ_LIVENESS = 0
  HighWater = 2
  MaxBeats = 2
  MaxRestarts = 2
SPECIFICATION MdpFairSpec
INVARIANT NetTypeOK
INVARIANT DataOnce
PROPERTY DeadWorkersGivenUp
PROPERTY RunningWorkersKnown
PROPERTY TakenRequestsEnd
