CONSTANTS
  w1 = w1
  w2 = w2
  w3 = w3
  r1 = r1
  r2 = r2
  r3 = r3
  chat = chat
  conn = conn
  None = None
  Workers <- MCWorkers
  Servers <- MCServers
  TypeOf <- MCTypeOf
  Clients <- MCClients
  Rids <- MCRids
  ClientOf <- MCClientOf
  HEALTH_LIVENESS = 1
  MaxReplies = 2
SPECIFICATION BrokerSpec
INVARIANT BrokerTypeOK
INVARIANT Bookkeeping
INVARIANT LoadBound
PROPERTY ImplementsRpc
