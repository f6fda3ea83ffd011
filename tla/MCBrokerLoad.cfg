CONSTANTS
  w1 = w1
  w2 = w2
  w3 = w3
  r1 = r1
  r2 = r2
  r3 = r3
  chat = chat
  conn = conn
  None = None
  Workers <- LoadWorkers
  Servers <- MCServers
  TypeOf <- MCTypeOf
  Clients <- MCClients
  Rids <- LoadRids
  ClientOf <- MCClientOf
  HEALTH_LIVENESS = 0
  MaxReplies = 1
SPECIFICATION BrokerSpec
PROPERTY RoutesToLeastBusy
