CONSTANTS
  c1 = c1
  c2 = c2
  p1 = p1
  p2 = p2
  None = None
  Conns = {c1, c2}
  Default = c1
  Clients = {p1, p2}
  ConnLimit = 2
  TableLimit = 2
  CacheLimit = 1
  MaxAsks = 2
  MaxLogins = 3
SPECIFICATION GateSpec
INVARIANT LoadsArePlayers
CHECK_DEADLOCK FALSE
