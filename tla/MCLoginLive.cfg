CONSTANTS
  s1 = s1
  s2 = s2
  s3 = s3
  s4 = s4
  s5 = s5
  c1 = c1
  c2 = c2
  p = p
  q = q
  r = r
  u = u
  v = v
  Uuids = {u}
  UuidOf <- MCUuidOf
  None = None
  Sids = {s1, s2}
  Conns = {c1, c2}
  ConnOf <- MCConnOf
  Players = {p}
  PlayerOf <- MCPlayerOf
  MapLimit = 1
  MaxLogins = 3
  Faults = FALSE
SPECIFICATION LoginFairSpec
PROPERTY KicksLand
PROPERTY LoginsEnd
PROPERTY OldSessionLeaves
CHECK_DEADLOCK FALSE
