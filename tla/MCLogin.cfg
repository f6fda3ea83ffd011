CONSTANTS
  s1 = s1
  s2 = s2
  s3 = s3
  s4 = s4
  s5 = s5
  c1 = c1
  c2 = c2
  p = p
  q = q
  r = r
  u = u
  v = v
  Uuids = {u, v}
  UuidOf <- MCUuidOf
  None = None
  Sids = {s1, s2, s3, s4, s5}
  Conns = {c1, c2}
  ConnOf <- MCConnOf
  Players = {p, q, r}
  PlayerOf <- MCPlayerOf
  MapLimit = 2
  MaxLogins = 2
  Faults = TRUE
SPECIFICATION LoginSpec
INVARIANT LoginTypeOK
INVARIANT LiveIsOnline
INVARIANT PushReach
INVARIANT CleanedUp
CHECK_DEADLOCK FALSE
SYMMETRY MCSymmetry
CONSTRAINT MCFewLeave
