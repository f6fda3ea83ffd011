CONSTANTS
  a = a
  b = b
  c = c
  d = d
  e = e
  f = f
  g = g
  h = h
  F8 <- MCF8
SPECIFICATION FinalSpec
INVARIANT UndefeatedIsFirst
CHECK_DEADLOCK FALSE
