CONSTANTS
  p1 = p1
  p2 = p2
  s1 = s1
  s2 = s2
  c1 = c1
  f1 = f1
  Threads = {p1, p2, s1, s2, c1, f1}
  Setups <- MCCrossing
SPECIFICATION Spec
CHECK_DEADLOCK FALSE
INVARIANT RepliesMatch
