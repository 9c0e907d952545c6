CONSTANTS
  p1 = p1
  p2 = p2
  s1 = s1
  s2 = s2
  c1 = c1
  f1 = f1
  Threads = {p1, p2, s1, s2, c1, f1}
  Setups <- MCSound
SPECIFICATION LiveSpec
INVARIANT TypeOK
INVARIANT BatchInOrder
INVARIANT MatchUnlessCrossed
INVARIANT RegistrationsFollow
INVARIANT ClosedStaysClosed
PROPERTY CallsEnd
CHECK_DEADLOCK FALSE
