CONSTANTS
  s1 = s1
  s2 = s2
  s3 = s3
  AllSubs = {s1, s2, s3}
  ChanCap = 1
  Setups <- MCShared
SPECIFICATION Spec
INVARIANT ReleasedWasHandled
CHECK_DEADLOCK FALSE
