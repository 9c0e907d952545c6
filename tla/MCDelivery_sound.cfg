CONSTANTS
  s1 = s1
  s2 = s2
  s3 = s3
  AllSubs = {s1, s2, s3}
  ChanCap = 1
  Setups <- MCSound
SPECIFICATION Spec
INVARIANT RoutesAgree
INVARIANT ReleasedWasHandled
INVARIANT NoRouteWithoutOwner
PROPERTY CopyReachesAll
CHECK_DEADLOCK FALSE
