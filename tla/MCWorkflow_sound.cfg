CONSTANTS
  w1 = w1
  w2 = w2
  Workers = {w1, w2}
  Instances = {i1}
  Setups <- MCSound
SPECIFICATION LiveSpec
INVARIANT TypeOK
INVARIANT NotLost
INVARIANT CompensatesExactly
INVARIANT RegistryAgrees
PROPERTY ImplementsSaga
PROPERTY InstanceEnds
CHECK_DEADLOCK FALSE
