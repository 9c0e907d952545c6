CONSTANTS
  w1 = w1
  w2 = w2
  Workers = {w1, w2}
  Instances = {i1}
  Setups <- MCTwice
SPECIFICATION Spec
INVARIANT NotLost
CHECK_DEADLOCK FALSE
