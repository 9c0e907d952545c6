CONSTANTS
  MaxSeq = 2
  AckBatchMax = 2
  Setups <- MCSound
SPECIFICATION LiveSpec
INVARIANT TypeOK
INVARIANT ReleasedWasAcked
INVARIANT OldestCovers
PROPERTY DeferredUntilSettled
PROPERTY NotRerun
PROPERTY AckArrives
CHECK_DEADLOCK FALSE
