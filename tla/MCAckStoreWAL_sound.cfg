CONSTANTS
  Names = {n1, n2}
  Setups <- MCSound
SPECIFICATION Spec
SYMMETRY NameSymmetry
INVARIANT TypeOK
INVARIANT SeenIsSound
INVARIANT SyncedSurvives
INVARIANT LogCoversMemory
INVARIANT FreshMeansUnseen
CHECK_DEADLOCK FALSE
