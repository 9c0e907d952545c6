CONSTANTS
  Names = {n1, n2}
  Setups <- MCReused
SPECIFICATION Spec
INVARIANT SeenIsSound
CHECK_DEADLOCK FALSE
