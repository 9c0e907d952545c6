CONSTANTS
  Names = {n1, n2}
  Ordered = {n1}
  MaxCap = 2
  MaxSeq = 4
  MaxSlots = 2
SPECIFICATION Spec
INVARIANT CapHolds
INVARIANT FreshMeansUnseen
CHECK_DEADLOCK FALSE
