CONSTANTS
  Sizes <- MCSizes
  Orders <- MCOrders
  NoByte = NoByte
  NoCU = NoCU
  MaxUnits = 7
SPECIFICATION Spec
INVARIANT NoReadPastSection
CHECK_DEADLOCK FALSE
