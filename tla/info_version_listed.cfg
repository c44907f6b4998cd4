CONSTANTS
  Sizes <- MCSizes
  Orders <- MCOrders
  NoByte = NoByte
  NoCU = NoCU
  MaxUnits = 7
SPECIFICATION Spec
INVARIANT ListedUnitsSupported
CHECK_DEADLOCK FALSE
