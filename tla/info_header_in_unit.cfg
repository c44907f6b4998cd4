CONSTANTS
  Sizes <- MCSizes
  Orders <- MCOrders
  NoByte = NoByte
  NoCU = NoCU
  MaxUnits = 7
SPECIFICATION Spec
INVARIANT HeaderWithinUnit
CHECK_DEADLOCK FALSE
