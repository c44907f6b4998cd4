CONSTANTS
  Sizes <- MCSizes
  Orders <- MCOrders
  NoByte = NoByte
  NoCU = NoCU
  MaxUnits = 7
SPECIFICATION FairSpec
PROPERTY Termination
CHECK_DEADLOCK FALSE
