CONSTANTS
  Sizes <- MCSizes
  Orders <- MCOrders
  NoByte = NoByte
  NoCU = NoCU
  MaxUnits = 7
SPECIFICATION FairSpec
PROPERTY CUSegmentationRefined
PROPERTY TerminationInSection
CHECK_DEADLOCK FALSE
