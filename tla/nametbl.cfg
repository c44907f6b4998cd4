CONSTANTS
  Sizes <- MCSizes
  CUOffsets <- MCCUOffsets
  OtherOffset = 5
  AllocFails = TRUE
  NoCU = NoCU
SPECIFICATION Spec
INVARIANT PairCountConsistent
INVARIANT FlatArrayInSectionOrder
INVARIANT NoLeak
CHECK_DEADLOCK FALSE
