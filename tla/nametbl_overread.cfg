CONSTANTS
  Sizes <- MCSizes
  CUOffsets <- MCCUOffsets
  OtherOffset = 5
  AllocFails = TRUE
  NoCU = NoCU
SPECIFICATION Spec
INVARIANT NoReadPastSection
CHECK_DEADLOCK FALSE
