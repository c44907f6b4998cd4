CONSTANTS
  AbbrevInputs <- MCAbbrevInputs
  FormSize <- MCFormSize
  Streams <- MCStreams
  MaxDies = 5
SPECIFICATION Spec
INVARIANT TypeOK
INVARIANT AbbrevParsed
INVARIANT TreeMatchesReference
INVARIANT IndexIntegrity
INVARIANT OkOnlyIfClosed
CHECK_DEADLOCK FALSE
