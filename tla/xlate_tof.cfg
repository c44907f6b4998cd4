CONSTANTS
  NFiles = 2
  NTypes = 2
  NOFFSET = 2
SPECIFICATION CodecSpec
INVARIANT XlateToFVerdict
