CONSTANTS
  NFiles = 2
  NTypes = 2
  NOFFSET = 2
SPECIFICATION CodecSpec
INVARIANT FixedRoundTrip
INVARIANT UlebExactBelow2p31
INVARIANT SlebExactInt32
INVARIANT StringCursor
INVARIANT EndianRoundTrip
INVARIANT EndianMatchesCodec
INVARIANT HostOrderMacros
INVARIANT HashVectors
INVARIANT RawfileResult
INVARIANT XlateToMVerdict
