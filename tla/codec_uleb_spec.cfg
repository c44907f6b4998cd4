SPECIFICATION Spec
INVARIANT UlebRoundTrip
