SPECIFICATION Spec
INVARIANT StringInBounds
