SPECIFICATION Spec
CONSTANTS
    Bits = 2
    Words = 3
INVARIANTS WireIsMask
