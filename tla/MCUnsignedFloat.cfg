SPECIFICATION ConvSpec
CONSTANTS
    H = 5
    S = 4
    D = 8
INVARIANT UnsignedToNearest
CHECK_DEADLOCK FALSE
