SPECIFICATION MCSpec
CONSTANTS
    H = 5
    S = 4
    D = 8
    LongBits = 5
    Calls <- MCCalls
INVARIANTS SignedToNearest DoubleToNearest CutOff ResultsAsInC StrtolAsInC
CHECK_DEADLOCK FALSE
