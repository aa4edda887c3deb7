CONSTANTS
    Radix = 2
    MaxBody = 3
SPECIFICATION Spec
INVARIANT WellFormedFramesDecode
