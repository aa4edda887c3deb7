CONSTANTS
    Radix = 2
    MaxBody = 3
SPECIFICATION Spec
INVARIANT HeaderLengthMatchesFrame
INVARIANT ResponseFramed
INVARIANT HeaderIsNetworkOrder
INVARIANT HeaderLengthDecodes
