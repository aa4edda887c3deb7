CONSTANTS
    NumEntries = 6
    MaxCap = 4
SPECIFICATION Spec
INVARIANT TypeOK
INVARIANT ReaddirReplyCorrect
