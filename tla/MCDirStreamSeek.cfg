CONSTANTS
    NumEntries = 4
    MaxCap = 3
SPECIFICATION SeekSpec
INVARIANT ReaddirReplyCorrect
