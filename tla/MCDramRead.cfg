CONSTANTS
    Readers = {r1, r2}
    Writers = {w1}
    MaxPos = 3
    MaxMappings = 3
    SizeWrap = 16
    NoThread = NoThread
    End = End
SPECIFICATION Spec
INVARIANT TypeOK
INVARIANT ReadCoversWindow
INVARIANT BufferMapOrdered
PROPERTY ReadCompletes
