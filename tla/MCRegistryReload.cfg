CONSTANTS
    Threads = {t1, t2}
    p1 = p1
    p2 = p2
    Paths <- MCPaths
    FileSize <- MCFileSize
    Capacity = 4
    NoThread = NoThread
    Absent = Absent
    MaxVersion = 1
SPECIFICATION Spec

INVARIANT LoadedIsCurrent
