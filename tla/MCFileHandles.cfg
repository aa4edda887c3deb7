CONSTANTS
    Threads = {t1, t2}
    Handles = {h1, h2, h3}
    FdLimit = 3
    Free = Free
    NoFd = NoFd
    NoIo = NoIo
SPECIFICATION Spec
INVARIANT IoReachesOwnFile
