\* A release build: assert(false) compiled out.
CONSTANTS
    Paths = {a, b}
    Procs = {q1, q2}
    NDEBUG = TRUE
SPECIFICATION Spec
INVARIANT FlockExclusive
\* After unmount (or an abort) the daemon process has exited: nothing follows.
CHECK_DEADLOCK FALSE
