SPECIFICATION Spec
CONSTANTS
    NCPUS = 2
    Directors = {0}
    Threads = {t1}
    Ops = {"create", "join", "destroy"}
    TIMEOUTS = FALSE
    NULL = NULL
INVARIANT DestroyedCoreIsIdle
