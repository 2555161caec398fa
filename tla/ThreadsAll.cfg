SPECIFICATION Spec
CONSTANTS
    NCPUS = 3
    Directors = {0}
    Threads = {t1, t2}
    Ops = {"create", "join", "destroy"}
    TIMEOUTS = TRUE
    NULL = NULL
INVARIANTS
    CoreStateAgrees
    IInv
    DispatchConsistent
PROPERTIES
    EndIsReal
    ImplementsThreadPool
