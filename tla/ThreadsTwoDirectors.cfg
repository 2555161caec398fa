SPECIFICATION Spec
CONSTANTS
    NCPUS = 3
    Directors = {0, 1}
    Threads = {t1, t2, t3}
    Ops = {"create"}
    TIMEOUTS = FALSE
    NULL = NULL
INVARIANT ThreadIsExecuted
