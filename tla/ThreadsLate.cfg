SPECIFICATION FairSpec
CONSTANTS
    NCPUS = 2
    Directors = {0}
    Threads = {t1}
    Ops = {"create", "join"}
    TIMEOUTS = TRUE
    NULL = NULL
PROPERTY AwakeIsDeclared
