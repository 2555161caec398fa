SPECIFICATION FairSpec
CONSTANTS
    NCPUS = 3
    Directors = {0}
    Threads = {t1, t2}
    Ops = {"create", "join"}
    TIMEOUTS = FALSE
    NULL = NULL
INVARIANTS
    HandshakeHasDirector
PROPERTIES
    CreateSucceeds
    CallsReturn
    CreatedThreadsEnd
