SPECIFICATION FairSpec
CONSTANTS
    Cores = {c1, c2, c3, c4}
    TICKETS = 4
INVARIANTS
    MutualExclusion
    IInv
PROPERTIES
    ImplementsFifoLock
    StarvationFree
