SPECIFICATION FairSpec
CONSTANT Cores = {c1, c2, c3, c4, c5}
INVARIANT IInv
PROPERTIES
    ImplementsMutex
    WaitersEnter
