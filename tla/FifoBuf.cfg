SPECIFICATION FairSpec
CONSTANTS
    Cores = {c1, c2}
    Nodes = {n1, n2}
    HEAD = HEAD
    NULL = NULL
INVARIANTS
    LinksAreItems
    DataIsFresh
PROPERTIES
    ImplementsQueue
    CallsReturn
