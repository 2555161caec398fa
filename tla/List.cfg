SPECIFICATION Spec
CONSTANTS
    Nodes = {n1, n2, n3, n4}
    HEAD = HEAD
    NULL = NULL
INVARIANTS
    IInv
    WalksAgree
PROPERTY ImplementsDeque
