CONSTANTS
    NCPUS = 3
    STACK_SIZE = 2
    BootHarts = {0, 1}
    Statuses = {0}
    JUNK = JUNK
    NONE = NONE
SPECIFICATION FairSpec
INVARIANTS StacksDisjoint WokenSeesItsDescription
PROPERTIES MainIsReported
