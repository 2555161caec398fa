CONSTANTS
    Harts = {0, 1}
    Interrupts = {"timer"}
    Exceptions = {"load_fault", "page_fault"}
    MaxOff = 2
    MaxDepth = 2
    NONE = NONE
SPECIFICATION FairSpec
INVARIANTS IInv
PROPERTIES Resumes ReportIsHonest PanicIsReported
