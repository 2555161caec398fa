CONSTANTS
    W = 3
    MaxN = 7
    WSIZE = 8
    Offsets = {0, 3, 7}
    Values = {0, 1, 128, 255}
    Sizes = {0, 1, 5, 7, 8, 9, 17, 31, 32, 33, 64, 69}
    OLD = OLD
    HALF = 8
    GAPS = {0, 1, 2, 7}
    Callers = {main, handler}
    PlicHarts = {0, 1}
    Sources = {992, 1023}
    Levels = {0}
    Printers = {c0, c1}
    MaxLine = 3
    Files = {1, 3}
    DEPTH = 2
    LINE_BYTES = 2
    LastAddr = 3
    MaxWrites = 1
    Engines = {0, 1, 4}
    Stride = 4
    Count = 2
    Line64 = 8
    Strides = {0, 4}
    Counts = {0, 2}
    Starts = {13}
    Flags = {0, 7}
    NHARTS = 2
    WORD = 3
    Periods = {1, 2}
    MaxTime = 5
    UNSET = UNSET
SPECIFICATION ServicesSpec
INVARIANTS
    BitSetIsSet
    MemExtents
    CounterIsExact
    LinesAreWhole
    RangeIsFresh
    HwpfReadsBack
    TimerIsExact
    PmuIsWhole
PROPERTIES
    EnableIsLocal
    SomeWriteReturns
