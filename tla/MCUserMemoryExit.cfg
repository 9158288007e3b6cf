SPECIFICATION Spec
CONSTANTS
    NProcs = 3
    NFrames = 20
    LowFrames <- Low
    NSlots = 5
    Idxs = 2
    MaxDirs = 5
    HeapStart = 8
    HeapEnd = 10
    StackPages <- Stack1
    TlbRetains = FALSE
    Units = 2
    Values = {1}
    ImagePages <- Image1
    MaxMmaps = 1
    NSegs = 1
    NAttach = 2
    SegSizes = {1}
    Touched = {2, 8, 9}
    Breaks = {17}
    MapAddrs = {0, 18}
    Lengths = {1}
    Calls <- LifeCalls
    PagesFromWindow = FALSE
    Mixed = FALSE
INVARIANTS
    NothingLost
CHECK_DEADLOCK FALSE
