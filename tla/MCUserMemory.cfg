SPECIFICATION Spec
CONSTANTS
    NProcs = 3
    NFrames = 20
    LowFrames <- Low
    NSlots = 5
    Idxs = 2
    MaxDirs = 5
    HeapStart = 8
    HeapEnd = 10
    StackPages <- Stack1
    TlbRetains = FALSE
    Units = 2
    Values = {1}
    ImagePages <- Image1
    MaxMmaps = 1
    NSegs = 1
    NAttach = 2
    SegSizes = {1}
    Touched = {2, 8}
    Breaks = {17}
    MapAddrs = {0, 18}
    Lengths = {1}
    Calls <- AllCalls
    PagesFromWindow = FALSE
    Mixed = FALSE
INVARIANTS
    MemoryHeld
    TranslationsSafe
PROPERTIES
    KeepsMemoryPrivate
CHECK_DEADLOCK FALSE
