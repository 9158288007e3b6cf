SPECIFICATION MCSpec
CONSTANTS
  KTimers = {k1, k2, k3}
  HTimers = {h1, h2, h3}
  MixedTimers = {k1, h1, h2}
  NoTimer = NoTimer
  TickLimit = 3
  MaxDelay = 1
  HeapSize = 16
  HeaderSize = 2
  MinBlock = 2
  Alignment = 2
  SizeMax = 31
  Sizes = {0, 1, 3, 16}
  Marks = 3
  ObjectSize = 1
  ObjectCount = 2
  DriverBuffers = {b1, b2}
  MaxBuffers = 2
  DmaPages = 3
  DmaPageSize = 2
  MaxTransfer = 3
  Boundary = 4
  Masks = {0, 3, 7}
  NoBuffer = NoBuffer
  DayWindows <- SomeWindows
  Hz = 2
  Epochs = {0, 2}
  Offsets <- SomeOffsets
  MaxEpoch = 6
  p1 = p1
  p2 = p2
  dma = dma
  FrameSize = 2
  MaxFrames = 6
  LowEnd = 1
  KernelEnd = 2
  Available <- MCAvailable
  Holders <- MCHolders
  Processes <- MCProcesses
  MaxRun = 2
  Windows <- MCWindows
  RefMod = 256
  WordMod = 65536
  MaxItems = 3
  Streams = {1, 2}
  Pages = 2
  PageSize = 2
  BufferSize = 3
  Lengths = {2}
  Others = 2
INVARIANTS
    OnlyOfferedFrames
    RefcountExact
    TablesExact
    FrameFound
    TimersRight
    BuffersSound
    CalendarRight
    PlaybackSound
PROPERTIES
    AllocationIsExclusive
    NothingOverdue
CHECK_DEADLOCK FALSE
