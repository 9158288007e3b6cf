SPECIFICATION ShellSpec
CONSTANTS
  MaxInodes = 6
  MaxDentries = 7
  CacheSize = 3
  MaxHandles = 2
  RamSize = 4
  Initrd <- Disk
  TmpName = 3
  MaxFollow = 2
  Registered = {1}
  Procs = {1, 2}
  NFds = 3
  MaxPipes = 2
  BufferSize = 3
  MaxRefs = 2
  Paths <- SomePaths
  Links <- SomeLinks
  Devices = {1}
  Perms = {0}
  Accesses = {"r", "rw"}
  Sizes = {1, 2}
  ReuseNames = FALSE
  DupFiles = FALSE
  KEYBOARD_QUEUE_SIZE = 3
  MaxStrokes = 3
  LineChars = {"a", " "}
  SHELL_BUFFER_SIZE = 4
  HISTORY_SIZE = 2
  IndexLimit = 4
  Letter = {"a", "b"}
  MaxPathLength = 5
  MaxDepth = 2
  Scripts <- MCScripts
  Names = {"a", "b"}
  NBlocks = 7
  NInodes = 5
  NDirect = 2
  NIndirect = 1
  BlockRecs = 3
  DiskPaths <- MCDiskPaths
  FileSizes = {1, 4}
  MaxCalls = 5
  MaxFaults = 1
  Beyond = {}
INVARIANTS
    
    BytesInOrder
    FilesOnDiskSound
    ConsoleExact
    
PROPERTY EditsALine
CHECK_DEADLOCK FALSE
