SPECIFICATION Spec
CONSTANTS
    MAX_CLIENTS = 3
    MAX_WINDOWS = 3
    MAX_SURFACES = 3
    KEYBOARD_QUEUE = 1
    Usable = 5
    U32 = 256
    Procs = {p1}
    Requests <- MCRequests
    GSH_MAX_EXTRA_WINDOWS = 1
    Points <- MCPoints
    Dock = 1
    TerminalWidth = 4
    Commands = {"exit", "cpu-spike"}
    MaxActs = 4
INVARIANTS
    ServerBooksExact
    
    
PROPERTIES
    DesktopGoesOn
CHECK_DEADLOCK FALSE
