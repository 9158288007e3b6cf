\* Threads that block in the network code.
SPECIFICATION FairSpec
CONSTANTS
    N = 5
    Prios = {0, 4}
    CreatePrios = {4}
    NServices = 1
    NCpus = 1
    Queues = {1, 2}
    Signals = {}
    Calls = {"create", "yield", "sleep", "wake", "tick"}
    CreateOutcomes = {"ok"}
    PidMod = 16
    MaxPid = 5
    TickMod = 8
    Deadlines = {0, 1, 2}
INVARIANTS
    WaitQueuesSound
PROPERTIES
    
    TimedSleepEnds
