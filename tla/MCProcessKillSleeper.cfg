\* A user process that kills one that sleeps.
SPECIFICATION Spec
CONSTANTS
    N = 5
    Prios = {0, 4}
    CreatePrios = {4}
    NServices = 1
    NCpus = 1
    Queues = {1}
    Signals = {"KILL"}
    Calls = {"create", "user", "yield", "sleep", "wake", "kill"}
    CreateOutcomes = {"ok"}
    PidMod = 16
    MaxPid = 5
    TickMod = 4
    Deadlines = {0}
PROPERTIES
    DeadStaysDead
