\* Kernel threads that exit, user processes that end by a signal or a fault; the
\* ways process_create can end that leave the table lock free.
SPECIFICATION Spec
CONSTANTS
    N = 5
    Prios = {0, 4}
    CreatePrios = {4}
    NServices = 0
    NCpus = 2
    Queues = {}
    Signals = {"INT", "KILL"}
    Calls = {"create", "user", "fork", "yield", "exit", "waitpid", "kill", "exception", "detach", "tick"}
    CreateOutcomes = {"ok", "no directory", "no kernel stack"}
    PidMod = 16
    MaxPid = 5
    TickMod = 2
    Deadlines = {}
INVARIANTS
    SchedulerSound
    TableExact
    
PROPERTIES
    DeadStaysDead
