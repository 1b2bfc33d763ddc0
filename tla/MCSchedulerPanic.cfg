SPECIFICATION Spec
CONSTANTS
    w1 = w1
    w2 = w2
    clone = clone
    refresh = refresh
    restore = restore
    mirror1 = mirror1
    mirror2 = mirror2
    NoJob = NoJob
    QueueOf <- Mirrors
    Queue = {mirror1, mirror2}
    MaxCloneConcurrency = 1
    Interval = 1
    MaxPanics = 1
    Worker = {w1}
    Job = {refresh}
    Clones = {}
    Periodic = {refresh}
    Offered = {}
    MaxQueued = 2
    MaxClock = 2
    MaxRestarts = 0
INVARIANTS PeriodicForever
CHECK_DEADLOCK FALSE
