SPECIFICATION Spec
INVARIANTS TypesOK   PoolDone 
CONSTANTS
    Pids = {2, 3, 4, 5}
    Forests <- LeaningOrShelled
    MaxProcessSteps = 1
    MaxCommands = 2
    Numbers = {2, 3, 4, 5}
    Signals = {"TERM", "KILL", "STOP", "CONT"}
    MaxOthers = 1
    MaxAttempts = 2
    Threads = {t1, t2}
    MaxToRead = 3
    MaxSamples = 2
    MaxOpenings = 2
    MaxGraphSteps = 2
    MaxDeaths = 1
    MaxUses = 1
    Clients = {c1, c2}
    Percents = {0, 50}
    MaxJobs = 2
    kMaxFinishedHistory = 1
    MaxMoves = 1
    MaxInstances = 2
    MaxLives = 3
    MaxActions = 2
    MaxRequests = 3
CHECK_DEADLOCK FALSE
