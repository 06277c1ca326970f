SPECIFICATION Spec
CONSTANTS
    p1 = p1
    p2 = p2
    t1 = t1
    t2 = t2
    t3 = t3
    Tasks <- MCTasks
    process <- MCProcess
    Jobs = {j1}
    Workers = {p1, p2}
    NoWorker = NoWorker
    NoJob = NoJob
    AttemptLimit = 2
    Deadline = 3
    CleanupWindow = 1
    Durations = {1, 2}
    WakeContracts <- MCWakeContracts
    MaxTime = 4
    MaxCounter = 8
    NoTask = NoTask
PROPERTY PublishedTransitionsOnly
CHECK_DEADLOCK FALSE
