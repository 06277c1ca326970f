SPECIFICATION FairSpec
CONSTANTS
    p1 = p1
    p2 = p2
    t1 = t1
    t2 = t2
    Documents = {d1, d2}
    NoDocument = NoDocument
    Keys = {k1}
    RequestKeys = {k1}
    NoId = NoId
    IsAgent = FALSE
    TargetsDeployment = FALSE
    MaxVersion = 2
    Jobs = {j1}
    Tasks = {t1, t2}
    process <- MCProcess
    NoJob = NoJob
    Workers = {p1, p2}
    NoWorker = NoWorker
    AttemptLimit = 2
    TimeToDeadline = 5
    Lease = 1
    Backoff = 1
    MaxTime = 6
    MaxCounter = 20

INVARIANT DispatchesWithinLimit
PROPERTY JobsEndSettledOrUnclaimed
CHECK_DEADLOCK FALSE
