SPECIFICATION Spec
CONSTANTS
    p1 = p1
    p2 = p2
    t1 = t1
    t2 = t2
    Documents = {d1, d2}
    NoDocument = NoDocument
    Keys = {k1}
    RequestKeys = {k1, k2}
    NoId = NoId
    IsAgent = TRUE
    TargetsDeployment = TRUE
    MaxVersion = 5
    Jobs = {j1, j2}
    Tasks = {t1, t2}
    process <- MCProcess
    NoJob = NoJob
    Workers = {p1, p2}
    NoWorker = NoWorker
    AttemptLimit = 2
    TimeToDeadline = 2
    Lease = 1
    Backoff = 1
    MaxTime = 2
    MaxCounter = 20
SYMMETRY MCSymmetry
INVARIANTS
    TypeOK
    ValidationMatchesDraft
    PublishedAgentsWereValidated
    ActiveTargetIsPublished
    OneJobPerRequest
PROPERTY RetiredIsFrozen
CHECK_DEADLOCK FALSE
