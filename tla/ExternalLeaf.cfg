SPECIFICATION Spec
CONSTANTS
    Workers = {w1, w2}
    NoWorker = noworker
    MaxCounter = 40
    Admissions <- MCAdmissions
    Deadline = 5
    RunDeadline = 6
    AttemptLimit = 2
    LeaseDuration = 2
    Backoff = 1
    PollLimit = 1
    CleanupDeadline = 6
    MaxTime = 7
    MaxClaims = 4
INVARIANTS
    TypeOK
    PermitFollowsLease
    DispatchesChargedOnce
    WritesAreNotGuessed
PROPERTY EveryLeafEnds
CHECK_DEADLOCK FALSE
