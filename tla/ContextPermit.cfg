SPECIFICATION Spec
CONSTANTS
    Workers = {w1}
    NoWorker = noworker
    MaxCounter = 40
    Admissions <- MCContextAdmissions
    Deadline = 5
    RunDeadline = 6
    AttemptLimit = 2
    LeaseDuration = 2
    Backoff = 1
    PollLimit = 1
    CleanupDeadline = 6
    MaxTime = 7
    MaxClaims = 4
INVARIANT EndedLeafHoldsNoPermit
CHECK_DEADLOCK FALSE
