SPECIFICATION Spec
CONSTANTS
    Processes = {p1, p2}
    NoProcess = NoProcess
    Readers = {}
    HoldKeys = {}
    Incompatible = {2}
    MaxSequence = 2
    ClaimBatch = 2
    Lease = 2
    RetryDelays = {1}
    MaxEpoch = 3
    EventWindow = 1
    OutboxWindow = 1
    PurgeBatch = 2
    PageLimit = 1
    MaxTime = 3
SYMMETRY MCSymmetry
INVARIANTS
    TypeOK
    ForgottenMeansDelivered
    ClaimsDoNotOverlap
PROPERTY PublishedIsFinal
CHECK_DEADLOCK FALSE
