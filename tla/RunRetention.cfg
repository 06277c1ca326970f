SPECIFICATION Spec
CONSTANTS
    Processes = {p1}
    NoProcess = NoProcess
    Readers = {r1}
    HoldKeys = {h1}
    Incompatible = {}
    MaxSequence = 2
    ClaimBatch = 1
    Lease = 1
    RetryDelays = {1}
    MaxEpoch = 1
    EventWindow = 1
    OutboxWindow = 1
    PurgeBatch = 2
    PageLimit = 1
    MaxTime = 3
SYMMETRY MCSymmetry
INVARIANT ReadersSeeNoGap
PROPERTY HeldHistoryIsKept
