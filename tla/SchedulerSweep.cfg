SPECIFICATION FairSpec
CONSTANTS
    a1 = a1
    j1 = j1
    j2 = j2
    j3 = j3
    NTenants = 2
    Jobs = {j1, j2, j3}
    owner <- MCOwner
    lane <- MCBusiness
    Accounts = {a1}
    accounts_of <- MCFirstCharged
    limit_value <- MCLimitValue
    Policies <- MCGreedy
    Unbound = Unbound
    MaxDeficit = 2
    MaxTenants = 2
    MaxRows = 1
    MaxControl = 1
    Limits = {2}
    Corruptible = {}
    LateCommits = FALSE

INVARIANT StoredRowsAreUsable
PROPERTY DueJobsAreClaimed
