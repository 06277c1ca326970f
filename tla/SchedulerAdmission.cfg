SPECIFICATION Spec
CONSTANTS
    a1 = a1
    j1 = j1
    j2 = j2
    j3 = j3
    NTenants = 3
    Jobs = {j1, j2, j3}
    owner <- MCOwner
    lane <- MCLane
    Accounts = {a1}
    accounts_of <- MCAccountsOf
    limit_value <- MCLimitValue
    Policies <- MCHeavy
    Unbound = Unbound
    MaxDeficit = 3
    MaxTenants = 2
    MaxRows = 2
    MaxControl = 1
    Limits = {2}
    Corruptible = {j2}
    LateCommits = TRUE

INVARIANTS
    TypeOK
    RoundsVisitEveryone
    SettlementAgrees
    QuotaIsKept
PROPERTY AttemptsArePaidFor
