SPECIFICATION FairSpec
CONSTANTS
    a1 = a1
    j1 = j1
    j2 = j2
    j3 = j3
    NTenants = 2
    Jobs = {j1, j2}
    owner <- MCOwnerPair
    lane <- MCBusiness
    Accounts = {a1}
    accounts_of <- MCFree
    limit_value <- MCLimitValue
    Policies <- MCLight
    Unbound = Unbound
    MaxDeficit = 2
    MaxTenants = 2
    MaxRows = 2
    MaxControl = 1
    Limits = {1}
    Corruptible = {}
    LateCommits = FALSE

PROPERTY TenantsAreServed
