CONSTANTS
    a = a
    b = b
    c = c
    n1 = n1
    n2 = n2
    team = team
    gang = gang
    Pod = {a, b, c}
    Node = {n1, n2}
    Group = {a, b, c}
    Tenant = {team}
    NoGroup = no_group
    NoNode = no_node
    MaxBinds = 2
    LowRiskOnly = FALSE
    LowRiskGpus = 1
    DryRun = FALSE
    MaxFaults = 1
    MaxLate = 1
    MaxChanges = 1
    MaxRecreated = 1
    GroupOf <- MCGroupOf
    KindOf <- MCKindOf
    GpusOf <- MCGpusOf
    TenantOf <- MCTenantOf
    Capacity <- MCCapacity
    Quota <- MCQuota
    Ttl = 1
    LastId = 3
SYMMETRY Interchangeable
SPECIFICATION Spec
INVARIANT ReservationsHoldNodes
INVARIANT PostsAreReserved
CHECK_DEADLOCK FALSE
