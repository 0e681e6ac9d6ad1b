CONSTANTS
    a = a
    b = b
    c = c
    n1 = n1
    n2 = n2
    team = team
    gang = gang
    Pod = {a, b, c}
    Node = {n1}
    Group = {a, gang}
    Tenant = {team}
    NoGroup = no_group
    NoNode = no_node
    MaxBinds = 2
    LowRiskOnly = FALSE
    LowRiskGpus = 1
    DryRun = FALSE
    MaxFaults = 1
    MaxLate = 1
    MaxChanges = 0
    MaxRecreated = 0
    GroupOf <- MCGang
    KindOf <- MCKindOf
    GpusOf <- MCGpusOf
    TenantOf <- MCTenantOf
    Capacity <- MCRoom
    Quota <- MCQuota
    Ttl = 1
    LastId = 20
SPECIFICATION Spec
PROPERTY PendingIsBound
CHECK_DEADLOCK FALSE
