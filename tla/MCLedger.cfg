CONSTANTS
    a = a
    b = b
    n1 = n1
    n2 = n2
    red = red
    blue = blue
    Pod = {a, b}
    Node = {n1, n2}
    Tenant = {red, blue}
    NoNode = no_node
    GpusOf <- MCGpusOf
    TenantOf <- MCTenantOf
    Capacity <- MCCapacity
    Quota <- MCQuota
    Ttl = 1
    LastId = 100
    MaxUid = 2
    MaxReserves = 3
SPECIFICATION Spec
INVARIANT TypeOK
INVARIANT CommittedFits
PROPERTY GrantsAreStable
PROPERTY HeldUntilResolved
PROPERTY EventuallyFreed
