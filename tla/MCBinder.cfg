CONSTANTS
    a = a
    b = b
    single = single
    solo = solo
    gang = gang
    n1 = n1
    n2 = n2
    Pod = {a, b, single}
    Node = {n1, n2}
    Group = {gang, solo}
    NoGroup = no_group
    NoNode = no_node
    MaxBinds = 2
    LowRiskOnly = TRUE
    LowRiskGpus = 1
    DryRun = FALSE
    MaxFaults = 2
    MaxLate = 2
    MaxChanges = 1
    MaxRecreated = 1
    WorkloadOf <- MCWorkloadOf
    Target <- MCTarget
SPECIFICATION PassSpec
INVARIANT TypeOK
INVARIANT Throttled
INVARIANT FinalCheckVets
INVARIANT GroupVettedAsAWhole
INVARIANT ContiguousGroupIsWhole
INVARIANT ConfirmFindsBinds
CHECK_DEADLOCK FALSE
