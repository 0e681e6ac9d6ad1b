CONSTANTS
    Node = {1, 2, 3}
    Workload = {1, 2, 3, 4}
    Problems <- MCProblems
    MinAdmission = 70
    NodeGrouping = TRUE
SPECIFICATION Spec
INVARIANT TypeOK
INVARIANT PlacementIsPhysical
INVARIANT SuspiciousWasWidened
INVARIANT FullMeansFull
 
PROPERTY IncumbentIsKept
PROPERTY RoundEnds
CHECK_DEADLOCK FALSE
