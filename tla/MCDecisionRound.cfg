CONSTANTS
    Node = {1, 2, 3}
    Pod = {1, 2, 3, 4, 5}
    Namespace = {1}
    Clusters <- MCClusters
    MaxCandidates = 3
    Penalty = 2
SPECIFICATION Spec
INVARIANT DecisionsAreAdmissible
INVARIANT PlanMakesRoom
INVARIANT SearchIsExact
\* A round ends.
CHECK_DEADLOCK FALSE
