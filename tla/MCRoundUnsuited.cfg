CONSTANTS
    Node = {1, 2, 3}
    Pod = {1, 2, 3, 4, 5}
    Namespace = {1}
    Clusters <- MCUnsuited
    MaxCandidates = 3
    Penalty = 2
SPECIFICATION Spec
INVARIANT RoomIsOfUse
CHECK_DEADLOCK FALSE
