CONSTANTS
    r1 = r1
    r2 = r2
    Replica = {r1, r2}
    Former = former
    Nobody = nobody
    Duration = 5
    Interval = 1
    Latency = 1
    Skew <- MCSkew
    MaxTransitions = 3
    MaxClock = 14
    MaxErrors = 1
    MaxCrashes = 1
SPECIFICATION TimelySpec
SYMMETRY ReplicaSymmetry
INVARIANT LeaseRenewedInTime
PROPERTY RunningLeaderKeepsLease
\* Time is bounded by MaxClock: at the end every replica sleeps.
CHECK_DEADLOCK FALSE
