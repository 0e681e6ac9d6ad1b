CONSTANTS
    r1 = r1
    r2 = r2
    Replica = {r1, r2}
    Former = former
    Nobody = nobody
    Duration = 2
    Interval = 1
    Skew <- MCSkew
    MaxTransitions = 2
    MaxClock = 5
    MaxErrors = 1
    MaxCrashes = 1
SPECIFICATION Spec
INVARIANT TypeOK
INVARIANT FreshLeaderHoldsLease
PROPERTY TakeoverOnlyAfterExpiry
PROPERTY RenewTimeNeverGoesBack
\* Time is bounded by MaxClock: at the end every replica sleeps.
CHECK_DEADLOCK FALSE
