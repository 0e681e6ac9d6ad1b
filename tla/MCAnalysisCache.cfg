CONSTANTS
    a = a
    b = b
    older = older
    outdated = outdated
    Job = {a, b}
    Mixes <- MCMixes
    Overflow = {1, 2}
    Older = older
    Outdated = outdated
    MaxAge = 1
    MaxClock = 3
    MaxFaults = 1
SPECIFICATION CacheSpec
INVARIANT WholeUnlessOverlapped
INVARIANT ReportIsOfRequest
PROPERTY SnapshotIsRecent
\* The jobs have ended.
CHECK_DEADLOCK FALSE
