CONSTANTS
    Pod = {a, b}
    NoPod = no_pod
    MaxChanges = 4
    MaxErrors = 2
SPECIFICATION Spec
INVARIANT TypeOK
INVARIANT HealthyIsListed
PROPERTY ShowsMoments
CHECK_DEADLOCK FALSE
