CONSTANTS
    p1 = p1
    p2 = p2
    Page = {p1, p2}
    Stages = 2
    Nobody = nobody
    MaxDrops = 1
    MaxRestarts = 1
SPECIFICATION Spec
INVARIANT EndIsOnTheStream
INVARIANT ReportIsOwn
PROPERTY DoneIsFinal
PROPERTY WatcherLearnsTheEnd
\* All pages have their answer.
CHECK_DEADLOCK FALSE
