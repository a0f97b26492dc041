\* Jobs that add jobs, threads that leave when idle, one that cannot be created.
SPECIFICATION FairSpec
CONSTANTS
    Threads = {1, 2, 3}
    Producers = {p1, p2}
    Jobs = {11, 12, 13}
    Nested = TRUE
    MaxFailures = 1
    None = none
ACTION_CONSTRAINT NamesInOrder
CHECK_DEADLOCK FALSE
INVARIANT NobodyLeft
PROPERTY ImplementsButForLateJobs
PROPERTY Progress
