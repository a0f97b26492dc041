\* A job that adds a job while the queue is stopping.
SPECIFICATION Spec
CONSTANTS
    Threads = {t1, t2}
    Producers = {p1}
    Jobs = {j1, j2}
    Nested = TRUE
    MaxFailures = 0
    None = none
CHECK_DEADLOCK FALSE
PROPERTY ImplementsJobQueue
