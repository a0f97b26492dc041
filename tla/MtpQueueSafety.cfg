\* Safety, with jobs that add jobs and callers that wait for room.
SPECIFICATION Spec
CONSTANTS
    Workers = {w1, w2}
    Producers = {p1, p2}
    Owner = owner
    Jobs = {j1, j2, j3}
    MaxQueueSize = 1
    Kinds = {TRUE, FALSE}
    Nested = TRUE
    MaxSpurious = 1
    None = none
CHECK_DEADLOCK FALSE
SYMMETRY Symmetry
INVARIANT TypeOK
INVARIANT StopDrains
INVARIANT RunOnceOrRefused
INVARIANT WithinLimit
INVARIANT QueuedJobIsSeen
PROPERTY ImplementsJobQueue
