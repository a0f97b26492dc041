\* Progress of callers that wait for room, of accepted jobs and of Stop, with
\* jobs that add jobs: every worker may be blocked in Add when Stop is called.
SPECIFICATION PoolSpec
CONSTANTS
    Workers = {w1, w2}
    Producers = {p1, p2}
    Owner = owner
    Jobs = {1, 2, 3}
    MaxQueueSize = 1
    Kinds = {TRUE}
    Nested = TRUE
    MaxSpurious = 0
    None = none
ACTION_CONSTRAINT JobsInOrder
CHECK_DEADLOCK FALSE
PROPERTY AddReturns
PROPERTY AcceptedIsProcessed
PROPERTY StopReturns
