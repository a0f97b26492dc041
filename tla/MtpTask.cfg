\* Processors used again by a second call with another number of contexts.
SPECIFICATION FairSpec
CONSTANTS
    MaxCount = 3
    Calls = 2
CHECK_DEADLOCK FALSE
INVARIANT ReturnedIsProcessed
INVARIANT ProcessorIsFree
PROPERTY ProcessReturns
