\* Two miners, documents of every kind, two writes that fail.
SPECIFICATION FairSpec
CONSTANTS
    Miners = {m1, m2}
    DocCount = 3
    DocKinds = {"good", "empty", "skipped", "failing", "throws"}
    Setups <- MCSetups
    MaxFailures = 2
    MaxWarnings = 1
    None = none
CHECK_DEADLOCK FALSE
INVARIANT HandledOnce
 
PROPERTY RunReturns
