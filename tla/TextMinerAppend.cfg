\* Text output to a new file, with no mode given.
SPECIFICATION FairSpec
CONSTANTS
    Miners = {m1}
    DocCount = 2
    DocKinds = {"good"}
    Setups <- MCTextFile
    MaxFailures = 0
    MaxWarnings = 0
    None = none
CHECK_DEADLOCK FALSE
PROPERTY OutputIsAppended
