\* The options that the miners share are resolved by whichever comes first.
SPECIFICATION FairSpec
CONSTANTS
    Miners = {m1, m2}
    DocCount = 2
    DocKinds = {"good"}
    Setups <- MCArticles
    MaxFailures = 0
    MaxWarnings = 0
    None = none
CHECK_DEADLOCK FALSE
INVARIANT OptionsAreStable
