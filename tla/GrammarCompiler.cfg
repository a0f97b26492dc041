SPECIFICATION Spec
CONSTANTS
    Grammars <- MCGrammars
    MaxForm = 4
    MaxSteps = 4
    MaxPrefix = 3
    Texts <- MCTexts
INVARIANTS
    PrefixesMatchFirst
    TrieIsExact
    FollowIsComplete
    Verify
    TableIsFit
    ReductionsReturn
    RulesAreRecognised
CHECK_DEADLOCK FALSE
