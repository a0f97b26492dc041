\* The parse with and without the limits, met well before the end of a sentence.
SPECIFICATION Spec
CONSTANTS
    Chosen = {1, 2, 3, 4, 5, 6, 7}
    MaxWords = 4
    Parsers <- MCParsers
    Sentences <- MCSentences
    Endmark = "$"
    MaxSymbolNodesCount = 11
    MaxCreatedGroups = 14
    LeafItem <- MCLeafItem
    CreateNewItem <- MCCreateNewItem
    FactsCount <- MCFactsCount
    NoItem = 0
    MaxHeight = 5
INVARIANTS
    TypeOK
    StackFollowsInput
    OneNodePerState
    AmbiguityIsPacked
    ParsesAreDerivations
    ReductionsHavePaths
    OccurrencesAreSound
PROPERTIES
    EarlierStackIsFrozen
    LimitStopsTheParse
    Terminates
CHECK_DEADLOCK FALSE
