SPECIFICATION Spec
CONSTANTS
    Chosen = {}
    MaxWords = 3
    Parsers <- MCSweepParsers
    Sentences <- MCSweepSentences
    Endmark = "$"
    MaxSymbolNodesCount = 100
    MaxCreatedGroups = 500
    LeafItem <- MCLeafItem
    CreateNewItem <- MCCreateNewItem
    FactsCount <- MCFactsCount
    NoItem = 0
    MaxHeight = 5
INVARIANTS
    OccurrencesAreComplete
    ForestIsComplete
CHECK_DEADLOCK FALSE
