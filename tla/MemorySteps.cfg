CONSTANTS
    WordSize = 40
    MemoryStart = 4
    MemoryEnd = 24
    HeaderSize = 2
    Regions <- UnorderedRegions
    Requests = {0, 1, 2, 3, 39}
    FreshWords = {0, 7}
    MaxDepth = 4
SPECIFICATION StepsSpec
INVARIANTS
    TypeOK
    NoOverlap
    ListWellFormed
    OnlyTailInLongRegion
PROPERTIES
    GrowsOnlyLast
    FreedForever
    NestedNeverReturns
    ImplementsMemory
    ClearCallReturns
