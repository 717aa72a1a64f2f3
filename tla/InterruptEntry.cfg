CONSTANTS
    Lines = {0, 1, 8, 12}
    Spurious = {7, 15}
    StubAddress <- Linked
    Scribbles <- Written
SPECIFICATION EntrySpec
INVARIANTS
    NeverCrashes
    NothingLeftInService
    Transparent
    StubFindsArguments
PROPERTY EveryKeyRead
