SPECIFICATION DocSpec
CONSTANTS
    Documents <- MCDocuments
    ChunkSize = 3
    MinBudget = 1
    Texts <- MCTexts
    WindowSize = 4
    GivenOverlap = 2
INVARIANT CodeIsWhole
CHECK_DEADLOCK FALSE
