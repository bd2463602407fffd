SPECIFICATION FairDocSpec
CONSTANTS
    Documents <- MCDocuments
    ChunkSize = 3
    MinBudget = 1
    Texts <- MCTexts
    WindowSize = 4
    GivenOverlap = 2
INVARIANTS
    TypeOK
    EveryLineInOneBlock
    PathIsHeadingChain
    ChunksStayInSection
    NoTextLost
    OversizeIsOneBlock
    PassagesSurvive
PROPERTY
    Finishes
CHECK_DEADLOCK FALSE
