SPECIFICATION MCSpec
CONSTANTS
    c1 = c1
    c2 = c2
    c3 = c3
    c4 = c4
    c5 = c5
    notes = notes
    draft = draft
    minutes = minutes
    alien = alien
    work = work
    plans = plans
    workshop = workshop
    gone = gone
    Chunks = {c1, c2, c3, c4, c5}
    Files = {notes, draft, minutes, alien}
    Folders = {work, plans, workshop, gone}
    Own <- OwnFiles
    FileOf <- ChunkFiles
    FolderOf <- FileFolders
    Within <- Subtrees
    Likewise <- Namesakes
    Requests <- Questions
    MaxVariants = 2
    VectorTopK = 2
    KeywordTopK = 2
    MaxFusion = 3
    Scale = 3782
    ContextLimit = 2
    Extracted = 2
    LLMAnswers <- Answers
    Contents <- ChunkLines
    FileIds = {notes}
    Calls = {k1, k2, k3}
SYMMETRY Symmetry
INVARIANTS TypeOK AnswerIsCited CitationsResolve DegradedForAReason
           CitedIsInScope BetterPlacedComesFirst
PROPERTIES ImplementsAnswerFlow ImplementsPointStore
CHECK_DEADLOCK FALSE
