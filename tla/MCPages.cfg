SPECIFICATION Spec
CONSTANTS
    Files = {1, 2}
    Folders = {root}
    Elsewhere = Elsewhere
    FolderOf <- MCFolderOf
    ListSize = 1
    Nothing = Nothing
    MaxAsked = 1
    Uploads = {u1, u2}
    Completions = {k1, k2}
    FileSize <- MCFileSize
    InFolder = {u1}
    ChunkSize = 2
    Slack = 1
    MaxUpload = 3
    Conversations = {c1, c2}
    NewChat = NewChat
    MaxTurns = 2
    Past = c1
    PageSize = 3
INVARIANTS
    ListedIsWhole
    QuietPageIsTrue
    QuietChatIsTrue
CHECK_DEADLOCK FALSE
