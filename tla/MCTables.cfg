SPECIFICATION Spec
CONSTANTS
    Scenes = {"codes", "folders"}
    NoCode = NoCode
    Codes = {1, 2, 3, 4}
    Senders = {r1, r2}
    Registrants = {q1, q2}
    Resend = 1
    Expire = 2
    Day = 2
    DailyLimit = 2
    MaxAttempts = 1
    MaxTime = 3
    Folders = {F1, F2, F3}
    Files = {f1}
    Segments = {"a", "b"}
    Names <- PathNames
    Deleters = {r1, r2}
    Root = Root
    Absent = Absent
    Gone = Gone
SYMMETRY Symmetry
VIEW View
INVARIANTS
    EmailTypeOK
    OneCodeBuysOneAccount
    StoredIsBounded
    TreeTypeOK
    CascadeStaysUnderPath
    OnlyOverlappedFilesDetach
CHECK_DEADLOCK FALSE
