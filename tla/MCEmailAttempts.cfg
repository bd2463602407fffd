SPECIFICATION Spec
CONSTANTS
    Scenes = {"codes"}
    NoCode = NoCode
    Codes = {1}
    Senders = {r1}
    Registrants = {q1}
    Resend = 1
    Expire = 2
    Day = 2
    DailyLimit = 1
    MaxAttempts = 2
    MaxTime = 1
    Folders = {F1}
    Files = {f1}
    Segments = {"a", "b"}
    Names <- OneName
    Deleters = {r1}
    Root = Root
    Absent = Absent
    Gone = Gone
INVARIANT AttemptsAreLimited
CHECK_DEADLOCK FALSE
