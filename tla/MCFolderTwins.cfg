SPECIFICATION Spec
CONSTANTS
    Scenes = {"folders"}
    NoCode = NoCode
    Codes = {1}
    Senders = {r1}
    Registrants = {q1}
    Resend = 1
    Expire = 2
    Day = 2
    DailyLimit = 1
    MaxAttempts = 2
    MaxTime = 1
    Folders = {F1, F2}
    Files = {f1}
    Segments = {"a", "b"}
    Names <- OneName
    Deleters = {r1}
    Root = Root
    Absent = Absent
    Gone = Gone
PROPERTY DeleteTakesOnlyTheSubtree
CHECK_DEADLOCK FALSE
