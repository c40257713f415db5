SPECIFICATION SupportSpec
CONSTANTS
    Keys = {u, adm}
    Admin = adm
    Nobody = Nobody
    NoMessage = NoMessage
    Ids = {i1, i2, i3}
    Sessions = {s1, s2}
    MaxRequests = 1
    Window = 0
    MuteTime = 1
    MaxTime = 1
SYMMETRY Symmetry
INVARIANTS
    SupportTypeOK
    AtMostPerWindow
    RepliesReachAuthors
    CommandsStayPrivate
PROPERTIES
    KeepsPromise
CHECK_DEADLOCK FALSE
