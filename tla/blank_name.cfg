SPECIFICATION Spec
CONSTANTS
    NumSlots = 1
    Sockets = {s1}
    NoSocket = NoSocket
    Emails = {ann}
    NoName = NoName
    Absent = Absent
    General = general
    Rooms = {general}
    MaxRecvBatch = 1
    MaxAuthBatch = 1
    MaxAnswers = 1
    MaxConnects = 1
    MaxSends = 3
    Requests = {"login"}
    Polite = TRUE
    AbruptCloses = FALSE
    LinkMayFail = FALSE
CHECK_DEADLOCK FALSE
INVARIANTS
    SayCarriesName
