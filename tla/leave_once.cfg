SPECIFICATION Spec
CONSTANTS
    NumSlots = 1
    Sockets = {s1}
    NoSocket = NoSocket
    Emails = {ann}
    NoName = NoName
    Absent = Absent
    General = general
    Rooms = {general}
    MaxRecvBatch = 1
    MaxAuthBatch = 1
    MaxAnswers = 1
    MaxConnects = 1
    MaxSends = 4
    Requests = {"login"}
    Polite = FALSE
    AbruptCloses = FALSE
    LinkMayFail = FALSE
CHECK_DEADLOCK FALSE
INVARIANTS
    LeaveDisconnects
