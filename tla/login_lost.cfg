SPECIFICATION FairSpec
CONSTANTS
    NumSlots = 2
    Sockets = {s1, s2}
    NoSocket = NoSocket
    Emails = {ann}
    NoName = NoName
    Absent = Absent
    General = general
    Rooms = {general}
    MaxRecvBatch = 1
    MaxAuthBatch = 2
    MaxAnswers = 1
    MaxConnects = 2
    MaxSends = 2
    Requests = {"login"}
    Polite = TRUE
    AbruptCloses = FALSE
    LinkMayFail = FALSE
CHECK_DEADLOCK FALSE
PROPERTIES
    LoginAnswered
