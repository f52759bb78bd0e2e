SPECIFICATION Spec
CONSTANTS
    NumSlots = 1
    Sockets = {s1, s2}
    NoSocket = NoSocket
    Emails = {ann, bob}
    NoName = NoName
    Absent = Absent
    General = general
    Rooms = {general}
    MaxRecvBatch = 1
    MaxAuthBatch = 2
    MaxAnswers = 2
    MaxConnects = 3
    MaxSends = 3
    Requests = {"login", "register"}
    Polite = FALSE
    AbruptCloses = TRUE
    LinkMayFail = TRUE
CHECK_DEADLOCK FALSE
SYMMETRY Symmetry
INVARIANTS
    NamesAreGranted
    ChattersWereGranted
    GrantsTravel
    LoginsUnderWay
PROPERTIES
    NameSticky
    ClientsKeepSession
