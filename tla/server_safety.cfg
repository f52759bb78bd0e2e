SPECIFICATION Spec
CONSTANTS
    NumSlots = 2
    Sockets = {s1, s2}
    NoSocket = NoSocket
    Emails = {ann}
    NoName = NoName
    Absent = Absent
    General = general
    Rooms = {general, tea}
    MaxRecvBatch = 2
    MaxAuthBatch = 1
    MaxAnswers = 1
    MaxConnects = 3
    MaxSends = 4
    Requests = {"login"}
    Polite = FALSE
    AbruptCloses = TRUE
    LinkMayFail = FALSE
CHECK_DEADLOCK FALSE
SYMMETRY Symmetry
INVARIANTS
    TypeOK
    SlotsHoldDistinctOpenSockets
    NoOrphanMembers
    MembersJoined
PROPERTIES
    MembershipOwned
