SPECIFICATION Spec
CONSTANTS
    Talks <- MCTalks
    BufferLength = 16
    RecvMax = 16
CHECK_DEADLOCK FALSE
INVARIANTS
    PacketsTakenWhole
