SPECIFICATION FairSpec
CONSTANTS
    Talks <- MCTalks
    BufferLength = 16
    RecvMax = 16
CHECK_DEADLOCK FALSE
INVARIANTS
    TypeOK
    TakenInOrder
    ReadsWhatWasWritten
    NothingLeftBehind
    InStream
PROPERTIES
    HandlerReturns
