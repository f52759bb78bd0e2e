SPECIFICATION FairSpec
CONSTANTS
    MaxLogins = 2
    Lines <- MCLines
    HistoryLimit = 1
    MaxAddresses = 1
    MaxRecvBatch = 2
    MaxAnswers = 2
    MaxTyped = 1
    MaxAhead = 1
    NoticeTypes = {"said"}
    MaxNotices = 1
    MaxSends = 3
CHECK_DEADLOCK FALSE
INVARIANTS
    TypeOK
    OneReader
    NothingUnasked
    ScreenShowsNewest
    ShortTextsFit
PROPERTIES
    ImplementsClientSession
    EndIsNoticed
    QuitEnds
