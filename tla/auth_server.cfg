SPECIFICATION FairSpec
CONSTANTS
    Emails = {ann, bob}
    Passwords = {good, other, bad}
    BadPasswords = {bad}
    MaxRequests = 4
CHECK_DEADLOCK FALSE
INVARIANTS
    TypeOK
    RowsPaired
    OneAccountPerEmail
    OkMeansStored
    StepsInOrder
    VerdictsAreExact
PROPERTIES
    ImplementsAuthService
    RequestAnswered
