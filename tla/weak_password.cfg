SPECIFICATION Spec
CONSTANTS
    Emails = {ann}
    Passwords = {good, bad}
    BadPasswords = {bad}
    MaxRequests = 1
CHECK_DEADLOCK FALSE
INVARIANTS
    BadPasswordsRejected
