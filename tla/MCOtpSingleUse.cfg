CONSTANTS
    Users = {u1}
    Admins = {}
    Requests = {r1, r2}
    MaxRecords = 1
    MaxAttempts = 3
    None = None
SPECIFICATION Spec
PROPERTY VerifiedIsFinal
CHECK_DEADLOCK FALSE
