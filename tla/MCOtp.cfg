CONSTANTS
    Users = {u1}
    Admins = {a1}
    Requests = {r1, r2}
    MaxRecords = 2
    MaxAttempts = 2
    None = None
SPECIFICATION FairSpec
INVARIANT TypeOK
INVARIANT GuessesCounted
INVARIANT AnsweredOnce
PROPERTY CodesAreOneTime
PROPERTY ExpiredIsDeleted
CHECK_DEADLOCK FALSE
