CONSTANTS
    AuditJobs = {s1, s2}
    ActivityJobs = {l1}
    UnknownUsers = {l1}
    Processes = {p1, p2}
    Attempts = 2
    MaxFaults = 3
    None = None
    Seeds = {d1}
    Seeded = Seeded
    KeyCount = 2
    Sensitive = {1}
    Enabling = {Seeded, s1}
    MailJobs = {m1}
    TTL = 2
SPECIFICATION FairSpec
CONSTRAINT Slices
ACTION_CONSTRAINT ThirdFault
INVARIANT TypeOK
INVARIANT AcknowledgedIsDone
INVARIANT OnceUnlessUnsure
INVARIANT WorkIsBounded
INVARIANT AuditTellsTheChange
PROPERTY MailsFollowSettings
PROPERTY AcceptedJobsEnd
CHECK_DEADLOCK FALSE
