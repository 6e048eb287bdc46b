CONSTANTS
    AuditJobs = {s1}
    ActivityJobs = {l1}
    UnknownUsers = {l1}
    Processes = {p1}
    Attempts = 3
    MaxFaults = 0
    None = None
    Seeds = {}
    Seeded = Seeded
    KeyCount = 1
    Sensitive = {}
    Enabling = {Seeded, s1}
    MailJobs = {}
    TTL = 1
SPECIFICATION Spec
INVARIANT NoLogEntryIsDropped
CHECK_DEADLOCK FALSE
