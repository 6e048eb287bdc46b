CONSTANTS
    Users = {u1}
    Admins = {a1}
    Tokens = {t1, t2}
    Requests = {r1, r2}
    Passwords = {h1, h2}
    None = None
SPECIFICATION MCSpec
CONSTRAINT OneDecision
CONSTRAINT TwoSeconds
CONSTRAINT NoUpdate
CONSTRAINT OneToken
SYMMETRY Symmetry
INVARIANT TypeOK
INVARIANT EndedStaysEnded
INVARIANT SessionsOverlap
INVARIANT SettledWritesHold
INVARIANT LoggedOutIsDead
INVARIANT TokensKeepOwners
INVARIANT DeletedAreSignedOut
PROPERTY SessionsEndForAReason
CHECK_DEADLOCK FALSE
