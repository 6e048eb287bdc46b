CONSTANTS
    Users = {u1}
    Admins = {}
    Tokens = {t1}
    Requests = {r1, r2}
    Passwords = {h1, h2}
    None = None
SPECIFICATION MCSpec
PROPERTY AppUpdateSparesControlState
CHECK_DEADLOCK FALSE
