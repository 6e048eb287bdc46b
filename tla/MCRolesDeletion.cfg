CONSTANTS
    RoleIds = {x1, x2}
    Permissions = {p1}
    Admins = {a1}
    Requests = {r1, r2}
    None = None
SPECIFICATION Spec
INVARIANT AssignedRolesAlive
CHECK_DEADLOCK FALSE
