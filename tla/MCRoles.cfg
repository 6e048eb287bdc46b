CONSTANTS
    RoleIds = {x1, x2}
    Permissions = {p1, p2}
    Admins = {a1}
    Requests = {r1, r2, r3}
    None = None
SPECIFICATION Spec
SYMMETRY Symmetry
CONSTRAINT Slices
INVARIANT TypeOK
INVARIANT UncontestedRolesAlive
INVARIANT UnauditedWereOvertaken
PROPERTY ReplacementsAreExact
CHECK_DEADLOCK FALSE
