SPECIFICATION Spec
CONSTANTS
    Accounts = {a1, a2}
    Keys = {k1, k2}
    Requests = {r1, r2}
    Empty = Empty
    Url = Url
    None = None
SYMMETRY Symmetry
CHECK_DEADLOCK FALSE
INVARIANT TypeOK
INVARIANT NamedObjectsAreStored
INVARIANT NoOrphans
INVARIANT ObjectsAreNotShared
CONSTRAINT NamedOrContested
VIEW MCView
