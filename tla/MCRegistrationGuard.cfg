CONSTANTS
    Phones = {p1}
    RequestIds = {q1}
    Requests = {r1}
    None = None
SPECIFICATION Spec
PROPERTY RegisteredRefused
CHECK_DEADLOCK FALSE
