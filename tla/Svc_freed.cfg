SPECIFICATION Spec
CONSTANTS
    Services = {s1}
    Ports = {p1, p2}
    Owners = {u1}
    Null = Null
    Deleting = {"pending", "expired", "disconnect"}
    Timing = {}
    Reattaching = FALSE

INVARIANT NoUseAfterFree
CHECK_DEADLOCK FALSE
