SPECIFICATION Spec
CONSTANTS
    Services = {s1, s2}
    Ports = {p1}
    Owners = {u1, u2}
    Null = Null
    Deleting = {"disconnect"}
    Timing = {"owner"}
    Reattaching = TRUE
SYMMETRY Symmetry
INVARIANT NoMissedUpdate
CHECK_DEADLOCK FALSE
