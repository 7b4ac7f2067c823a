\* One service, ports that hang up and delete themselves in disconnect(); one
\* owner that sets timers too, or two.
SPECIFICATION MakersSpec
CONSTANTS
    Services = {s1}
    Ports = {p1, p2}
    Owners = {u1, u2}
    Null = Null
    Deleting = {"disconnect"}
    Timing = {"expired", "owner"}
    Reattaching = FALSE
INVARIANT OneThread
INVARIANT NoUseAfterFree
INVARIANT NoMissedUpdate
INVARIANT ListWellFormed
PROPERTY InputServed
PROPERTY TimerServed
CHECK_DEADLOCK FALSE
