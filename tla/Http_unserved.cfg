\* The code: a client resets its connection. Is the next session served?
SPECIFICATION Spec
CONSTANTS
    Services = {s1}
    Ports = {c1, c2}
    Scripts <- Plain
    Hangups = {"reset"}
    WaitLocked = FALSE
    AcceptMayFail = FALSE
    Null = Null
    Acceptor = Acceptor
    NoThread = NoThread
INVARIANT SessionIsServed
CHECK_DEADLOCK FALSE
