\* One service, three clients that send a good request and stay; cond.wait
\* as documented, so that getService waits for the service to come back.
SPECIFICATION FairSpec
CONSTANTS
    Services = {s1}
    Ports = {c1, c2, c3}
    Scripts <- Plain
    Hangups = {}
    WaitLocked = TRUE
    AcceptMayFail = FALSE
    Null = Null
    Acceptor = Acceptor
    NoThread = NoThread
INVARIANT ServicesConserved
PROPERTY RequestAnswered
PROPERTY AcceptorReturns
CHECK_DEADLOCK FALSE
