\* The code, one service for three connections: everything a client may do,
\* requests that come in two pieces included, an accept() that may fail, and
\* cond.wait() as getService calls it.
SPECIFICATION Spec
CONSTANTS
    Services = {s1}
    Ports = {c1, c2, c3}
    Scripts <- BadOrSplit
    Hangups = {"closed", "reset"}
    WaitLocked = FALSE
    AcceptMayFail = TRUE
    Null = Null
    Acceptor = Acceptor
    NoThread = NoThread
SYMMETRY Symmetry
INVARIANT TypeOK
INVARIANT PooledIsFree
INVARIANT OneSessionPerService
INVARIANT LentOnce
PROPERTY EmptyPoolWedges
CHECK_DEADLOCK FALSE
