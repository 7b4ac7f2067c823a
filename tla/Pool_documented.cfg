\* cond.wait called the way its header documents; two getters compete.
SPECIFICATION Spec
CONSTANTS
    NoThread = NoThread
    NoService = NoService
    Getters = {g1, g2}
    Freers = {f1, f2}
    Services = {s1, s2, s3}
    WaitLocked = TRUE
SYMMETRY Symmetry
INVARIANT TypeOK
INVARIANT Accounting
INVARIANT NoLostWakeup
PROPERTY ImplementsPool
