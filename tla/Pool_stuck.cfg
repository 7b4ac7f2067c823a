\* The code: does getService wait for a service to be freed?
SPECIFICATION FairSpec
CONSTANTS
    NoThread = NoThread
    NoService = NoService
    Getters = {g1}
    Freers = {f1}
    Services = {s1}
    WaitLocked = FALSE
PROPERTY GetReturns
CHECK_DEADLOCK FALSE
