\* Three threads around the read-write lock, all of them cancellable; three
\* alarms within five seconds; three mutexes as in the program; a clock of
\* almost four seconds of 4 milliseconds of 4 microseconds.
CONSTANTS
    Threads = {t1, t2, t3}
    Cancellable = {t1, t2, t3}
    MaxAlarms = 3
    Delays <- Seconds
    MaxTime = 5
    Last = 2
    Kilo = 4
    Timeouts = {0, 1, 3, 4, 5, 9}
    Horizon = 60
SPECIFICATION MCFairSpec
INVARIANTS
    AllTypesOK
    CountersExact
    NoLostWakeup
    NoOversleep
    WaitsEmptyHanded
    ExactToTheMillisecond
PROPERTIES
    ImplementsRWLock
    WaitersReturn
    RingsInOrder
    EveryAlarmRings
CHECK_DEADLOCK FALSE
