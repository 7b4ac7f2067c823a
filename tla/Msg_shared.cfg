\* Threads share a session, as its header allows.
CONSTANTS
    Programs = {"msgqueue"}
    x = x
    t = t
    Leaves = {x}
    Tables = {t}
    Gets = {g1}
    Sets = {s1, s2}
    Removers = {m1}
    Groups <- LeafAndTable
    Reads <- LeafAndTable
    Writes <- RowLast
    NoOne = NoOne
    Initial = Initial
    Async = {a1}
    Sync = {b1}
    Pollers = {p}
    Cancelled = {a1}
    Retries = 1
    Shared = TRUE
    NoThread = NoThread
    Size = 2
    Tasks = {t1, t2, t3}
    Runner = runner
    None = None
SPECIFICATION MCSpec
INVARIANT NoUseAfterFree
CHECK_DEADLOCK FALSE
