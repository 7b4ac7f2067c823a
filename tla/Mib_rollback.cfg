\* A new row before a leaf in the same SET.
CONSTANTS
    Programs = {"mib"}
    x = x
    t = t
    Leaves = {x}
    Tables = {t}
    Gets = {g1}
    Sets = {s1, s2}
    Removers = {m1}
    Groups <- LeafAndTable
    Reads <- LeafAndTable
    Writes <- RowFirst
    NoOne = NoOne
    Initial = Initial
    Async = {a1}
    Sync = {b1}
    Pollers = {p}
    Cancelled = {a1}
    Retries = 1
    Shared = FALSE
    NoThread = NoThread
    Size = 2
    Tasks = {t1, t2, t3}
    Runner = runner
    None = None
SPECIFICATION MCSpec
PROPERTY RollbackRestores
CHECK_DEADLOCK FALSE
