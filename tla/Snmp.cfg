\* An agent with one GET, two SETs and two threads that remove an entry or the
\* group of both; a session with an asynchronous and a blocking request; two
\* managers and three tasks.
CONSTANTS
    Programs = {"mib", "msgqueue", "pool"}
    x = x
    t = t
    Leaves = {x}
    Tables = {t}
    Gets = {g1}
    Sets = {s1, s2}
    Removers = {m1, m2}
    Groups <- LeafAndTable
    Reads <- LeafAndTable
    Writes <- RowLast
    NoOne = NoOne
    Initial = Initial
    Async = {a1}
    Sync = {b1}
    Pollers = {p}
    Cancelled = {a1}
    Retries = 1
    Shared = FALSE
    NoThread = NoThread
    Size = 2
    Tasks = {t1, t2, t3}
    Runner = runner
    None = None
SPECIFICATION MCFairSpec
INVARIANTS
    AllTypesOK
    EntriesInUseExist
    NoDirtyRead
    NoUseAfterFree
    ToldOnce
    AnswerWins
    TasksConserved
PROPERTIES
    RollbackRestores
    AgentAnswers
    EveryRequestEnds
    EveryTaskRuns
CHECK_DEADLOCK FALSE
