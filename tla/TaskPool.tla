-------------------------------- MODULE TaskPool --------------------------------
(* The thread pools of agent++ (threads.cpp).  A ThreadPool has TaskManagers *)
(* with a thread each; execute() looks for an idle one and waits when there  *)
(* is none.  A QueuedThreadPool puts the task into a queue instead, and a    *)
(* thread of its own takes the tasks out again.                              *)
(*                                                                           *)
(* A manager runs a task with its own lock held, and whether it is idle is   *)
(* read without that lock.  "lock" is the pool's lock: the one of            *)
(* ThreadPool, or the one of Thread for a QueuedThreadPool.                  *)
EXTENDS Integers, FiniteSets, Sequences

CONSTANTS Size,      \* number of managers, searched in the order 1 .. Size
          Tasks,     \* what is executed; each is also the thread that calls execute()
          Runner,    \* the thread of the QueuedThreadPool
          None

Managers == 1 .. Size
Assigners == Tasks \cup {Runner}

VARIABLES queued,   \* TRUE: the pool is a QueuedThreadPool
          task,     \* what each manager was given and has not finished
          mpc,      \* "loop" (about to lock), "run", "wait", "woken", "notify"
          lock,     \* the thread that holds the pool's lock
          pc,       \* where each caller of execute(), and the runner, is
          at,       \* the manager it looks at
          hand,     \* the task it has to assign
          queue,    \* of a QueuedThreadPool
          runs      \* how often each task was run

vars == <<queued, task, mpc, lock, pc, at, hand, queue, runs>>

Init ==
    /\ queued \in BOOLEAN
    /\ task = [m \in Managers |-> None]
    /\ mpc = [m \in Managers |-> "loop"]
    /\ lock = None
    /\ pc = [a \in Assigners |-> IF a = Runner /\ ~queued THEN "done" ELSE "start"]
    /\ at = [a \in Assigners |-> 1]
    /\ hand = [a \in Assigners |-> IF a = Runner THEN None ELSE a]
    /\ queue = <<>>
    /\ runs = [t \in Tasks |-> 0]

Goto(a, label) == pc' = [pc EXCEPT ![a] = label]

(* A manager that runs a task holds its own lock. *)
Locked(m) == mpc[m] = "run"
--------------------------------------------------------------------------------
(* TaskManager::run: lock, then run the task or wait. *)
ManagerLoop(m) ==
    /\ mpc[m] \in {"loop", "woken"}
    /\ mpc' = [mpc EXCEPT ![m] = IF task[m] = None THEN "wait" ELSE "run"]
    /\ UNCHANGED <<queued, task, lock, pc, at, hand, queue, runs>>

RunTask(m) ==
    /\ mpc[m] = "run"
    /\ runs' = [runs EXCEPT ![task[m]] = @ + 1]
    /\ task' = [task EXCEPT ![m] = None]
    /\ mpc' = [mpc EXCEPT ![m] = "notify"]
    /\ UNCHANGED <<queued, lock, pc, at, hand, queue>>

Waiters == {a \in Assigners : pc[a] = "wait"}

(* notify() wakes one thread that waits on the pool, if there is one. *)
Notify ==
    IF Waiters = {}
    THEN UNCHANGED pc
    ELSE \E a \in Waiters : Goto(a, "woken")

IdleNotification(m) ==
    /\ mpc[m] = "notify" /\ lock = None
    /\ Notify
    /\ mpc' = [mpc EXCEPT ![m] = "loop"]
    /\ UNCHANGED <<queued, task, lock, at, hand, queue, runs>>

(* wait() of a manager returns by itself. *)
ManagerWakes(m) ==
    /\ mpc[m] = "wait"
    /\ mpc' = [mpc EXCEPT ![m] = "woken"]
    /\ UNCHANGED <<queued, task, lock, pc, at, hand, queue, runs>>
--------------------------------------------------------------------------------
(* execute() takes the lock and begins with the first manager; so does the   *)
(* loop of execute() after its wait.                                         *)
Execute(a) ==
    /\ a \in Tasks /\ pc[a] \in {"start", "woken"} /\ lock = None
    /\ lock' = a
    /\ at' = [at EXCEPT ![a] = 1]
    /\ Goto(a, "look")
    /\ UNCHANGED <<queued, task, mpc, hand, queue, runs>>

(* is_idle() of the next manager; the pool is unlocked to use an idle one. *)
LookAt(a) ==
    /\ pc[a] = "look" /\ at[a] <= Size
    /\ IF task[at[a]] = None
       THEN Goto(a, "set") /\ lock' = None /\ UNCHANGED at
       ELSE at' = [at EXCEPT ![a] = @ + 1] /\ UNCHANGED <<pc, lock>>
    /\ UNCHANGED <<queued, task, mpc, hand, queue, runs>>

(* A mutant of SetTask: it does not look again under the manager's lock. *)
MSetTaskBlind(a) ==
    LET m == at[a] IN
    /\ pc[a] = "set" /\ ~Locked(m)
    /\ task' = [task EXCEPT ![m] = hand[a]]
    /\ mpc' = [mpc EXCEPT ![m] = IF @ = "wait" THEN "woken" ELSE @]
    /\ hand' = [hand EXCEPT ![a] = None]
    /\ Goto(a, IF queued THEN "relock" ELSE "done")
    /\ UNCHANGED <<queued, lock, at, queue, runs>>

(* set_task waits for the manager's lock and looks once more. *)
SetTask(a) ==
    LET m == at[a] IN
    /\ pc[a] = "set" /\ ~Locked(m)
    /\ IF task[m] = None
       THEN /\ task' = [task EXCEPT ![m] = hand[a]]
            /\ mpc' = [mpc EXCEPT ![m] = IF @ = "wait" THEN "woken" ELSE @]
            /\ hand' = [hand EXCEPT ![a] = None]
            /\ Goto(a, IF queued THEN "relock" ELSE "done")
       ELSE Goto(a, "relock") /\ UNCHANGED <<task, mpc, hand>>
    /\ UNCHANGED <<queued, lock, at, queue, runs>>

(* Back under the pool's lock: the next manager, or the end of assign(). *)
Relock(a) ==
    /\ pc[a] = "relock" /\ lock = None
    /\ IF hand[a] = None
       THEN IF a = Runner
            THEN Goto(a, "wait") /\ UNCHANGED lock
            ELSE Goto(a, "done") /\ UNCHANGED lock
       ELSE Goto(a, "look") /\ lock' = a
    /\ at' = [at EXCEPT ![a] = IF hand[a] = None THEN 1 ELSE @ + 1]
    /\ UNCHANGED <<queued, task, mpc, hand, queue, runs>>

(* Nobody was idle.  execute() of a ThreadPool waits. *)
WaitForIdle(a) ==
    /\ pc[a] = "look" /\ at[a] > Size /\ ~queued
    /\ Goto(a, "wait")
    /\ lock' = None
    /\ at' = [at EXCEPT ![a] = 1]
    /\ UNCHANGED <<queued, task, mpc, hand, queue, runs>>

(* assign() appends the task to the queue and notifies the pool. *)
Enqueue(a) ==
    /\ pc[a] = "look" /\ at[a] > Size /\ queued
    /\ queue' = Append(queue, hand[a])
    /\ hand' = [hand EXCEPT ![a] = None]
    /\ lock' = None
    /\ at' = [at EXCEPT ![a] = 1]
    /\ LET next == [pc EXCEPT ![a] = IF a = Runner THEN "wait" ELSE "done"]
       IN \/ Waiters = {} /\ pc' = next
          \/ \E w \in Waiters : pc' = [next EXCEPT ![w] = "woken"]
    /\ UNCHANGED <<queued, task, mpc, runs>>

(* QueuedThreadPool::run: one task leaves the queue per round, and then the  *)
(* pool waits, whether there are more or not.                                *)
RunQueue ==
    /\ pc[Runner] \in {"start", "woken"} /\ lock = None
    /\ IF queue = <<>>
       THEN Goto(Runner, "wait") /\ UNCHANGED <<lock, hand, queue>>
       ELSE /\ lock' = Runner
            /\ hand' = [hand EXCEPT ![Runner] = Head(queue)]
            /\ queue' = Tail(queue)
            /\ Goto(Runner, "look")
    /\ at' = [at EXCEPT ![Runner] = 1]
    /\ UNCHANGED <<queued, task, mpc, runs>>

(* A mutant of TimedOut: wait() without a time limit. *)
MTimedOutNever(a) == a \notin Assigners /\ UNCHANGED vars

(* wait(1000) returns without a notification. *)
TimedOut(a) ==
    /\ pc[a] = "wait"
    /\ Goto(a, "woken")
    /\ UNCHANGED <<queued, task, mpc, lock, at, hand, queue, runs>>

ManagerStep(m) == ManagerLoop(m) \/ RunTask(m) \/ IdleNotification(m)

AssignerStep(a) ==
    \/ Execute(a) \/ LookAt(a) \/ SetTask(a) \/ Relock(a) \/ WaitForIdle(a) \/ Enqueue(a)
    \/ (a = Runner /\ RunQueue)

Next ==
    \/ \E m \in Managers : ManagerStep(m) \/ ManagerWakes(m)
    \/ \E a \in Assigners : AssignerStep(a) \/ TimedOut(a)

Spec == Init /\ [][Next]_vars

(* A thread that can go on does so, the time limit of wait() passes, and the *)
(* pool's lock is not withheld for ever from a manager that is idle again,   *)
(* by callers that look for one over and over.                               *)
Fairness ==
    /\ \A m \in Managers : SF_vars(ManagerStep(m))
    /\ \A a \in Assigners : WF_vars(AssignerStep(a)) /\ WF_vars(TimedOut(a))

FairSpec == Spec /\ Fairness
--------------------------------------------------------------------------------
TypeOK ==
    /\ task \in [Managers -> Tasks \cup {None}]
    /\ mpc \in [Managers -> {"loop", "run", "wait", "woken", "notify"}]
    /\ lock \in Assigners \cup {None}
    /\ at \in [Assigners -> 1 .. Size + 1]
    /\ hand \in [Assigners -> Tasks \cup {None}]
    /\ queue \in Seq(Tasks)

(* A task is in exactly one place, in somebody's hand, in the queue or with  *)
(* a manager, until it was run, and it is run once: assign() and set_task()  *)
(* neither lose a task nor give it to two managers.                          *)
Places(t) ==
    Cardinality({a \in Assigners : hand[a] = t})
    + Cardinality({n \in DOMAIN queue : queue[n] = t})
    + Cardinality({m \in Managers : task[m] = t})

TasksConserved == \A t \in Tasks : Places(t) + runs[t] = 1

(* Every task is run in the end, also one whose caller found all managers    *)
(* busy, missed a notification while it tried one, and has to wait for the   *)
(* time limit.                                                               *)
EveryTaskRuns == <>(\A t \in Tasks : runs[t] = 1)
================================================================================
