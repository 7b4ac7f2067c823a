----------------------------- MODULE ServicePool -----------------------------
(* bbt::ServicePool (servicepool.cpp): a queue of SocketServices guarded by  *)
(* one bbt::Conditional (mutex.cpp 131-193), that is a pthread mutex of the  *)
(* default, non recursive kind and a pthread condition.                      *)
(*                                                                           *)
(* A thread calls getService or freeService and then runs through the labels *)
(* of pc, one label per point where another thread can get in between:       *)
(*                                                                           *)
(*   getService   get.enter get.test [wait...] get.leave                     *)
(*   freeService  free.enter free.push free.signal free.leave                *)
(*   cond.wait    wait.enter wait.block wait.sleep wait.wake wait.leave      *)
(*                                                                           *)
(* Conditional::wait(timeout, locked) enters the mutex itself unless its     *)
(* second argument says that the caller has done so.  getService has done    *)
(* so and passes nothing, which is WaitLocked = FALSE: the code.             *)
(* WaitLocked = TRUE is the call that synchronization.h 273 documents.       *)
EXTENDS Naturals, Sequences, FiniteSets, Functions

CONSTANTS Services,     \* the SocketServices the constructor creates
          Getters,      \* the threads that call getService
          Freers,       \* the threads that call freeService
          NoThread,     \* the owner of a free mutex
          NoService,    \* a NULL SocketService pointer
          WaitLocked    \* the argument "locked" of cond.wait in getService

Threads == Getters \cup Freers

ASSUME ServicesFinite == IsFiniteSet(Services)
ASSUME NoThreadIsNone == NoThread \notin Threads
ASSUME NoServiceIsNone == NoService \notin Services
ASSUME WaitLockedBoolean == WaitLocked \in BOOLEAN

VARIABLES pool,     \* ServicePool::pool, the queue
          owner,    \* the thread that holds cond's mutex, or NoThread
          pc,       \* where each thread is
          arg,      \* svc: the service a thread got or is giving back
          out       \* the services in the hands of the callers

vars == <<pool, owner, pc, arg, out>>

GetLabels == {"get.enter", "get.test", "get.leave"}
WaitLabels == {"wait.enter", "wait.block", "wait.sleep", "wait.wake", "wait.leave"}
FreeLabels == {"free.enter", "free.push", "free.signal", "free.leave"}
Labels == {"idle"} \cup GetLabels \cup WaitLabels \cup FreeLabels

\* The labels at which a thread holds the mutex.
Holding == {"get.test", "get.leave", "wait.enter", "wait.block", "wait.leave",
            "free.push", "free.signal", "free.leave"}

Go(t, label) == pc' = [pc EXCEPT ![t] = label]
------------------------------------------------------------------------------
(* ServicePool::ServicePool: size services, none lent. *)
Init ==
    /\ pool \in [1..Cardinality(Services) -> Services]
    /\ IsInjective(pool)
    /\ Range(pool) = Services
    /\ owner = NoThread
    /\ pc = [t \in Threads |-> "idle"]
    /\ arg = [t \in Threads |-> NoService]
    /\ out = {}

(* A caller enters getService. *)
GetCall(t) ==
    /\ pc[t] = "idle"
    /\ Go(t, "get.enter")
    /\ UNCHANGED <<pool, owner, arg, out>>

\* Mutant: the caller's pointer has been cleared before it is given back.
MFreeCallNull(t, svc) ==
    /\ pc[t] = "idle"
    /\ Go(t, "free.enter")
    /\ out' = out \ {svc}
    /\ UNCHANGED <<pool, owner, arg>>

(* A caller gives svc back.  Which services may be given is the caller's     *)
(* business, so the guard that svc was lent is in Next.                      *)
FreeCall(t, svc) ==
    /\ pc[t] = "idle"
    /\ Go(t, "free.enter")
    /\ arg' = [arg EXCEPT ![t] = svc]
    /\ out' = out \ {svc}
    /\ UNCHANGED <<pool, owner>>

(* Conditional::enterMutex, from its three callers and from inside           *)
(* pthread_cond_wait, which takes the mutex again before it returns.  The    *)
(* mutex is not recursive: a thread that holds it waits like any other.      *)
AfterEnter == [label \in {"get.enter", "free.enter", "wait.enter", "wait.wake"} |->
    CASE label = "get.enter"  -> "get.test"
      [] label = "free.enter" -> "free.push"
      [] label = "wait.enter" -> "wait.block"
      [] label = "wait.wake"  -> IF WaitLocked THEN "get.test" ELSE "wait.leave"]

\* Mutant: the mutex is recursive.
MEnterRecursive(t) ==
    /\ pc[t] \in DOMAIN AfterEnter
    /\ owner \in {NoThread, t}
    /\ owner' = t
    /\ Go(t, AfterEnter[pc[t]])
    /\ UNCHANGED <<pool, arg, out>>

EnterMutex(t) ==
    /\ pc[t] \in DOMAIN AfterEnter
    /\ owner = NoThread
    /\ owner' = t
    /\ Go(t, AfterEnter[pc[t]])
    /\ UNCHANGED <<pool, arg, out>>

(* while(pool.empty()) cond.wait(); *)
TestEmpty(t) ==
    /\ pc[t] = "get.test"
    /\ pool = <<>>
    /\ Go(t, IF WaitLocked THEN "wait.block" ELSE "wait.enter")
    /\ UNCHANGED <<pool, owner, arg, out>>

\* Mutant: front() without pop().
MPopKeeps(t) ==
    /\ pc[t] = "get.test"
    /\ pool /= <<>>
    /\ arg' = [arg EXCEPT ![t] = Head(pool)]
    /\ Go(t, "get.leave")
    /\ UNCHANGED <<pool, owner, out>>

(* svc = pool.front(); pool.pop(); *)
Pop(t) ==
    /\ pc[t] = "get.test"
    /\ pool /= <<>>
    /\ arg' = [arg EXCEPT ![t] = Head(pool)]
    /\ pool' = Tail(pool)
    /\ Go(t, "get.leave")
    /\ UNCHANGED <<owner, out>>

\* Mutant: the wait is on another mutex than the one that is held.
MBlockKeeps(t) ==
    /\ pc[t] = "wait.block"
    /\ Go(t, "wait.sleep")
    /\ UNCHANGED <<pool, owner, arg, out>>

(* pthread_cond_wait releases the mutex and goes to sleep in one step. *)
Block(t) ==
    /\ pc[t] = "wait.block"
    /\ owner' = NoThread
    /\ Go(t, "wait.sleep")
    /\ UNCHANGED <<pool, arg, out>>

(* POSIX lets pthread_cond_wait return without a signal. *)
SpuriousWakeup(t) ==
    /\ pc[t] = "wait.sleep"
    /\ Go(t, "wait.wake")
    /\ UNCHANGED <<pool, owner, arg, out>>

\* Mutant: getService returns before its leaveMutex.
MLeaveForgotten(t) ==
    /\ pc[t] \in {"wait.leave", "get.leave", "free.leave"}
    /\ owner' = IF pc[t] = "get.leave" THEN owner ELSE NoThread
    /\ Go(t, IF pc[t] = "wait.leave" THEN "get.test" ELSE "idle")
    /\ out' = IF pc[t] = "get.leave" THEN out \cup {arg[t]} ELSE out
    /\ arg' = IF pc[t] = "get.leave" THEN [arg EXCEPT ![t] = NoService] ELSE arg
    /\ UNCHANGED pool

(* The leaveMutex at the end of wait, of getService and of freeService.      *)
(* With the first the thread is back in the while loop of getService, with   *)
(* the second the caller has its service.                                    *)
LeaveMutex(t) ==
    /\ pc[t] \in {"wait.leave", "get.leave", "free.leave"}
    /\ owner' = NoThread
    /\ Go(t, IF pc[t] = "wait.leave" THEN "get.test" ELSE "idle")
    /\ out' = IF pc[t] = "get.leave" THEN out \cup {arg[t]} ELSE out
    /\ arg' = IF pc[t] = "get.leave" THEN [arg EXCEPT ![t] = NoService] ELSE arg
    /\ UNCHANGED pool

\* Mutant: a stack instead of a queue.
MPushFront(t) ==
    /\ pc[t] = "free.push"
    /\ pool' = <<arg[t]>> \o pool
    /\ arg' = [arg EXCEPT ![t] = NoService]
    /\ Go(t, "free.signal")
    /\ UNCHANGED <<owner, out>>

(* pool.push(svc); *)
Push(t) ==
    /\ pc[t] = "free.push"
    /\ pool' = Append(pool, arg[t])
    /\ arg' = [arg EXCEPT ![t] = NoService]
    /\ Go(t, "free.signal")
    /\ UNCHANGED <<owner, out>>

\* Mutant: only the service that ends an empty queue is announced.
MSignalFirst(t) ==
    /\ pc[t] = "free.signal"
    /\ LET asleep == {w \in Threads : pc[w] = "wait.sleep"}
       IN  IF asleep = {} \/ Len(pool) > 1
             THEN Go(t, "free.leave")
             ELSE \E w \in asleep :
                    pc' = [pc EXCEPT ![t] = "free.leave", ![w] = "wait.wake"]
    /\ UNCHANGED <<pool, owner, arg, out>>

\* Mutant: freeService does not signal.
MSignalNobody(t) ==
    /\ pc[t] = "free.signal"
    /\ Go(t, "free.leave")
    /\ UNCHANGED <<pool, owner, arg, out>>

(* cond.signal(0): wakes one sleeping thread, if there is one. *)
Signal(t) ==
    /\ pc[t] = "free.signal"
    /\ LET asleep == {w \in Threads : pc[w] = "wait.sleep"}
       IN  IF asleep = {}
             THEN Go(t, "free.leave")
             ELSE \E w \in asleep :
                    pc' = [pc EXCEPT ![t] = "free.leave", ![w] = "wait.wake"]
    /\ UNCHANGED <<pool, owner, arg, out>>

(* What a thread does inside a method of the pool. *)
Step(t) ==
    \/ EnterMutex(t) \/ LeaveMutex(t)
    \/ TestEmpty(t) \/ Pop(t) \/ Block(t)
    \/ Push(t) \/ Signal(t)

Next ==
    \/ \E t \in Getters : GetCall(t)
    \/ \E t \in Freers : \E svc \in out : FreeCall(t, svc)
    \/ \E t \in Threads : Step(t) \/ SpuriousWakeup(t)

Spec == Init /\ [][Next]_vars

(* Fairness: a thread that can run does run, and pthread_mutex_lock does not *)
(* pass over one thread for ever, but no wakeup is ever spurious by duty;    *)
(* and a caller that got a service gives it back in the end, or nothing      *)
(* could be promised to the next one.                                        *)
Fairness ==
    /\ \A t \in Threads : SF_vars(Step(t))
    /\ \A svc \in Services :
         SF_vars(svc \in out /\ \E t \in Freers : FreeCall(t, svc))

FairSpec == Spec /\ Fairness
------------------------------------------------------------------------------
(* Types: pool holds services only, a thread is at a label of its own. *)
TypeOK ==
    /\ pool \in Seq(Services)
    /\ owner \in Threads \cup {NoThread}
    /\ pc \in [Threads -> Labels]
    /\ arg \in [Threads -> Services \cup {NoService}]
    /\ out \in SUBSET Services

(* The mutex protects the queue: a thread that is between enterMutex and     *)
(* leaveMutex, whichever way it got there, is the one owner of the mutex.    *)
MutexHeld == \A t \in Threads : pc[t] \in Holding <=> owner = t

Carried == {t \in Threads : arg[t] /= NoService}

(* No service is lost and none is duplicated: each is in exactly one of the  *)
(* queue, the hands of the callers, and the local variable of one thread     *)
(* inside getService or freeService.                                         *)
Accounting ==
    /\ IsInjective(pool)
    /\ \A t, u \in Carried : arg[t] = arg[u] => t = u
    /\ \A t \in Carried : arg[t] \notin Range(pool) \cup out
    /\ Range(pool) \cap out = {}
    /\ Services = Range(pool) \cup out \cup {arg[t] : t \in Carried}

(* No lost wakeup: while a getter sleeps, every service in the queue is      *)
(* spoken for by a getter that is awake or by a signal still to be given.    *)
(* Fails if freeService signals only when it finds the queue empty.          *)
NoLostWakeup ==
    (\E t \in Threads : pc[t] = "wait.sleep") =>
        Len(pool) <= Cardinality({t \in Threads :
                        pc[t] \in {"wait.wake", "wait.leave", "get.test", "free.signal"}})

(* A thread that has called getService gets its service. *)
GetReturns == \A t \in Getters : pc[t] = "get.enter" ~> pc[t] = "idle"

(* A thread that found the queue empty is stuck for ever inside cond.wait,   *)
(* and keeps the mutex: from then on no getService and no freeService of any *)
(* thread gets as far as the queue.                                          *)
EmptyPoolWedges ==
    [][\A t \in Threads : pc[t] = "wait.enter" =>
         pc'[t] = "wait.enter" /\ owner' = t /\ pool' = pool]_vars

(* The queue is the abstract store, and what is not in it is lent. *)
Abstract == INSTANCE AbstractPool WITH
    free <- pool,
    lent <- Services \ Range(pool)

ImplementsPool == Abstract!Spec
==============================================================================
