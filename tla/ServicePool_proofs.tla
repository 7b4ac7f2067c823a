------------------------- MODULE ServicePool_proofs -------------------------
(* What ServicePool guarantees for any number of services and threads, and   *)
(* for either way of calling cond.wait.  Every theorem follows from one      *)
(* inductive invariant, IInv.                                                *)
EXTENDS ServicePool, FiniteSetTheorems, TLAPS

(* Which part of cond.wait a thread can be in depends on WaitLocked: with    *)
(* the mutex declared as held, wait neither enters nor leaves it; otherwise  *)
(* wait never gets past its own enterMutex.                                  *)
WaitKind ==
    \A t \in Threads :
        IF WaitLocked THEN pc[t] \notin {"wait.enter", "wait.leave"}
        ELSE pc[t] \notin {"wait.block", "wait.sleep", "wait.wake", "wait.leave"}

(* A thread carries a service between taking it from the queue and returning *)
(* it, and between being called with it and putting it in the queue.         *)
ArgLabels ==
    \A t \in Threads :
        arg[t] /= NoService <=> pc[t] \in {"get.leave", "free.enter", "free.push"}

IInv == TypeOK /\ MutexHeld /\ WaitKind /\ ArgLabels /\ Accounting
-----------------------------------------------------------------------------
(* Taking the first element of a queue without repetitions. *)
LEMMA TailOfInjective ==
    ASSUME NEW S, NEW q \in Seq(S), q /= <<>>, IsInjective(q)
    PROVE  /\ Tail(q) \in Seq(S)
           /\ Head(q) \in S
           /\ IsInjective(Tail(q))
           /\ Range(Tail(q)) = Range(q) \ {Head(q)}
           /\ Head(q) \in Range(q)
<1>1. Len(q) \in Nat /\ Len(q) >= 1 /\ DOMAIN q = 1..Len(q) /\ Head(q) = q[1]
  OBVIOUS
<1>2. Tail(q) \in Seq(S) /\ DOMAIN Tail(q) = 1..(Len(q) - 1)
  OBVIOUS
<1>3. \A i \in 1..(Len(q) - 1) : Tail(q)[i] = q[i + 1]
  OBVIOUS
<1>4. Head(q) \in S /\ Head(q) \in Range(q)
  BY <1>1 DEF Range
<1>5. IsInjective(Tail(q))
  <2> SUFFICES ASSUME NEW i \in 1..(Len(q) - 1), NEW j \in 1..(Len(q) - 1),
                      Tail(q)[i] = Tail(q)[j]
               PROVE  i = j
    BY <1>2 DEF IsInjective
  <2>1. q[i + 1] = q[j + 1] /\ i + 1 \in DOMAIN q /\ j + 1 \in DOMAIN q
    BY <1>1, <1>3
  <2>2. i + 1 = j + 1
    BY <2>1 DEF IsInjective
  <2> QED BY <1>1, <2>2
<1>6. Range(Tail(q)) \subseteq Range(q) \ {Head(q)}
  <2> SUFFICES ASSUME NEW i \in 1..(Len(q) - 1)
               PROVE  q[i + 1] \in Range(q) /\ q[i + 1] /= q[1]
    BY <1>1, <1>2, <1>3 DEF Range
  <2>1. i + 1 \in DOMAIN q /\ 1 \in DOMAIN q /\ i + 1 /= 1
    BY <1>1
  <2> QED BY <2>1 DEF Range, IsInjective
<1>7. Range(q) \ {Head(q)} \subseteq Range(Tail(q))
  <2> SUFFICES ASSUME NEW i \in 1..Len(q), q[i] /= q[1]
               PROVE  q[i] \in Range(Tail(q))
    BY <1>1 DEF Range
  <2>1. i - 1 \in 1..(Len(q) - 1) /\ Tail(q)[i - 1] = q[i]
    BY <1>1, <1>3
  <2> QED BY <1>2, <2>1 DEF Range
<1> QED BY <1>2, <1>4, <1>5, <1>6, <1>7

(* Adding an element at the end of a queue that does not hold it. *)
LEMMA AppendToInjective ==
    ASSUME NEW S, NEW q \in Seq(S), NEW e \in S, IsInjective(q), e \notin Range(q)
    PROVE  /\ Append(q, e) \in Seq(S)
           /\ IsInjective(Append(q, e))
           /\ Range(Append(q, e)) = Range(q) \cup {e}
<1> DEFINE a == Append(q, e)
<1>1. Len(q) \in Nat /\ DOMAIN q = 1..Len(q)
  OBVIOUS
<1>2. a \in Seq(S) /\ DOMAIN a = 1..(Len(q) + 1)
  OBVIOUS
<1>3. /\ \A i \in 1..Len(q) : a[i] = q[i]
      /\ a[Len(q) + 1] = e
  OBVIOUS
<1>4. \A i \in 1..Len(q) : q[i] \in Range(q) /\ q[i] /= e
  BY <1>1 DEF Range
<1> HIDE DEF a
<1>5. IsInjective(a)
  <2> SUFFICES ASSUME NEW i \in 1..(Len(q) + 1), NEW j \in 1..(Len(q) + 1), a[i] = a[j]
               PROVE  i = j
    BY <1>2 DEF IsInjective
  <2>1. CASE i \in 1..Len(q) /\ j \in 1..Len(q)
    BY <1>1, <1>3, <2>1 DEF IsInjective
  <2>2. CASE i = Len(q) + 1 /\ j \in 1..Len(q)
    BY <1>3, <1>4, <2>2
  <2>3. CASE i \in 1..Len(q) /\ j = Len(q) + 1
    BY <1>3, <1>4, <2>3
  <2> QED BY <1>1, <2>1, <2>2, <2>3
<1>6. Range(a) = Range(q) \cup {e}
  <2>1. Range(a) = {a[i] : i \in 1..(Len(q) + 1)}
    BY <1>2 DEF Range
  <2>2. 1..(Len(q) + 1) = 1..Len(q) \cup {Len(q) + 1}
    BY <1>1
  <2>3. {a[i] : i \in 1..Len(q)} = Range(q)
    BY <1>1, <1>3 DEF Range
  <2> QED BY <1>3, <2>1, <2>2, <2>3
<1> QED BY <1>2, <1>5, <1>6 DEF a
-----------------------------------------------------------------------------
\* The initial state satisfies the strengthening.
LEMMA InitInvariant == Init => IInv
<1> SUFFICES ASSUME Init PROVE IInv
  OBVIOUS
<1>1. pool \in Seq(Services)
  <2>1. Cardinality(Services) \in Nat
    BY FS_CardinalityType, ServicesFinite
  <2> QED BY <2>1 DEF Init
<1>2. TypeOK
  BY <1>1 DEF Init, TypeOK, Labels
<1>3. MutexHeld /\ WaitKind /\ ArgLabels
  BY NoThreadIsNone DEF Init, MutexHeld, WaitKind, ArgLabels, Holding
<1>4. Carried = {}
  BY DEF Init, Carried
<1>5. Accounting
  BY <1>4 DEF Init, Accounting
<1> QED BY <1>2, <1>3, <1>5 DEF IInv

(* A step preserves the types.                                               *)
LEMMA TypeStep == IInv /\ Next => TypeOK'
<1> SUFFICES ASSUME IInv, Next PROVE TypeOK'
  OBVIOUS
<1> USE DEF IInv, TypeOK, Go
<1>1. ASSUME NEW t \in Getters, GetCall(t) PROVE TypeOK'
  BY <1>1 DEF GetCall, Labels, GetLabels, Threads
<1>2. ASSUME NEW t \in Freers, NEW svc \in out, FreeCall(t, svc) PROVE TypeOK'
  BY <1>2 DEF FreeCall, Labels, FreeLabels, Threads
<1>3. ASSUME NEW t \in Threads, EnterMutex(t) PROVE TypeOK'
  <2>1. AfterEnter[pc[t]] \in Labels
    BY <1>3 DEF EnterMutex, AfterEnter, Labels, GetLabels, FreeLabels, WaitLabels
  <2> QED BY <1>3, <2>1 DEF EnterMutex
<1>4. ASSUME NEW t \in Threads, LeaveMutex(t) PROVE TypeOK'
  <2>1. pc' \in [Threads -> Labels]
    BY <1>4 DEF LeaveMutex, Labels, GetLabels
  <2>2. pc[t] = "get.leave" => arg[t] \in Services
    BY DEF ArgLabels
  <2>3. out' \in SUBSET Services
    BY <1>4, <2>2 DEF LeaveMutex
  <2>4. arg' \in [Threads -> Services \cup {NoService}]
    BY <1>4 DEF LeaveMutex
  <2> QED BY <1>4, <2>1, <2>3, <2>4 DEF LeaveMutex
<1>5. ASSUME NEW t \in Threads, TestEmpty(t) PROVE TypeOK'
  BY <1>5 DEF TestEmpty, Labels, WaitLabels
<1>6. ASSUME NEW t \in Threads, Pop(t) PROVE TypeOK'
  <2>1. Tail(pool) \in Seq(Services) /\ Head(pool) \in Services
    BY <1>6, TailOfInjective DEF Pop, Accounting
  <2> QED BY <1>6, <2>1 DEF Pop, Labels, GetLabels
<1>7. ASSUME NEW t \in Threads, Block(t) PROVE TypeOK'
  BY <1>7 DEF Block, Labels, WaitLabels
<1>8. ASSUME NEW t \in Threads, SpuriousWakeup(t) PROVE TypeOK'
  BY <1>8 DEF SpuriousWakeup, Labels, WaitLabels
<1>9. ASSUME NEW t \in Threads, Push(t) PROVE TypeOK'
  <2>1. arg[t] \in Services
    BY <1>9 DEF Push, ArgLabels
  <2> QED BY <1>9, <2>1 DEF Push, Labels, FreeLabels
<1>10. ASSUME NEW t \in Threads, Signal(t) PROVE TypeOK'
  <2>1. pc' \in [Threads -> Labels]
    BY <1>10 DEF Signal, Labels, FreeLabels, WaitLabels
  <2> QED BY <1>10, <2>1 DEF Signal
<1> QED BY <1>1, <1>2, <1>3, <1>4, <1>5, <1>6, <1>7, <1>8, <1>9, <1>10 DEF Next, Step

(* A step preserves the agreement of labels, mutex and arguments.            *)
LEMMA LabelStep == IInv /\ Next => MutexHeld' /\ WaitKind' /\ ArgLabels'
<1> DEFINE Goal == MutexHeld' /\ WaitKind' /\ ArgLabels'
<1> SUFFICES ASSUME IInv, Next PROVE Goal
  OBVIOUS
<1> USE NoThreadIsNone, NoServiceIsNone
    DEF IInv, TypeOK, Go, MutexHeld, WaitKind, ArgLabels, Holding
<1>1. ASSUME NEW t \in Getters, GetCall(t) PROVE Goal
  BY <1>1 DEF GetCall, Threads
<1>2. ASSUME NEW t \in Freers, NEW svc \in out, FreeCall(t, svc) PROVE Goal
  BY <1>2 DEF FreeCall, Threads
<1>3. ASSUME NEW t \in Threads, EnterMutex(t) PROVE Goal
  <2>1. pc[t] \in {"get.enter", "free.enter", "wait.wake"}
    BY <1>3 DEF EnterMutex, AfterEnter
  <2>2. AfterEnter[pc[t]] \in
          IF pc[t] = "free.enter" THEN {"free.push"} ELSE
          IF pc[t] = "get.enter" THEN {"get.test"} ELSE {"get.test"}
    BY <1>3, <2>1 DEF EnterMutex, AfterEnter
  <2> QED BY <1>3, <2>1, <2>2 DEF EnterMutex
<1>4. ASSUME NEW t \in Threads, LeaveMutex(t) PROVE Goal
  BY <1>4 DEF LeaveMutex
<1>5. ASSUME NEW t \in Threads, TestEmpty(t) PROVE Goal
  BY <1>5 DEF TestEmpty
<1>6. ASSUME NEW t \in Threads, Pop(t) PROVE Goal
  <2>1. Head(pool) \in Services
    BY <1>6, TailOfInjective DEF Pop, Accounting
  <2> QED BY <1>6, <2>1 DEF Pop
<1>7. ASSUME NEW t \in Threads, Block(t) PROVE Goal
  BY <1>7 DEF Block
<1>8. ASSUME NEW t \in Threads, SpuriousWakeup(t) PROVE Goal
  BY <1>8 DEF SpuriousWakeup
<1>9. ASSUME NEW t \in Threads, Push(t) PROVE Goal
  BY <1>9 DEF Push
<1>10. ASSUME NEW t \in Threads, Signal(t) PROVE Goal
  <2> DEFINE asleep == {w \in Threads : pc[w] = "wait.sleep"}
  <2>1. CASE asleep = {}
    BY <1>10, <2>1 DEF Signal
  <2>2. CASE asleep /= {}
    <3>1. PICK w \in asleep : pc' = [pc EXCEPT ![t] = "free.leave", ![w] = "wait.wake"]
      BY <1>10, <2>2 DEF Signal
    <3>2. w \in Threads /\ pc[w] = "wait.sleep" /\ pc[t] = "free.signal"
      BY <1>10 DEF Signal
    <3> QED BY <1>10, <3>1, <3>2 DEF Signal
  <2> QED BY <2>1, <2>2
<1> QED BY <1>1, <1>2, <1>3, <1>4, <1>5, <1>6, <1>7, <1>8, <1>9, <1>10 DEF Next, Step
-----------------------------------------------------------------------------
(* How a step moves services between the queue, the callers and the local    *)
(* variables of the threads: Accounting holds of the new places if it holds  *)
(* of the old ones and the step is one of these four.                        *)
LEMMA CarriedExcept ==
    ASSUME TypeOK, NEW t \in Threads, NEW v \in Services \cup {NoService},
           arg' = [arg EXCEPT ![t] = v]
    PROVE  /\ Carried' = IF v = NoService THEN Carried \ {t} ELSE Carried \cup {t}
           /\ \A u \in Threads : arg'[u] = IF u = t THEN v ELSE arg[u]
BY DEF TypeOK, Carried

\* Pop and Push move one service, the other steps none.
LEMMA AccountingStep == IInv /\ Next => Accounting'
<1> SUFFICES ASSUME IInv, Next PROVE Accounting'
  OBVIOUS
<1>0. TypeOK /\ ArgLabels /\ Accounting /\ TypeOK'
  BY TypeStep DEF IInv
<1>c. Carried \subseteq Threads /\ \A t \in Threads : t \in Carried <=> arg[t] /= NoService
  BY DEF Carried
<1>q. pool \in Seq(Services) /\ IsInjective(pool)
  BY <1>0 DEF TypeOK, Accounting
<1> USE DEF Go
\* Steps that move nothing.
<1>1. ASSUME UNCHANGED <<pool, arg, out>> PROVE Accounting'
  <2>1. Carried' = Carried
    BY <1>1 DEF Carried
  <2> QED BY <1>0, <1>1, <2>1 DEF Accounting
\* From the callers to the thread that gives the service back.
<1>2. ASSUME NEW t \in Freers, NEW svc \in out, FreeCall(t, svc) PROVE Accounting'
  <2>1. t \in Threads /\ svc \in Services /\ svc /= NoService /\ t \notin Carried
    BY <1>0, <1>2, NoServiceIsNone DEF FreeCall, Threads, TypeOK, ArgLabels, Carried
  <2>2. /\ Carried' = Carried \cup {t}
        /\ \A u \in Threads : arg'[u] = IF u = t THEN svc ELSE arg[u]
    BY <1>0, <1>2, <2>1, CarriedExcept DEF FreeCall
  <2>3. out' = out \ {svc} /\ pool' = pool
    BY <1>2 DEF FreeCall
  <2>4. svc \notin Range(pool) /\ \A u \in Carried : arg[u] /= svc
    BY <1>0 DEF Accounting
  <2>5. {arg'[u] : u \in Carried'} = {arg[u] : u \in Carried} \cup {svc}
    BY <1>c, <2>1, <2>2
  <2> QED BY <1>0, <1>c, <2>1, <2>2, <2>3, <2>4, <2>5 DEF Accounting
\* From the queue to the thread that gets it.
<1>3. ASSUME NEW t \in Threads, Pop(t) PROVE Accounting'
  <2> DEFINE svc == Head(pool)
  <2>0. /\ svc \in Services
        /\ IsInjective(pool')
        /\ Range(pool') = Range(pool) \ {svc}
        /\ svc \in Range(pool)
    BY <1>3, <1>q, TailOfInjective DEF Pop
  <2>a. arg' = [arg EXCEPT ![t] = svc] /\ out' = out
    BY <1>3 DEF Pop
  <2> HIDE DEF svc
  <2>1. svc /= NoService /\ t \notin Carried
    BY <1>0, <1>3, <2>0, NoServiceIsNone DEF Pop, ArgLabels, Carried
  <2>2. /\ Carried' = Carried \cup {t}
        /\ \A u \in Threads : arg'[u] = IF u = t THEN svc ELSE arg[u]
    BY <1>0, <2>0, <2>a, <2>1, CarriedExcept
  <2>4. svc \notin out /\ \A u \in Carried : arg[u] /= svc
    BY <1>0, <2>0 DEF Accounting
  <2>5. {arg'[u] : u \in Carried'} = {arg[u] : u \in Carried} \cup {svc}
    BY <1>c, <2>1, <2>2
  <2> QED BY <1>0, <1>c, <2>0, <2>a, <2>1, <2>2, <2>4, <2>5 DEF Accounting
\* From the thread that gives it back to the queue.
<1>4. ASSUME NEW t \in Threads, Push(t) PROVE Accounting'
  <2> DEFINE svc == arg[t]
  <2>1. t \in Carried /\ svc \in Services
    BY <1>0, <1>4 DEF Push, ArgLabels, TypeOK, Carried
  <2>4. svc \notin Range(pool) /\ svc \notin out /\ \A u \in Carried : arg[u] = svc => u = t
    BY <1>0, <2>1 DEF Accounting
  <2>0. IsInjective(pool') /\ Range(pool') = Range(pool) \cup {svc}
    BY <1>4, <1>q, <2>1, <2>4, AppendToInjective DEF Push
  <2>2. /\ Carried' = Carried \ {t}
        /\ \A u \in Threads : arg'[u] = IF u = t THEN NoService ELSE arg[u]
        /\ out' = out
    BY <1>0, <1>4, CarriedExcept DEF Push
  <2>5. {arg'[u] : u \in Carried'} = {arg[u] : u \in Carried} \ {svc}
    BY <1>c, <2>1, <2>2, <2>4
  <2> HIDE DEF svc
  <2>6. \A u \in Carried' : u \in Carried /\ arg'[u] = arg[u] /\ arg[u] /= svc
    BY <1>c, <2>2, <2>4
  <2>7. svc \in {arg[u] : u \in Carried}
    BY <2>1 DEF svc
  <2> QED BY <1>0, <2>0, <2>2, <2>4, <2>5, <2>6, <2>7 DEF Accounting
\* From the thread that got it to the callers.
<1>5. ASSUME NEW t \in Threads, LeaveMutex(t), pc[t] = "get.leave" PROVE Accounting'
  <2> DEFINE svc == arg[t]
  <2>1. t \in Carried /\ svc \in Services
    BY <1>0, <1>5 DEF ArgLabels, TypeOK, Carried
  <2>4. svc \notin Range(pool) /\ svc \notin out /\ \A u \in Carried : arg[u] = svc => u = t
    BY <1>0, <2>1 DEF Accounting
  <2>2. /\ Carried' = Carried \ {t}
        /\ \A u \in Threads : arg'[u] = IF u = t THEN NoService ELSE arg[u]
        /\ out' = out \cup {svc} /\ pool' = pool
    BY <1>0, <1>5, CarriedExcept DEF LeaveMutex
  <2>5. {arg'[u] : u \in Carried'} = {arg[u] : u \in Carried} \ {svc}
    BY <1>c, <2>1, <2>2, <2>4
  <2> HIDE DEF svc
  <2>6. \A u \in Carried' : u \in Carried /\ arg'[u] = arg[u] /\ arg[u] /= svc
    BY <1>c, <2>2, <2>4
  <2>7. svc \in {arg[u] : u \in Carried}
    BY <2>1 DEF svc
  <2> QED BY <1>0, <2>2, <2>4, <2>5, <2>6, <2>7 DEF Accounting
<1>6. ASSUME NEW t \in Threads, LeaveMutex(t), pc[t] /= "get.leave" PROVE Accounting'
  BY <1>1, <1>6 DEF LeaveMutex
<1> QED
  BY <1>1, <1>2, <1>3, <1>4, <1>5, <1>6
  DEF Next, Step, GetCall, EnterMutex, TestEmpty, Block, SpuriousWakeup, Signal
-----------------------------------------------------------------------------
(* The three facts about the inductive invariant, and the stuttering step.   *)
LEMMA InvariantStep == IInv /\ [Next]_vars => IInv'
<1>1. IInv /\ Next => IInv'
  BY TypeStep, LabelStep, AccountingStep DEF IInv
<1>2. IInv /\ UNCHANGED vars => IInv'
  BY DEF IInv, vars, TypeOK, MutexHeld, WaitKind, ArgLabels, Accounting, Carried
<1> QED BY <1>1, <1>2

\* IInv, on which the other theorems rest, holds in every state of the pool.
THEOREM InductiveInvariant == Spec => []IInv
BY InitInvariant, InvariantStep, PTL DEF Spec

(* Every variable of the pool keeps its type: in particular only services    *)
(* are ever in the queue (servicepool.cpp 10, 29).                           *)
THEOREM TypeCorrect == Spec => []TypeOK
<1>1. IInv => TypeOK
  BY DEF IInv
<1> QED BY <1>1, InductiveInvariant, PTL

(* The queue is touched by the owner of the mutex only, and a thread that    *)
(* leaves the mutex is the one that holds it (mutex.cpp 154-193).            *)
THEOREM MutexCorrect == Spec => []MutexHeld
<1>1. IInv => MutexHeld
  BY DEF IInv
<1> QED BY <1>1, InductiveInvariant, PTL

(* No service is lost and none duplicated, for any number of threads         *)
(* (servicepool.cpp 15-32).                                                  *)
THEOREM AccountingCorrect == Spec => []Accounting
<1>1. IInv => Accounting
  BY DEF IInv
<1> QED BY <1>1, InductiveInvariant, PTL

(* Once a thread has called cond.wait() on an empty queue, without the       *)
(* argument that tells it the mutex is held, that thread, the mutex and the  *)
(* queue never change again (servicepool.cpp 19, mutex.cpp 177-178).         *)
THEOREM WedgeIsForever == Spec => EmptyPoolWedges
<1> DEFINE Wedged == \A t \in Threads : pc[t] = "wait.enter" =>
                        pc'[t] = "wait.enter" /\ owner' = t /\ pool' = pool
<1>1. IInv /\ [Next]_vars => [Wedged]_vars
  <2> SUFFICES ASSUME IInv, Next, NEW t \in Threads, pc[t] = "wait.enter"
               PROVE  pc'[t] = "wait.enter" /\ owner' = t /\ pool' = pool
    BY DEF vars
  <2>1. owner = t /\ t /= NoThread
    BY NoThreadIsNone DEF IInv, MutexHeld, Holding
  <2>2. \A u \in Threads : pc[u] \in Holding => u = t
    BY <2>1 DEF IInv, MutexHeld
  <2>3. pc \in [Threads -> Labels]
    BY DEF IInv, TypeOK
  <2>4. ASSUME NEW u \in Threads, Step(u) PROVE FALSE
    <3>1. pc[u] \in Holding \/ EnterMutex(u)
      BY <2>4 DEF Step, Holding, LeaveMutex, TestEmpty, Pop, Block, Push, Signal
    <3>2. ~EnterMutex(u)
      BY <2>1 DEF EnterMutex
    <3>3. pc[u] = "wait.enter"
      BY <2>2, <3>1, <3>2
    <3> QED BY <2>4, <3>2, <3>3
        DEF Step, LeaveMutex, TestEmpty, Pop, Block, Push, Signal
  <2>5. ASSUME NEW u \in Threads, SpuriousWakeup(u)
        PROVE  pc'[t] = "wait.enter" /\ owner' = t /\ pool' = pool
    BY <2>1, <2>3, <2>5 DEF SpuriousWakeup, Go
  <2>6. ASSUME NEW u \in Getters, GetCall(u)
        PROVE  pc'[t] = "wait.enter" /\ owner' = t /\ pool' = pool
    BY <2>1, <2>3, <2>6 DEF GetCall, Go
  <2>7. ASSUME NEW u \in Freers, NEW svc \in out, FreeCall(u, svc)
        PROVE  pc'[t] = "wait.enter" /\ owner' = t /\ pool' = pool
    BY <2>1, <2>3, <2>7 DEF FreeCall, Go
  <2> QED BY <2>4, <2>5, <2>6, <2>7 DEF Next
<1> QED BY <1>1, InductiveInvariant, PTL DEF Spec, EmptyPoolWedges

(* The threads that will look at the queue again, or make another do so.     *)
Alert == {t \in Threads : pc[t] \in {"wait.wake", "wait.leave", "get.test", "free.signal"}}

(* No wakeup is lost because a thread goes to sleep on an empty queue only.  *)
WakeupInv ==
    /\ NoLostWakeup
    /\ \A t \in Threads : pc[t] = "wait.block" => pool = <<>>

(* What one thread's step does to the number of the threads in Alert. *)
LEMMA AlertCounts ==
    ASSUME IsFiniteSet(Threads)
    PROVE  /\ IsFiniteSet(Alert) /\ Cardinality(Alert) \in Nat
           /\ \A t \in Threads \ Alert :
                Alert' = Alert \cup {t} => Cardinality(Alert') = Cardinality(Alert) + 1
           /\ \A t \in Alert :
                Alert' = Alert \ {t} => Cardinality(Alert') = Cardinality(Alert) - 1
           /\ \A t \in Alert, w \in Threads \ Alert :
                Alert' = (Alert \ {t}) \cup {w} => Cardinality(Alert') = Cardinality(Alert)
<1>1. Alert \subseteq Threads /\ IsFiniteSet(Alert)
  BY FS_Subset DEF Alert
<1>2. Cardinality(Alert) \in Nat
  BY <1>1, FS_CardinalityType
<1>3. ASSUME NEW t \in Threads, t \notin Alert, Alert' = Alert \cup {t}
      PROVE  Cardinality(Alert') = Cardinality(Alert) + 1
  BY <1>1, <1>3, FS_AddElement
<1>4. ASSUME NEW t \in Alert, Alert' = Alert \ {t}
      PROVE  Cardinality(Alert') = Cardinality(Alert) - 1
  BY <1>1, <1>4, FS_RemoveElement
<1>5. ASSUME NEW t \in Alert, NEW w \in Threads, w \notin Alert,
             Alert' = (Alert \ {t}) \cup {w}
      PROVE  Cardinality(Alert') = Cardinality(Alert)
  <2>1. /\ IsFiniteSet(Alert \ {t})
        /\ Cardinality(Alert \ {t}) = Cardinality(Alert) - 1
    BY <1>1, FS_RemoveElement
  <2>2. Cardinality(Alert') = Cardinality(Alert \ {t}) + 1
    BY <1>5, <2>1, FS_AddElement
  <2> QED BY <1>2, <2>1, <2>2
<1> QED BY <1>1, <1>2, <1>3, <1>4, <1>5

\* Who sleeps while there are services is going to be woken, after every step.
LEMMA WakeupStep ==
    ASSUME IsFiniteSet(Threads)
    PROVE  IInv /\ WakeupInv /\ [Next]_vars => WakeupInv'
<1> SUFFICES ASSUME IInv, WakeupInv, [Next]_vars PROVE WakeupInv'
  OBVIOUS
<1> DEFINE Asleep == {t \in Threads : pc[t] = "wait.sleep"}
<1>1. /\ pc \in [Threads -> Labels] /\ pool \in Seq(Services) /\ Len(pool) \in Nat
      /\ WaitKind /\ MutexHeld
  BY DEF IInv, TypeOK
<1>2. Asleep # {} => Len(pool) <= Cardinality(Alert)
  BY DEF WakeupInv, NoLostWakeup, Alert
<1>3. \A t \in Threads : pc[t] = "wait.block" => pool = <<>>
  BY DEF WakeupInv
<1>n. Cardinality(Alert) \in Nat
  BY AlertCounts
<1>4. \A t, u \in Threads : pc[t] \in Holding /\ pc[u] \in Holding => t = u
  BY <1>1, NoThreadIsNone DEF MutexHeld
<1>5. ASSUME /\ Asleep' # {} => Len(pool') <= Cardinality(Alert')
             /\ \A t \in Threads : pc'[t] = "wait.block" => pool' = <<>>
      PROVE  WakeupInv'
  BY <1>5 DEF WakeupInv, NoLostWakeup, Alert
\* Steps of threads that are not alert and do not touch the queue.
<1>6. ASSUME NEW t \in Threads, NEW label, Go(t, label), UNCHANGED pool,
             t \notin Alert, label \notin {"wait.sleep", "wait.block"}
      PROVE  WakeupInv'
  <2>1. CASE label \notin {"wait.wake", "wait.leave", "get.test", "free.signal"}
    <3>1. Alert' = Alert /\ Asleep' \subseteq Asleep
      BY <1>1, <1>6, <2>1 DEF Alert, Go
    <3> QED BY <1>1, <1>2, <1>3, <1>5, <1>6, <3>1 DEF Go
  <2>2. CASE label \in {"wait.wake", "wait.leave", "get.test", "free.signal"}
    <3>1. Alert' = Alert \cup {t} /\ Asleep' \subseteq Asleep
      BY <1>1, <1>6, <2>2 DEF Alert, Go
    <3>2. Cardinality(Alert') = Cardinality(Alert) + 1
      BY <1>6, <3>1, AlertCounts
    <3> QED BY <1>1, <1>2, <1>3, <1>5, <1>6, <1>n, <3>1, <3>2 DEF Go
  <2> QED BY <2>1, <2>2
<1>7. ASSUME NEW t \in Getters, GetCall(t) PROVE WakeupInv'
  <2>1. t \in Threads /\ Go(t, "get.enter") /\ UNCHANGED pool /\ t \notin Alert
    BY <1>7 DEF GetCall, Threads, Alert
  <2> QED BY <1>6, <2>1
<1>8. ASSUME NEW t \in Freers, NEW svc \in out, FreeCall(t, svc) PROVE WakeupInv'
  <2>1. t \in Threads /\ Go(t, "free.enter") /\ UNCHANGED pool /\ t \notin Alert
    BY <1>8 DEF FreeCall, Threads, Alert
  <2> QED BY <1>6, <2>1
<1>9. ASSUME NEW t \in Threads, EnterMutex(t) PROVE WakeupInv'
  <2>1. pc[t] \in {"get.enter", "free.enter", "wait.enter", "wait.wake"}
    BY <1>9 DEF EnterMutex, AfterEnter
  <2>2. \A u \in Threads : pc[u] \notin Holding
    BY <1>1, <1>9, NoThreadIsNone DEF EnterMutex, MutexHeld
  <2>3. pc[t] # "wait.enter"
    BY <2>2 DEF Holding
  <2>4. CASE pc[t] = "wait.wake"
    <3>1. AfterEnter[pc[t]] \in {"get.test", "wait.leave"}
      BY <2>4 DEF AfterEnter
    <3>2. Alert' = Alert /\ Asleep' = Asleep
      BY <1>1, <1>9, <2>4, <3>1 DEF EnterMutex, Alert, Go
    <3>3. \A u \in Threads : pc'[u] # "wait.block"
      BY <1>1, <1>9, <2>2, <3>1 DEF EnterMutex, Holding, Go
    <3> QED BY <1>2, <1>5, <1>9, <3>2, <3>3 DEF EnterMutex
  <2>5. CASE pc[t] \in {"get.enter", "free.enter"}
    <3>1. AfterEnter[pc[t]] \in {"get.test", "free.push"}
      BY <2>5 DEF AfterEnter
    <3>2. Go(t, AfterEnter[pc[t]]) /\ UNCHANGED pool /\ t \notin Alert
      BY <1>9, <2>5 DEF EnterMutex, Alert
    <3> QED BY <1>6, <3>1, <3>2
  <2> QED BY <2>1, <2>3, <2>4, <2>5
<1>10. ASSUME NEW t \in Threads, LeaveMutex(t) PROVE WakeupInv'
  <2>1. pc[t] # "wait.leave"
    BY <1>1 DEF WaitKind
  <2>2. Go(t, "idle") /\ UNCHANGED pool /\ t \notin Alert
    BY <1>10, <2>1 DEF LeaveMutex, Alert
  <2> QED BY <1>6, <2>2
<1>11. ASSUME NEW t \in Threads, TestEmpty(t) PROVE WakeupInv'
  <2>1. pool = <<>> /\ pool' = <<>>
    BY <1>11 DEF TestEmpty
  <2>2. Len(pool') = 0 /\ Cardinality(Alert') \in Nat
    <3>1. Alert' \subseteq Threads
      BY DEF Alert
    <3>2. IsFiniteSet(Alert')
      BY <3>1, FS_Subset
    <3> QED BY <2>1, <3>2, FS_CardinalityType
  <2> QED BY <1>5, <2>1, <2>2
<1>12. ASSUME NEW t \in Threads, Pop(t) PROVE WakeupInv'
  <2>1. Alert' = Alert \ {t} /\ t \in Alert /\ Asleep' = Asleep
    BY <1>1, <1>12 DEF Pop, Alert, Go
  <2>2. Len(pool') = Len(pool) - 1
    BY <1>1, <1>12 DEF Pop
  <2>3. Cardinality(Alert') = Cardinality(Alert) - 1
    BY <2>1, AlertCounts
  <2>4. \A u \in Threads : pc'[u] # "wait.block"
    BY <1>1, <1>4, <1>12 DEF Pop, Holding, Go
  <2> QED BY <1>1, <1>2, <1>5, <1>n, <2>1, <2>2, <2>3, <2>4
<1>13. ASSUME NEW t \in Threads, Block(t) PROVE WakeupInv'
  <2>1. pool' = <<>> /\ Alert' = Alert
    BY <1>1, <1>3, <1>13 DEF Block, Alert, Go
  <2> QED BY <1>5, <1>n, <2>1
<1>14. ASSUME NEW t \in Threads, SpuriousWakeup(t) PROVE WakeupInv'
  <2>1. t \in Threads /\ Go(t, "wait.wake") /\ UNCHANGED pool /\ t \notin Alert
    BY <1>14 DEF SpuriousWakeup, Threads, Alert
  <2> QED BY <1>6, <2>1
<1>15. ASSUME NEW t \in Threads, Push(t) PROVE WakeupInv'
  <2>1. Alert' = Alert \cup {t} /\ t \notin Alert /\ Asleep' = Asleep
    BY <1>1, <1>15 DEF Push, Alert, Go
  <2>2. arg[t] \in Services
    BY <1>15 DEF Push, IInv, ArgLabels, TypeOK
  <2>3. Len(pool') = Len(pool) + 1
    BY <1>1, <1>15, <2>2 DEF Push
  <2>4. Cardinality(Alert') = Cardinality(Alert) + 1
    BY <2>1, AlertCounts
  <2>5. \A u \in Threads : pc'[u] # "wait.block"
    BY <1>1, <1>4, <1>15 DEF Push, Holding, Go
  <2> QED BY <1>1, <1>2, <1>5, <1>n, <2>1, <2>3, <2>4, <2>5
<1>16. ASSUME NEW t \in Threads, Signal(t) PROVE WakeupInv'
  <2>0. pc[t] = "free.signal" /\ t \in Alert /\ UNCHANGED pool
    BY <1>16 DEF Signal, Alert
  <2>1. CASE Asleep = {}
    <3>1. pc' = [pc EXCEPT ![t] = "free.leave"]
      BY <1>16, <2>1 DEF Signal, Go
    <3>2. Asleep' = {} /\ \A u \in Threads : pc'[u] = "wait.block" => pc[u] = "wait.block"
      BY <1>1, <2>1, <3>1
    <3> QED BY <1>3, <1>5, <2>0, <3>2
  <2>2. CASE Asleep # {}
    <3>1. PICK w \in Asleep : pc' = [pc EXCEPT ![t] = "free.leave", ![w] = "wait.wake"]
      BY <1>16, <2>2 DEF Signal
    <3>2. w \in Threads /\ w \notin Alert /\ w # t
      BY <2>0 DEF Alert
    <3>3. /\ Alert' = (Alert \ {t}) \cup {w}
          /\ \A u \in Threads : pc'[u] = "wait.block" => pc[u] = "wait.block"
      BY <1>1, <2>0, <3>1, <3>2 DEF Alert
    <3>4. Cardinality(Alert') = Cardinality(Alert)
      BY <2>0, <3>2, <3>3, AlertCounts
    <3> QED BY <1>2, <1>3, <1>5, <2>0, <2>2, <3>3, <3>4
  <2> QED BY <2>1, <2>2
<1>17. CASE UNCHANGED vars
  BY <1>17 DEF vars, WakeupInv, NoLostWakeup
<1> QED
  BY <1>7, <1>8, <1>9, <1>10, <1>11, <1>12, <1>13, <1>14, <1>15, <1>16, <1>17 DEF Next, Step

(* As long as a getter sleeps, each service in the queue is spoken for, for  *)
(* any finite number of threads: freeService signals once for each push, and *)
(* nobody goes to sleep but on an empty queue (servicepool.cpp 18-19, 29-30). *)
THEOREM WakeupsCorrect == ASSUME IsFiniteSet(Threads) PROVE Spec => []NoLostWakeup
<1>1. Init => WakeupInv
  BY DEF Init, WakeupInv, NoLostWakeup
<1>2. IInv /\ WakeupInv /\ [Next]_vars => WakeupInv'
  BY WakeupStep
<1>3. WakeupInv => NoLostWakeup
  BY DEF WakeupInv
<1> QED BY <1>1, <1>2, <1>3, InductiveInvariant, PTL DEF Spec

(* The pool implements the abstract store: getService takes the oldest       *)
(* service at its pop, freeService returns one at its push, and nothing      *)
(* else that a thread does is visible (servicepool.cpp 20-21, 29).           *)
THEOREM Implementation == Spec => ImplementsPool
<1>1. Init => Abstract!Init
  <2>1. Init => pool \in Seq(Services)
    BY InitInvariant DEF IInv, TypeOK
  <2>2. Abstract!IsInjective(pool) <=> IsInjective(pool)
    BY DEF IsInjective, Abstract!IsInjective
  <2>3. Abstract!Range(pool) = Range(pool)
    BY DEF Range, Abstract!Range
  <2> QED BY <2>1, <2>2, <2>3 DEF Init, Abstract!Init
<1>2. IInv /\ [Next]_vars => [Abstract!Next]_(Abstract!vars)
  <2> SUFFICES ASSUME IInv, [Next]_vars PROVE [Abstract!Next]_(Abstract!vars)
    OBVIOUS
  <2>1. pool \in Seq(Services) /\ IsInjective(pool) /\ ArgLabels /\ Accounting
    BY DEF IInv, TypeOK, Accounting
  <2>2. ASSUME pool' = pool PROVE UNCHANGED Abstract!vars
    BY <2>2 DEF Abstract!vars
  <2>3. ASSUME NEW t \in Threads, Pop(t) PROVE Abstract!Acquire
    <3>1. Range(pool') = Range(pool) \ {Head(pool)} /\ Head(pool) \in Range(pool)
      BY <2>1, <2>3, TailOfInjective DEF Pop
    <3>2. Range(pool) \subseteq Services
      BY <2>1 DEF Accounting
    <3> QED BY <2>3, <3>1, <3>2 DEF Pop, Abstract!Acquire
  <2>4. ASSUME NEW t \in Threads, Push(t) PROVE \E svc \in Services : Abstract!Release(svc)
    <3>1. arg[t] \in Services /\ t \in Carried
      BY <2>4 DEF Push, IInv, ArgLabels, TypeOK, Carried
    <3>2. arg[t] \notin Range(pool)
      BY <2>1, <3>1 DEF Accounting
    <3>3. Range(pool') = Range(pool) \cup {arg[t]} /\ pool' = Append(pool, arg[t])
      BY <2>1, <2>4, <3>1, <3>2, AppendToInjective DEF Push
    <3>4. Abstract!Release(arg[t])
      BY <3>1, <3>2, <3>3 DEF Abstract!Release
    <3> QED BY <3>1, <3>4
  <2> QED
    BY <2>2, <2>3, <2>4
    DEF Next, Step, vars, Abstract!Next, GetCall, FreeCall, EnterMutex, LeaveMutex,
        TestEmpty, Block, SpuriousWakeup, Signal
<1> QED BY <1>1, <1>2, InductiveInvariant, PTL DEF Spec, ImplementsPool, Abstract!Spec
=============================================================================
