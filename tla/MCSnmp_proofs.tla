------------------------------ MODULE MCSnmp_proofs ------------------------------
(* What the thread pools of agent++ and the message queue of snmp++           *)
(* guarantee for any number of managers, tasks, requests and retries.         *)
EXTENDS MCSnmp, MibRequests_proofs, FiniteSetTheorems, Sequences

(* The pool: a caller that looks for a manager has a task in its hand, and so  *)
(* has one that waits or begins, except the runner, which begins without one.  *)
PoolInv ==
    /\ TP!TypeOK
    /\ runs \in [Tasks -> Nat]
    /\ queued \in BOOLEAN
    /\ tppc \in [TP!Assigners -> {"start", "look", "set", "relock", "wait", "woken", "done"}]
    /\ ~queued => tppc[Runner] = "done"
    /\ tppc[Runner] \in {"start", "wait", "woken"} => hand[Runner] = None
    /\ \A a \in Tasks : tppc[a] \in {"start", "wait", "woken"} => hand[a] # None
    /\ \A a \in TP!Assigners :
          /\ tppc[a] \in {"look", "set"} => hand[a] # None
          /\ tppc[a] \in {"set", "relock"} => tpat[a] <= Size
    /\ \A m \in TP!Managers : mpc[m] = "run" => task[m] # None

(* 1 for a k, 0 for anything else. *)
Same(v, k) == IF v = k THEN 1 ELSE 0

(* How often f has the value k on S. *)
Count(f, S, k) == Cardinality({y \in S : f[y] = k})

\* Counting in a finite set gives a number.
LEMMA CountNat ==
    ASSUME NEW S, IsFiniteSet(S), NEW f, NEW k
    PROVE  Count(f, S, k) \in Nat /\ IsFiniteSet({y \in S : f[y] = k})
BY FS_Subset, FS_CardinalityType DEF Count

(* A count after one value of the function has changed. *)
LEMMA CountUpdated ==
    \A S, f, g, k : IsFiniteSet(S) => \A z \in S :
        (\A y \in S : y # z => g[y] = f[y])
            => Count(g, S, k) = Count(f, S, k) - Same(f[z], k) + Same(g[z], k)
<1> SUFFICES ASSUME NEW S, NEW f, NEW g, NEW k, IsFiniteSet(S), NEW z \in S,
                    \A y \in S : y # z => g[y] = f[y]
             PROVE  Count(g, S, k) = Count(f, S, k) - Same(f[z], k) + Same(g[z], k)
  OBVIOUS
<1> DEFINE F == {y \in S : f[y] = k}
           G == {y \in S : g[y] = k}
<1>1. IsFiniteSet(F) /\ Cardinality(F) \in Nat
  BY FS_Subset, FS_CardinalityType
<1>2. \A y \in S : y # z => g[y] = f[y]
  OBVIOUS
<1>3. SUFFICES Cardinality(G) = Cardinality(F) - Same(f[z], k) + Same(g[z], k)
  BY DEF Count
<1>4. CASE f[z] = k /\ g[z] = k
  <2>1. G = F
    BY <1>2, <1>4
  <2> HIDE DEF F, G
  <2> QED BY <1>1, <1>4, <2>1 DEF Same
<1>5. CASE f[z] = k /\ g[z] # k
  <2>1. G = F \ {z} /\ z \in F
    BY <1>2, <1>5
  <2> HIDE DEF F, G
  <2>2. Cardinality(F \ {z}) = Cardinality(F) - 1
    BY <1>1, <2>1, FS_RemoveElement
  <2> QED BY <1>1, <1>5, <2>1, <2>2 DEF Same
<1>6. CASE f[z] # k /\ g[z] = k
  <2>1. G = F \cup {z} /\ z \notin F
    BY <1>2, <1>6
  <2> HIDE DEF F, G
  <2>2. Cardinality(F \cup {z}) = Cardinality(F) + 1
    BY <1>1, <2>1, FS_AddElement
  <2> QED BY <1>1, <1>6, <2>1, <2>2 DEF Same
<1>7. CASE f[z] # k /\ g[z] # k
  <2>1. G = F
    BY <1>2, <1>7
  <2> HIDE DEF F, G
  <2> QED BY <1>1, <1>7, <2>1 DEF Same
<1> QED BY <1>4, <1>5, <1>6, <1>7

(* The elements of a queue that are k, after one came in. *)
LEMMA CountAppended ==
    ASSUME NEW T, NEW q \in Seq(T), NEW e \in T, NEW k
    PROVE  Count(Append(q, e), DOMAIN Append(q, e), k) = Count(q, DOMAIN q, k) + Same(e, k)
<1> DEFINE n == Len(q) + 1
           F == {y \in DOMAIN q : q[y] = k}
           G == {y \in DOMAIN Append(q, e) : Append(q, e)[y] = k}
<1>1. /\ DOMAIN q = 1 .. Len(q) /\ Len(q) \in Nat /\ n \notin 1 .. Len(q)
      /\ DOMAIN Append(q, e) = (1 .. Len(q)) \cup {n} /\ Append(q, e)[n] = e
      /\ \A y \in 1 .. Len(q) : Append(q, e)[y] = q[y]
  OBVIOUS
<1> HIDE DEF n
<1>2. IsFiniteSet(1 .. Len(q))
  BY <1>1, FS_Interval
<1>3. IsFiniteSet(F) /\ Cardinality(F) \in Nat
  BY <1>1, <1>2, FS_Subset, FS_CardinalityType
<1>4. SUFFICES Cardinality(G) = Cardinality(F) + Same(e, k)
  BY DEF Count
<1>5. CASE e = k
  <2>1. G = F \cup {n} /\ n \notin F
    BY <1>1, <1>5
  <2> HIDE DEF F, G
  <2>2. Cardinality(F \cup {n}) = Cardinality(F) + 1
    BY <1>3, <2>1, FS_AddElement
  <2> QED BY <1>5, <2>1, <2>2 DEF Same
<1>6. CASE e # k
  <2>1. G = F
    BY <1>1, <1>6
  <2> HIDE DEF F, G
  <2> QED BY <1>3, <1>6, <2>1 DEF Same
<1> QED BY <1>5, <1>6

(* And after the first was taken out. *)
LEMMA CountTail ==
    ASSUME NEW T, NEW q \in Seq(T), q # <<>>, NEW k
    PROVE  Count(Tail(q), DOMAIN Tail(q), k) = Count(q, DOMAIN q, k) - Same(Head(q), k)
<1> DEFINE F == {y \in 1 .. Len(q) : q[y] = k}
           G == {y \in 1 .. Len(q) - 1 : q[y + 1] = k}
           R == F \ {1}
           up == [y \in G |-> y + 1]
<1>1. /\ DOMAIN q = 1 .. Len(q) /\ Len(q) \in Nat \ {0} /\ Head(q) = q[1]
      /\ DOMAIN Tail(q) = 1 .. Len(q) - 1
      /\ \A y \in 1 .. Len(q) - 1 : Tail(q)[y] = q[y + 1]
  OBVIOUS
<1>2. IsFiniteSet(F) /\ Cardinality(F) \in Nat /\ IsFiniteSet(R) /\ IsFiniteSet(G)
  <2>1. IsFiniteSet(1 .. Len(q)) /\ IsFiniteSet(1 .. Len(q) - 1)
    BY <1>1, FS_Interval
  <2> QED BY <2>1, FS_Subset, FS_CardinalityType
<1>3. up \in Bijection(G, R)
  <2>1. up \in [G -> R]
    BY <1>1
  <2>2. \A y, z \in G : up[y] = up[z] => y = z
    BY <1>1
  <2>3. \A z \in R : \E y \in G : up[y] = z
    <3> TAKE z \in R
    <3>1. z - 1 \in G /\ (z - 1) + 1 = z
      BY <1>1
    <3> QED BY <3>1
  <2> HIDE DEF up, G, R
  <2>4. up \in Injection(G, R)
    BY <2>1, <2>2 DEF Injection, IsInjective
  <2>5. up \in Surjection(G, R)
    BY <2>1, <2>3 DEF Surjection
  <2> QED BY <2>4, <2>5 DEF Bijection
<1>4. Cardinality(G) = Cardinality(R)
  BY <1>2, <1>3, FS_Bijection DEF ExistsBijection
<1>5. Cardinality(R) = Cardinality(F) - Same(q[1], k)
  <2>1. 1 \in F <=> q[1] = k
    BY <1>1
  <2> HIDE DEF F
  <2>2. Cardinality(R) = IF 1 \in F THEN Cardinality(F) - 1 ELSE Cardinality(F)
    BY <1>2, FS_RemoveElement
  <2> QED BY <1>2, <2>1, <2>2 DEF Same
<1>6. {y \in DOMAIN Tail(q) : Tail(q)[y] = k} = G
  BY <1>1
<1>7. {y \in DOMAIN q : q[y] = k} = F
  BY <1>1
<1> HIDE DEF F, G, R
<1> QED BY <1>1, <1>4, <1>5, <1>6, <1>7 DEF Count
--------------------------------------------------------------------------------
\* Finitely many callers of assign(): the tasks' callers and the queue's thread.
LEMMA AssignersFinite ==
    /\ IsFiniteSet(TP!Assigners) /\ IsFiniteSet(TP!Managers)
    /\ Runner \in TP!Assigners /\ Tasks \subseteq TP!Assigners
    /\ \A a \in TP!Assigners : a = Runner \/ a \in Tasks
<1>1. IsFiniteSet(TP!Assigners)
  BY TasksFinite, FS_AddElement DEF TP!Assigners
<1>2. IsFiniteSet(TP!Managers)
  <2>1. 1 \in Int /\ Size \in Int
    BY SizeNat
  <2> QED BY <2>1, FS_Interval DEF TP!Managers
<1> QED BY <1>1, <1>2 DEF TP!Assigners

(* The pool's module counts with the Cardinality of the theorems. *)
LEMMA SameCardinality == \A S : TP!Cardinality(S) = Cardinality(S)
BY DEF TP!Cardinality, Cardinality

(* The places of a task, as counts of three functions. *)
LEMMA PlacesAre ==
    \A k : /\ TP!Places(k) = Count(hand, TP!Assigners, k) + Count(tpqueue, DOMAIN tpqueue, k)
                             + Count(task, TP!Managers, k)
           /\ TP!Places(k)' = Count(hand', TP!Assigners, k) + Count(tpqueue', DOMAIN tpqueue', k)
                              + Count(task', TP!Managers, k)
BY SameCardinality DEF TP!Places, Count

(* The counts after somebody's hand has changed, or a manager's task. *)
LEMMA HandCount ==
    ASSUME PoolInv, NEW a \in TP!Assigners, NEW v, hand' = [hand EXCEPT ![a] = v], NEW k
    PROVE  Count(hand', TP!Assigners, k) = Count(hand, TP!Assigners, k) - Same(hand[a], k) + Same(v, k)
<1>1. \A y \in TP!Assigners : hand'[y] = IF y = a THEN v ELSE hand[y]
  BY DEF PoolInv, TP!TypeOK
<1>2. IsFiniteSet(TP!Assigners)
  BY AssignersFinite
<1>3. hand'[a] = v /\ \A y \in TP!Assigners : y # a => hand'[y] = hand[y]
  BY <1>1
<1>4. PICK S : S = TP!Assigners
  OBVIOUS
<1>5. PICK f, g : f = hand /\ g = hand'
  OBVIOUS
<1>6. \A z \in S : (\A y \in S : y # z => g[y] = f[y])
                     => Count(g, S, k) = Count(f, S, k) - Same(f[z], k) + Same(g[z], k)
  BY <1>2, <1>4, CountUpdated
<1>7. Count(g, S, k) = Count(f, S, k) - Same(f[a], k) + Same(g[a], k)
  BY <1>3, <1>4, <1>5, <1>6
<1> QED BY <1>3, <1>4, <1>5, <1>7

\* A manager that changes its task changes the count of both tasks by one.
LEMMA TaskCount ==
    ASSUME PoolInv, NEW m \in TP!Managers, NEW v, task' = [task EXCEPT ![m] = v], NEW k
    PROVE  Count(task', TP!Managers, k) = Count(task, TP!Managers, k) - Same(task[m], k) + Same(v, k)
<1>1. \A y \in TP!Managers : task'[y] = IF y = m THEN v ELSE task[y]
  BY DEF PoolInv, TP!TypeOK
<1>2. IsFiniteSet(TP!Managers)
  BY AssignersFinite
<1>3. task'[m] = v /\ \A y \in TP!Managers : y # m => task'[y] = task[y]
  BY <1>1
<1>4. PICK S : S = TP!Managers
  OBVIOUS
<1>5. PICK f, g : f = task /\ g = task'
  OBVIOUS
<1>6. \A z \in S : (\A y \in S : y # z => g[y] = f[y])
                     => Count(g, S, k) = Count(f, S, k) - Same(f[z], k) + Same(g[z], k)
  BY <1>2, <1>4, CountUpdated
<1>7. Count(g, S, k) = Count(f, S, k) - Same(f[m], k) + Same(g[m], k)
  BY <1>3, <1>4, <1>5, <1>6
<1> QED BY <1>3, <1>4, <1>5, <1>7

\* Each place where a task can be holds a number of copies of it.
LEMMA PlacesNat ==
    ASSUME TP!TypeOK, NEW k
    PROVE  /\ Count(hand, TP!Assigners, k) \in Nat /\ Count(task, TP!Managers, k) \in Nat
           /\ Count(tpqueue, DOMAIN tpqueue, k) \in Nat
<1>1. IsFiniteSet(DOMAIN tpqueue)
  BY FS_Interval DEF TP!TypeOK
<1> QED BY <1>1, CountNat, AssignersFinite

(* A task that goes from one's hand to a manager, or to the queue. *)
LEMMA SetTaskConserves ==
    ASSUME PoolInv, TasksConserved, NEW a \in TP!Assigners, TP!SetTask(a)
    PROVE  TasksConserved'
<1> DEFINE m == tpat[a]
<1>1. hand[a] \in Tasks /\ m \in TP!Managers
  BY SizeNat DEF PoolInv, TP!TypeOK, TP!SetTask, TP!Managers
<1>2. CASE task[m] # None
  <2>1. UNCHANGED <<hand, task, tpqueue, runs>>
    BY <1>2 DEF TP!SetTask
  <2> QED BY <2>1, PlacesAre DEF TasksConserved, TP!TasksConserved
<1>3. CASE task[m] = None
  <2>1. /\ hand' = [hand EXCEPT ![a] = None] /\ task' = [task EXCEPT ![m] = hand[a]]
        /\ UNCHANGED <<tpqueue, runs>>
    BY <1>3 DEF TP!SetTask
  <2> SUFFICES ASSUME NEW k \in Tasks PROVE TP!Places(k)' = TP!Places(k)
    BY <2>1 DEF TasksConserved, TP!TasksConserved
  <2>2. Count(hand', TP!Assigners, k) = Count(hand, TP!Assigners, k) - Same(hand[a], k) + Same(None, k)
    BY <2>1, HandCount, AssignersFinite
  <2>3. Count(task', TP!Managers, k) = Count(task, TP!Managers, k) - Same(task[m], k) + Same(hand[a], k)
    <3> HIDE DEF m
    <3> QED BY <1>1, <2>1, TaskCount
  <2>4. Same(None, k) = 0 /\ Same(task[m], k) = 0 /\ Same(hand[a], k) \in Nat
    BY <1>3, PoolNames DEF Same
  <2>5. /\ Count(hand, TP!Assigners, k) \in Nat /\ Count(task, TP!Managers, k) \in Nat
        /\ Count(tpqueue, DOMAIN tpqueue, k) \in Nat
    BY PlacesNat DEF PoolInv
  <2>6. TP!Places(k) = Count(hand, TP!Assigners, k) + Count(tpqueue, DOMAIN tpqueue, k) + Count(task, TP!Managers, k)
    BY PlacesAre
  <2>7. TP!Places(k)' = Count(hand', TP!Assigners, k) + Count(tpqueue', DOMAIN tpqueue', k) + Count(task', TP!Managers, k)
    BY PlacesAre
  <2> QED BY <2>1, <2>2, <2>3, <2>4, <2>5, <2>6, <2>7
<1> QED BY <1>2, <1>3

\* QueuedThreadPool::execute moves the task from its caller to the queue.
LEMMA EnqueueConserves ==
    ASSUME PoolInv, TasksConserved, NEW a \in TP!Assigners, TP!Enqueue(a)
    PROVE  TasksConserved'
<1>1. hand[a] \in Tasks
  BY DEF PoolInv, TP!TypeOK, TP!Enqueue
<1>2. /\ hand' = [hand EXCEPT ![a] = None] /\ tpqueue' = Append(tpqueue, hand[a])
      /\ UNCHANGED <<task, runs>>
  BY DEF TP!Enqueue
<1> SUFFICES ASSUME NEW k \in Tasks PROVE TP!Places(k)' = TP!Places(k)
  BY <1>2 DEF TasksConserved, TP!TasksConserved
<1>3. Count(hand', TP!Assigners, k) = Count(hand, TP!Assigners, k) - Same(hand[a], k) + Same(None, k)
  BY <1>2, HandCount
<1>4. Count(tpqueue', DOMAIN tpqueue', k) = Count(tpqueue, DOMAIN tpqueue, k) + Same(hand[a], k)
  BY <1>1, <1>2, CountAppended DEF PoolInv, TP!TypeOK
<1>5. Same(None, k) = 0 /\ Same(hand[a], k) \in Nat
  BY PoolNames DEF Same
<1>6. /\ Count(hand, TP!Assigners, k) \in Nat /\ Count(task, TP!Managers, k) \in Nat
      /\ Count(tpqueue, DOMAIN tpqueue, k) \in Nat
  BY PlacesNat DEF PoolInv
<1>7. TP!Places(k) = Count(hand, TP!Assigners, k) + Count(tpqueue, DOMAIN tpqueue, k) + Count(task, TP!Managers, k)
  BY PlacesAre
<1>8. TP!Places(k)' = Count(hand', TP!Assigners, k) + Count(tpqueue', DOMAIN tpqueue', k) + Count(task', TP!Managers, k)
  BY PlacesAre
<1> QED BY <1>2, <1>3, <1>4, <1>5, <1>6, <1>7, <1>8

\* The queue's thread takes the first task in its hand.
LEMMA RunQueueConserves ==
    ASSUME PoolInv, TasksConserved, TP!RunQueue
    PROVE  TasksConserved'
<1>1. CASE tpqueue = <<>>
  <2>1. UNCHANGED <<hand, task, tpqueue, runs>>
    BY <1>1 DEF TP!RunQueue
  <2> QED BY <2>1, PlacesAre DEF TasksConserved, TP!TasksConserved
<1>2. CASE tpqueue # <<>>
  <2>1. /\ hand' = [hand EXCEPT ![Runner] = Head(tpqueue)] /\ tpqueue' = Tail(tpqueue)
        /\ UNCHANGED <<task, runs>> /\ hand[Runner] = None
    BY <1>2 DEF TP!RunQueue, PoolInv
  <2> SUFFICES ASSUME NEW k \in Tasks PROVE TP!Places(k)' = TP!Places(k)
    BY <2>1 DEF TasksConserved, TP!TasksConserved
  <2>2. Count(hand', TP!Assigners, k)
          = Count(hand, TP!Assigners, k) - Same(hand[Runner], k) + Same(Head(tpqueue), k)
    BY <2>1, HandCount, AssignersFinite
  <2>3. Count(tpqueue', DOMAIN tpqueue', k) = Count(tpqueue, DOMAIN tpqueue, k) - Same(Head(tpqueue), k)
    BY <1>2, <2>1, CountTail DEF PoolInv, TP!TypeOK
  <2>4. Same(hand[Runner], k) = 0 /\ Same(Head(tpqueue), k) \in Nat
    BY <2>1, PoolNames DEF Same
  <2>5. /\ Count(hand, TP!Assigners, k) \in Nat /\ Count(task, TP!Managers, k) \in Nat
        /\ Count(tpqueue, DOMAIN tpqueue, k) \in Nat
    BY PlacesNat DEF PoolInv
  <2>6. TP!Places(k) = Count(hand, TP!Assigners, k) + Count(tpqueue, DOMAIN tpqueue, k) + Count(task, TP!Managers, k)
    BY PlacesAre
  <2>7. TP!Places(k)' = Count(hand', TP!Assigners, k) + Count(tpqueue', DOMAIN tpqueue', k) + Count(task', TP!Managers, k)
    BY PlacesAre
  <2> QED BY <2>1, <2>2, <2>3, <2>4, <2>5, <2>6, <2>7
<1> QED BY <1>1, <1>2

\* A manager has run its task.
LEMMA RunTaskConserves ==
    ASSUME PoolInv, TasksConserved, NEW m \in TP!Managers, TP!RunTask(m)
    PROVE  TasksConserved'
<1>1. /\ task[m] \in Tasks /\ task' = [task EXCEPT ![m] = None]
      /\ runs' = [runs EXCEPT ![task[m]] = @ + 1] /\ UNCHANGED <<hand, tpqueue>>
  BY DEF PoolInv, TP!TypeOK, TP!RunTask
<1> SUFFICES ASSUME NEW k \in Tasks PROVE TP!Places(k)' + runs'[k] = TP!Places(k) + runs[k]
  BY DEF TasksConserved, TP!TasksConserved
<1>2. Count(task', TP!Managers, k) = Count(task, TP!Managers, k) - Same(task[m], k) + Same(None, k)
  BY <1>1, TaskCount
<1>3. Same(None, k) = 0 /\ runs'[k] = runs[k] + Same(task[m], k) /\ runs[k] \in Nat /\ Same(task[m], k) \in Nat
  BY <1>1, PoolNames DEF Same, PoolInv
<1>4. /\ Count(hand, TP!Assigners, k) \in Nat /\ Count(task, TP!Managers, k) \in Nat
      /\ Count(tpqueue, DOMAIN tpqueue, k) \in Nat
  BY PlacesNat DEF PoolInv
<1>5. TP!Places(k) = Count(hand, TP!Assigners, k) + Count(tpqueue, DOMAIN tpqueue, k) + Count(task, TP!Managers, k)
  BY PlacesAre
<1>6. TP!Places(k)' = Count(hand', TP!Assigners, k) + Count(tpqueue', DOMAIN tpqueue', k) + Count(task', TP!Managers, k)
  BY PlacesAre
<1> QED BY <1>1, <1>2, <1>3, <1>4, <1>5, <1>6
--------------------------------------------------------------------------------
\* At the start every task is in its caller's hand.
LEMMA PoolInit == TP!Init => PoolInv /\ TasksConserved
<1> SUFFICES ASSUME TP!Init PROVE PoolInv /\ TasksConserved
  OBVIOUS
<1>1. \A a \in TP!Assigners : hand[a] = IF a = Runner THEN None ELSE a
  BY DEF TP!Init
<1>2. PoolInv
  <2>1. TP!TypeOK
    BY <1>1, SizeNat, AssignersFinite DEF TP!Init, TP!TypeOK, TP!Managers
  <2>2. /\ runs \in [Tasks -> Nat] /\ queued \in BOOLEAN
        /\ tppc \in [TP!Assigners -> {"start", "look", "set", "relock", "wait", "woken", "done"}]
        /\ ~queued => tppc[Runner] = "done"
        /\ \A m \in TP!Managers : mpc[m] # "run"
    BY AssignersFinite DEF TP!Init
  <2>3. \A a \in TP!Assigners : tppc[a] \in {"start", "done"}
    BY DEF TP!Init
  <2>4. hand[Runner] = None /\ \A a \in Tasks : hand[a] # None
    BY <1>1, AssignersFinite, PoolNames
  <2> QED BY <2>1, <2>2, <2>3, <2>4 DEF PoolInv
<1>3. ASSUME NEW k \in Tasks PROVE TP!Places(k) + runs[k] = 1
  <2>1. {y \in TP!Assigners : hand[y] = k} = {k}
    BY <1>1, AssignersFinite, PoolNames
  <2>2. {y \in DOMAIN tpqueue : tpqueue[y] = k} = {} /\ {y \in TP!Managers : task[y] = k} = {}
    BY PoolNames DEF TP!Init
  <2>3. /\ TP!Places(k) = Count(hand, TP!Assigners, k) + Count(tpqueue, DOMAIN tpqueue, k)
                          + Count(task, TP!Managers, k)
        /\ runs[k] = 0
    BY PlacesAre DEF TP!Init
  <2>4. /\ Count(hand, TP!Assigners, k) = 1
        /\ Count(tpqueue, DOMAIN tpqueue, k) = 0 /\ Count(task, TP!Managers, k) = 0
    BY <2>1, <2>2, FS_EmptySet, FS_Singleton DEF Count
  <2> QED BY <2>3, <2>4
<1> QED BY <1>2, <1>3 DEF TasksConserved, TP!TasksConserved

(* Every step of the pool keeps the invariant. *)
LEMMA PoolStep == PoolInv /\ TP!Next => PoolInv'
<1> SUFFICES ASSUME PoolInv, TP!Next PROVE PoolInv'
  OBVIOUS
<1> USE AssignersFinite, PoolNames
<1>1. ASSUME NEW m \in TP!Managers, TP!ManagerLoop(m) \/ TP!ManagerWakes(m) PROVE PoolInv'
  BY <1>1 DEF PoolInv, TP!TypeOK, TP!ManagerLoop, TP!ManagerWakes
<1>2. ASSUME NEW m \in TP!Managers, TP!RunTask(m) PROVE PoolInv'
  <2>1. task[m] \in Tasks
    BY <1>2 DEF PoolInv, TP!TypeOK, TP!RunTask
  <2> QED BY <1>2, <2>1 DEF PoolInv, TP!TypeOK, TP!RunTask
<1>3. ASSUME NEW m \in TP!Managers, TP!IdleNotification(m) PROVE PoolInv'
  <2>1. CASE TP!Waiters = {}
    BY <1>3, <2>1 DEF PoolInv, TP!TypeOK, TP!IdleNotification, TP!Notify
  <2>2. CASE TP!Waiters # {}
    <3>1. PICK w \in TP!Assigners : tppc[w] = "wait" /\ tppc' = [tppc EXCEPT ![w] = "woken"]
      BY <1>3, <2>2 DEF TP!IdleNotification, TP!Notify, TP!Goto, TP!Waiters
    <3> QED BY <1>3, <3>1 DEF PoolInv, TP!TypeOK, TP!IdleNotification
  <2> QED BY <2>1, <2>2
<1>4. ASSUME NEW a \in TP!Assigners, TP!Execute(a) PROVE PoolInv'
  BY <1>4, SizeNat DEF PoolInv, TP!TypeOK, TP!Execute, TP!Goto
<1>5. ASSUME NEW a \in TP!Assigners, TP!LookAt(a) PROVE PoolInv'
  <2>1. CASE task[tpat[a]] = None
    <3>1. /\ tppc' = [tppc EXCEPT ![a] = "set"] /\ lock' = None
          /\ UNCHANGED <<queued, task, mpc, tpat, hand, tpqueue, runs>>
          /\ tppc[a] = "look" /\ tpat[a] <= Size
      BY <1>5, <2>1 DEF TP!LookAt, TP!Goto
    <3> QED BY <3>1 DEF PoolInv, TP!TypeOK
  <2>2. CASE task[tpat[a]] # None
    <3>1. /\ tpat' = [tpat EXCEPT ![a] = tpat[a] + 1]
          /\ UNCHANGED <<queued, task, mpc, lock, tppc, hand, tpqueue, runs>>
          /\ tppc[a] = "look" /\ tpat[a] <= Size
      BY <1>5, <2>2 DEF TP!LookAt
    <3>2. tpat[a] + 1 \in 1 .. Size + 1
      BY <3>1, SizeNat DEF PoolInv, TP!TypeOK
    <3> QED BY <3>1, <3>2 DEF PoolInv, TP!TypeOK
  <2> QED BY <2>1, <2>2
<1>6. ASSUME NEW a \in TP!Assigners, TP!SetTask(a) PROVE PoolInv'
  <2>1. tpat[a] \in TP!Managers /\ hand[a] \in Tasks
    BY <1>6, SizeNat DEF PoolInv, TP!TypeOK, TP!SetTask, TP!Managers
  <2>2. CASE task[tpat[a]] = None
    <3>1. /\ task' = [task EXCEPT ![tpat[a]] = hand[a]] /\ hand' = [hand EXCEPT ![a] = None]
          /\ mpc' = [mpc EXCEPT ![tpat[a]] = IF @ = "wait" THEN "woken" ELSE @]
          /\ tppc' = [tppc EXCEPT ![a] = IF queued THEN "relock" ELSE "done"]
          /\ UNCHANGED <<queued, lock, tpat, tpqueue, runs>>
          /\ tppc[a] = "set" /\ mpc[tpat[a]] # "run"
      BY <1>6, <2>2 DEF TP!SetTask, TP!Goto, TP!Locked
    <3>2. TP!TypeOK'
      BY <2>1, <3>1 DEF PoolInv, TP!TypeOK
    <3>3. \A n \in TP!Managers : mpc'[n] = "run" => task'[n] # None
      BY <2>1, <3>1 DEF PoolInv, TP!TypeOK
    <3>4. /\ tpat[a] <= Size
          /\ \A b \in TP!Assigners : hand'[b] = IF b = a THEN None ELSE hand[b]
          /\ \A b \in TP!Assigners :
                tppc'[b] = IF b = a THEN (IF queued THEN "relock" ELSE "done") ELSE tppc[b]
          /\ tppc' \in [TP!Assigners -> {"start", "look", "set", "relock", "wait", "woken", "done"}]
      BY <3>1 DEF PoolInv, TP!TypeOK
    <3> QED BY <3>1, <3>2, <3>3, <3>4 DEF PoolInv
  <2>3. CASE task[tpat[a]] # None
    BY <1>6, <2>1, <2>3 DEF PoolInv, TP!TypeOK, TP!SetTask, TP!Goto
  <2> QED BY <2>2, <2>3
<1>7. ASSUME NEW a \in TP!Assigners, TP!Relock(a) PROVE PoolInv'
  <2>1. CASE hand[a] = None
    <3>1. /\ tppc' = [tppc EXCEPT ![a] = IF a = Runner THEN "wait" ELSE "done"]
          /\ tpat' = [tpat EXCEPT ![a] = 1]
          /\ UNCHANGED <<queued, task, mpc, lock, hand, tpqueue, runs>> /\ tppc[a] = "relock"
      BY <1>7, <2>1 DEF TP!Relock, TP!Goto
    <3> QED BY <2>1, <3>1, SizeNat DEF PoolInv, TP!TypeOK
  <2>2. CASE hand[a] # None
    <3>1. /\ tppc' = [tppc EXCEPT ![a] = "look"] /\ tpat' = [tpat EXCEPT ![a] = tpat[a] + 1]
          /\ lock' = a
          /\ UNCHANGED <<queued, task, mpc, hand, tpqueue, runs>> /\ tppc[a] = "relock"
      BY <1>7, <2>2 DEF TP!Relock, TP!Goto
    <3>2. tpat[a] + 1 \in 1 .. Size + 1
      BY <3>1, SizeNat DEF PoolInv, TP!TypeOK
    <3> QED BY <2>2, <3>1, <3>2 DEF PoolInv, TP!TypeOK
  <2> QED BY <2>1, <2>2
<1>8. ASSUME NEW a \in TP!Assigners, TP!WaitForIdle(a) PROVE PoolInv'
  BY <1>8, SizeNat DEF PoolInv, TP!TypeOK, TP!WaitForIdle, TP!Goto
<1>9. ASSUME NEW a \in TP!Assigners, TP!Enqueue(a) PROVE PoolInv'
  <2> DEFINE next == [tppc EXCEPT ![a] = IF a = Runner THEN "wait" ELSE "done"]
  <2>1. /\ tpqueue' = Append(tpqueue, hand[a]) /\ hand' = [hand EXCEPT ![a] = None] /\ lock' = None
        /\ tpat' = [tpat EXCEPT ![a] = 1] /\ queued /\ tppc[a] = "look"
        /\ UNCHANGED <<queued, task, mpc, runs>> /\ hand[a] \in Tasks
    BY <1>9 DEF PoolInv, TP!TypeOK, TP!Enqueue
  <2>2. TP!TypeOK'
    BY <2>1, SizeNat DEF PoolInv, TP!TypeOK
  <2>3. \A b \in TP!Assigners : hand'[b] = IF b = a THEN None ELSE hand[b]
    BY <2>1 DEF PoolInv, TP!TypeOK
  <2>4. CASE tppc' = next
    BY <2>1, <2>2, <2>3, <2>4, SizeNat DEF PoolInv, TP!TypeOK
  <2>5. ASSUME NEW w \in TP!Waiters, tppc' = [next EXCEPT ![w] = "woken"] PROVE PoolInv'
    <3>1. w \in TP!Assigners /\ tppc[w] = "wait" /\ w # a
      BY <2>1 DEF TP!Waiters
    <3>2. \A b \in TP!Assigners :
            tppc'[b] = IF b = w THEN "woken"
                       ELSE IF b = a THEN (IF a = Runner THEN "wait" ELSE "done") ELSE tppc[b]
      BY <2>5, <3>1 DEF PoolInv
    <3>3. tppc' \in [TP!Assigners -> {"start", "look", "set", "relock", "wait", "woken", "done"}]
      BY <2>5 DEF PoolInv
    <3> HIDE DEF next
    <3> QED BY <2>1, <2>2, <2>3, <3>1, <3>2, <3>3 DEF PoolInv
  <2> QED BY <1>9, <2>4, <2>5 DEF TP!Enqueue
<1>10. ASSUME TP!RunQueue PROVE PoolInv'
  <2>1. CASE tpqueue = <<>>
    <3>1. /\ tppc' = [tppc EXCEPT ![Runner] = "wait"] /\ tpat' = [tpat EXCEPT ![Runner] = 1]
          /\ UNCHANGED <<queued, task, mpc, lock, hand, tpqueue, runs>>
          /\ tppc[Runner] \in {"start", "woken"}
      BY <1>10, <2>1 DEF TP!RunQueue, TP!Goto
    <3> QED BY <3>1, SizeNat DEF PoolInv, TP!TypeOK
  <2>2. CASE tpqueue # <<>>
    <3>1. /\ tppc' = [tppc EXCEPT ![Runner] = "look"] /\ tpat' = [tpat EXCEPT ![Runner] = 1]
          /\ lock' = Runner /\ hand' = [hand EXCEPT ![Runner] = Head(tpqueue)]
          /\ tpqueue' = Tail(tpqueue)
          /\ UNCHANGED <<queued, task, mpc, runs>> /\ tppc[Runner] \in {"start", "woken"}
      BY <1>10, <2>2 DEF TP!RunQueue, TP!Goto
    <3>2. Head(tpqueue) \in Tasks /\ Tail(tpqueue) \in Seq(Tasks)
      BY <2>2 DEF PoolInv, TP!TypeOK
    <3>3. TP!TypeOK'
      BY <3>1, <3>2, SizeNat DEF PoolInv, TP!TypeOK
    <3>4. /\ \A b \in TP!Assigners : hand'[b] = IF b = Runner THEN Head(tpqueue) ELSE hand[b]
          /\ \A b \in TP!Assigners : tppc'[b] = IF b = Runner THEN "look" ELSE tppc[b]
          /\ \A b \in TP!Assigners : tpat'[b] = IF b = Runner THEN 1 ELSE tpat[b]
          /\ tppc' \in [TP!Assigners -> {"start", "look", "set", "relock", "wait", "woken", "done"}]
      BY <3>1 DEF PoolInv, TP!TypeOK
    <3> QED BY <3>1, <3>2, <3>3, <3>4 DEF PoolInv
  <2> QED BY <2>1, <2>2
<1>11. ASSUME NEW a \in TP!Assigners, TP!TimedOut(a) PROVE PoolInv'
  BY <1>11 DEF PoolInv, TP!TypeOK, TP!TimedOut, TP!Goto
<1> QED BY <1>1, <1>2, <1>3, <1>4, <1>5, <1>6, <1>7, <1>8, <1>9, <1>10, <1>11
        DEF TP!Next, TP!ManagerStep, TP!AssignerStep

(* A task changes its place only with SetTask, Enqueue, RunQueue and RunTask. *)
LEMMA PoolConserves == PoolInv /\ TasksConserved /\ TP!Next => TasksConserved'
<1> SUFFICES ASSUME PoolInv, TasksConserved, TP!Next PROVE TasksConserved'
  OBVIOUS
<1>1. ASSUME UNCHANGED <<hand, task, tpqueue, runs>> PROVE TasksConserved'
  BY <1>1, PlacesAre DEF TasksConserved, TP!TasksConserved
<1>2. ASSUME NEW m \in TP!Managers, TP!ManagerStep(m) \/ TP!ManagerWakes(m) PROVE TasksConserved'
  BY <1>1, <1>2, RunTaskConserves
     DEF TP!ManagerStep, TP!ManagerLoop, TP!IdleNotification, TP!ManagerWakes
<1>3. ASSUME NEW a \in TP!Assigners, TP!AssignerStep(a) \/ TP!TimedOut(a) PROVE TasksConserved'
  BY <1>1, <1>3, SetTaskConserves, EnqueueConserves, RunQueueConserves
     DEF TP!AssignerStep, TP!Execute, TP!LookAt, TP!Relock, TP!WaitForIdle, TP!TimedOut
<1> QED BY <1>2, <1>3 DEF TP!Next

(* assign() and set_task() neither lose a task nor give it to two managers,   *)
(* and a manager runs what it was given once, for any number of managers and  *)
(* of callers, with or without a queue.                                       *)
THEOREM TasksCorrect == TP!Spec => []TasksConserved
<1>1. TP!Init => PoolInv /\ TasksConserved
  BY PoolInit
<1>2. PoolInv /\ TasksConserved /\ [TP!Next]_(TP!vars) => (PoolInv /\ TasksConserved)'
  <2>1. PoolInv /\ TasksConserved /\ UNCHANGED TP!vars => (PoolInv /\ TasksConserved)'
    <3> SUFFICES ASSUME PoolInv, TasksConserved, UNCHANGED TP!vars PROVE PoolInv' /\ TasksConserved'
      OBVIOUS
    <3>1. PoolInv'
      BY DEF PoolInv, TP!TypeOK, TP!vars
    <3>2. TasksConserved'
      BY PlacesAre DEF TP!vars, TasksConserved, TP!TasksConserved
    <3> QED BY <3>1, <3>2
  <2> QED BY <2>1, PoolStep, PoolConserves
<1> QED BY <1>1, <1>2, PTL DEF TP!Spec
--------------------------------------------------------------------------------
(* Who still has to do something: a manager with a task is not left waiting,   *)
(* a caller with a task has not returned, the runner of a queued pool goes on, *)
(* and the pool's lock is held by a caller that looks at the managers.         *)
Watched ==
    /\ \A m \in TP!Managers : task[m] # None => mpc[m] # "wait"
    /\ \A a \in TP!Assigners : hand[a] # None => tppc[a] # "done"
    /\ queued => tppc[Runner] # "done"
    /\ tpqueue # <<>> => queued
    /\ lock # None => tppc[lock] = "look"

(* A task that was not run is with a manager that runs or will look, in the    *)
(* hand of a caller that still tries, or in a queue whose runner goes on.      *)
NoTaskForgotten ==
    \A k \in Tasks : runs[k] = 0 =>
        \/ \E m \in TP!Managers : task[m] = k /\ mpc[m] # "wait"
        \/ \E a \in TP!Assigners : hand[a] = k /\ tppc[a] # "done"
        \/ (\E n \in DOMAIN tpqueue : tpqueue[n] = k) /\ tppc[Runner] # "done"

\* A wait for a notification that ends takes nobody off his task.
LEMMA WatchedWaits ==
    ASSUME PoolInv, Watched, NEW w \in TP!Assigners, tppc[w] = "wait",
           tppc' = [tppc EXCEPT ![w] = "woken"],
           mpc' = mpc \/ \E m \in TP!Managers : mpc' = [mpc EXCEPT ![m] = "loop"],
           UNCHANGED <<queued, task, lock, hand, tpqueue>>
    PROVE  Watched'
<1>1. \A a \in TP!Assigners : tppc'[a] = IF a = w THEN "woken" ELSE tppc[a]
  BY DEF PoolInv
<1>2. \A m \in TP!Managers : mpc'[m] = mpc[m] \/ mpc'[m] = "loop"
  BY DEF PoolInv, TP!TypeOK
<1>3. lock \in TP!Assigners \cup {None}
  BY DEF PoolInv, TP!TypeOK
<1>4. \A m \in TP!Managers : task'[m] # None => mpc'[m] # "wait"
  BY <1>2 DEF Watched
<1>5. \A a \in TP!Assigners : hand'[a] # None => tppc'[a] # "done"
  BY <1>1 DEF Watched
<1>6. (queued' => tppc'[Runner] # "done") /\ (tpqueue' # <<>> => queued')
  BY <1>1, AssignersFinite DEF Watched
<1>7. lock' # None => tppc'[lock'] = "look"
  BY <1>1, <1>3 DEF Watched
<1> QED BY <1>4, <1>5, <1>6, <1>7 DEF Watched

\* A caller that moves on, from its own place to another that is not the end
\* unless its hand is empty, and that takes the lock only to look.
LEMMA WatchedCaller ==
    ASSUME PoolInv, Watched, NEW a \in TP!Assigners, NEW v,
           tppc' = [tppc EXCEPT ![a] = v], UNCHANGED <<queued, task, mpc, tpqueue>>,
           hand' = hand \/ hand' = [hand EXCEPT ![a] = None],
           v = "done" => hand'[a] = None /\ ~(queued /\ a = Runner),
           \/ lock' = a /\ v = "look"
           \/ lock' = None
           \/ lock' = lock /\ tppc[a] # "look"
    PROVE  Watched'
<1>1. \A b \in TP!Assigners : tppc'[b] = IF b = a THEN v ELSE tppc[b]
  BY DEF PoolInv
<1>2. \A b \in TP!Assigners : b # a => hand'[b] = hand[b]
  BY DEF PoolInv, TP!TypeOK
<1>3. lock \in TP!Assigners \cup {None}
  BY DEF PoolInv, TP!TypeOK
<1>4. \A m \in TP!Managers : task'[m] # None => mpc'[m] # "wait"
  BY DEF Watched
<1>5. \A b \in TP!Assigners : hand'[b] # None => tppc'[b] # "done"
  BY <1>1, <1>2 DEF Watched
<1>6. (queued' => tppc'[Runner] # "done") /\ (tpqueue' # <<>> => queued')
  BY <1>1, AssignersFinite DEF Watched
<1>7. lock' # None => tppc'[lock'] = "look"
  BY <1>1, <1>3 DEF Watched
<1> QED BY <1>4, <1>5, <1>6, <1>7 DEF Watched

\* set_task() wakes the manager it gives the task to.
LEMMA WatchedSetTask ==
    ASSUME PoolInv, Watched, NEW a \in TP!Assigners, TP!SetTask(a)
    PROVE  Watched'
<1>1. CASE task[tpat[a]] # None
  <2>1. tppc' = [tppc EXCEPT ![a] = "relock"] /\ UNCHANGED <<queued, task, mpc, tpqueue, hand, lock>>
        /\ tppc[a] = "set"
    BY <1>1 DEF TP!SetTask, TP!Goto
  <2> QED BY <2>1, WatchedCaller
<1>2. CASE task[tpat[a]] = None
  <2> DEFINE v == IF queued THEN "relock" ELSE "done"
  <2>1. /\ task' = [task EXCEPT ![tpat[a]] = hand[a]] /\ hand' = [hand EXCEPT ![a] = None]
        /\ mpc' = [mpc EXCEPT ![tpat[a]] = IF @ = "wait" THEN "woken" ELSE @]
        /\ tppc' = [tppc EXCEPT ![a] = v]
        /\ UNCHANGED <<queued, lock, tpqueue>> /\ tppc[a] = "set"
    BY <1>2 DEF TP!SetTask, TP!Goto
  <2>2. \A b \in TP!Assigners : tppc'[b] = (IF b = a THEN v ELSE tppc[b])
    BY <2>1 DEF PoolInv
  <2>3. \A b \in TP!Assigners : hand'[b] = IF b = a THEN None ELSE hand[b]
    BY <2>1 DEF PoolInv, TP!TypeOK
  <2>4. \A m \in TP!Managers : task'[m] # None => mpc'[m] # "wait"
    <3> TAKE m \in TP!Managers
    <3>1. CASE m = tpat[a]
      BY <2>1, <3>1 DEF PoolInv, TP!TypeOK
    <3>2. CASE m # tpat[a]
      <4>1. task'[m] = task[m] /\ mpc'[m] = mpc[m]
        BY <2>1, <3>2 DEF PoolInv, TP!TypeOK
      <4> QED BY <4>1 DEF Watched
    <3> QED BY <3>1, <3>2
  <2>5. \A b \in TP!Assigners : hand'[b] # None => tppc'[b] # "done"
    BY <2>2, <2>3 DEF Watched
  <2>6. (queued' => tppc'[Runner] # "done") /\ (tpqueue' # <<>> => queued')
    BY <2>1, <2>2, AssignersFinite DEF Watched
  <2>7. lock' # None => tppc'[lock'] = "look"
    <3>1. lock \in TP!Assigners \cup {None}
      BY DEF PoolInv, TP!TypeOK
    <3> QED BY <2>1, <2>2, <3>1 DEF Watched
  <2> QED BY <2>4, <2>5, <2>6, <2>7 DEF Watched
<1> QED BY <1>1, <1>2

\* assign() appends the task, and lets go of the lock.
LEMMA WatchedEnqueue ==
    ASSUME PoolInv, Watched, NEW a \in TP!Assigners, TP!Enqueue(a)
    PROVE  Watched'
<1> DEFINE v == IF a = Runner THEN "wait" ELSE "done"
<1>1. /\ queued /\ hand' = [hand EXCEPT ![a] = None] /\ lock' = None
      /\ UNCHANGED <<queued, task, mpc>>
  BY DEF TP!Enqueue
<1>2. \A b \in TP!Assigners : hand'[b] = IF b = a THEN None ELSE hand[b]
  BY <1>1 DEF PoolInv, TP!TypeOK
<1>3. \A b \in TP!Assigners : \/ tppc'[b] = (IF b = a THEN v ELSE tppc[b])
                              \/ tppc'[b] = "woken"
  <2> DEFINE next == [tppc EXCEPT ![a] = v]
  <2>1. next \in [TP!Assigners -> {"start", "look", "set", "relock", "wait", "woken", "done"}]
        /\ \A b \in TP!Assigners : next[b] = (IF b = a THEN v ELSE tppc[b])
    BY DEF PoolInv
  <2>2. tppc' = next \/ \E w \in TP!Waiters : tppc' = [next EXCEPT ![w] = "woken"]
    BY DEF TP!Enqueue
  <2> HIDE DEF next
  <2> QED BY <2>1, <2>2 DEF TP!Waiters
<1>4. \A m \in TP!Managers : task'[m] # None => mpc'[m] # "wait"
  BY <1>1 DEF Watched
<1>5. \A b \in TP!Assigners : hand'[b] # None => tppc'[b] # "done"
  BY <1>2, <1>3 DEF Watched
<1>6. (queued' => tppc'[Runner] # "done") /\ (tpqueue' # <<>> => queued')
  BY <1>1, <1>3, AssignersFinite DEF Watched
<1> QED BY <1>1, <1>4, <1>5, <1>6 DEF Watched

\* The runner takes one task out, or waits for the next.
LEMMA WatchedRunQueue ==
    ASSUME PoolInv, Watched, TP!RunQueue
    PROVE  Watched'
<1>1. CASE tpqueue = <<>>
  <2>1. /\ tppc' = [tppc EXCEPT ![Runner] = "wait"] /\ UNCHANGED <<queued, task, mpc, tpqueue, hand, lock>>
        /\ tppc[Runner] # "look"
    BY <1>1 DEF TP!RunQueue, TP!Goto
  <2> QED BY <2>1, AssignersFinite, WatchedCaller
<1>2. CASE tpqueue # <<>>
  <2>1. /\ tppc' = [tppc EXCEPT ![Runner] = "look"] /\ lock' = Runner
        /\ hand' = [hand EXCEPT ![Runner] = Head(tpqueue)] /\ UNCHANGED <<queued, task, mpc>>
    BY <1>2 DEF TP!RunQueue, TP!Goto
  <2>2. \A b \in TP!Assigners : tppc'[b] = IF b = Runner THEN "look" ELSE tppc[b]
    BY <2>1 DEF PoolInv
  <2>3. \A b \in TP!Assigners : b # Runner => hand'[b] = hand[b]
    BY <2>1 DEF PoolInv, TP!TypeOK
  <2>4. \A b \in TP!Assigners : hand'[b] # None => tppc'[b] # "done"
    BY <2>2, <2>3 DEF Watched
  <2> QED BY <1>2, <2>1, <2>2, <2>4, AssignersFinite DEF Watched
<1> QED BY <1>1, <1>2

\* Every step of the pool leaves somebody at every task.
LEMMA WatchedStep == PoolInv /\ Watched /\ TP!Next => Watched'
<1> SUFFICES ASSUME PoolInv, Watched, TP!Next PROVE Watched'
  OBVIOUS
<1>1. ASSUME NEW m \in TP!Managers, TP!ManagerLoop(m) \/ TP!ManagerWakes(m) PROVE Watched'
  <2>1. /\ mpc' = [mpc EXCEPT ![m] = IF TP!ManagerLoop(m) /\ task[m] = None THEN "wait" ELSE mpc'[m]]
        /\ (mpc'[m] = "wait" => task[m] = None)
        /\ UNCHANGED <<queued, task, lock, tppc, hand, tpqueue>>
    BY <1>1 DEF PoolInv, TP!TypeOK, TP!ManagerLoop, TP!ManagerWakes
  <2>2. \A n \in TP!Managers : n # m => mpc'[n] = mpc[n]
    BY <2>1 DEF PoolInv, TP!TypeOK
  <2> QED BY <2>1, <2>2 DEF Watched
<1>2. ASSUME NEW m \in TP!Managers, TP!RunTask(m) PROVE Watched'
  <2>1. /\ task' = [task EXCEPT ![m] = None] /\ mpc' = [mpc EXCEPT ![m] = "notify"]
        /\ UNCHANGED <<queued, lock, tppc, hand, tpqueue>>
    BY <1>2 DEF TP!RunTask
  <2>2. \A n \in TP!Managers : task'[n] # None => task'[n] = task[n] /\ mpc'[n] = mpc[n]
    BY <2>1 DEF PoolInv, TP!TypeOK
  <2> QED BY <2>1, <2>2 DEF Watched
<1>3. ASSUME NEW m \in TP!Managers, TP!IdleNotification(m) PROVE Watched'
  <2>1. /\ mpc' = [mpc EXCEPT ![m] = "loop"] /\ TP!Notify
        /\ UNCHANGED <<queued, task, lock, hand, tpqueue>>
    BY <1>3 DEF TP!IdleNotification
  <2>2. CASE TP!Waiters = {}
    <3>1. \A n \in TP!Managers : mpc'[n] = mpc[n] \/ mpc'[n] = "loop"
      BY <2>1 DEF PoolInv, TP!TypeOK
    <3>2. UNCHANGED tppc
      BY <2>1, <2>2 DEF TP!Notify
    <3> QED BY <2>1, <3>1, <3>2 DEF Watched
  <2>3. CASE TP!Waiters # {}
    <3>1. PICK w \in TP!Assigners : tppc[w] = "wait" /\ tppc' = [tppc EXCEPT ![w] = "woken"]
      BY <2>1, <2>3 DEF TP!Notify, TP!Goto, TP!Waiters
    <3> QED BY <2>1, <3>1, WatchedWaits
  <2> QED BY <2>2, <2>3
<1>4. ASSUME NEW a \in TP!Assigners, TP!Execute(a) PROVE Watched'
  BY <1>4, WatchedCaller DEF TP!Execute, TP!Goto
<1>5. ASSUME NEW a \in TP!Assigners, TP!LookAt(a) PROVE Watched'
  <2>1. CASE task[tpat[a]] = None
    BY <1>5, <2>1, WatchedCaller DEF TP!LookAt, TP!Goto
  <2>2. CASE task[tpat[a]] # None
    BY <1>5, <2>2 DEF TP!LookAt, Watched
  <2> QED BY <2>1, <2>2
<1>6. ASSUME NEW a \in TP!Assigners, TP!Relock(a) PROVE Watched'
  <2>1. CASE hand[a] = None
    <3> DEFINE v == IF a = Runner THEN "wait" ELSE "done"
    <3>1. /\ tppc' = [tppc EXCEPT ![a] = v] /\ tppc[a] = "relock"
          /\ UNCHANGED <<queued, task, mpc, lock, hand, tpqueue>>
      BY <1>6, <2>1 DEF TP!Relock, TP!Goto
    <3> QED BY <2>1, <3>1, WatchedCaller
  <2>2. CASE hand[a] # None
    <3>1. /\ tppc' = [tppc EXCEPT ![a] = "look"] /\ lock' = a
          /\ UNCHANGED <<queued, task, mpc, hand, tpqueue>>
      BY <1>6, <2>2 DEF TP!Relock, TP!Goto
    <3> QED BY <3>1, WatchedCaller
  <2> QED BY <2>1, <2>2
<1>7. ASSUME NEW a \in TP!Assigners, TP!WaitForIdle(a) PROVE Watched'
  BY <1>7, WatchedCaller DEF TP!WaitForIdle, TP!Goto
<1>8. ASSUME NEW a \in TP!Assigners, TP!TimedOut(a) PROVE Watched'
  BY <1>8, WatchedWaits DEF TP!TimedOut, TP!Goto
<1> QED BY <1>1, <1>2, <1>3, <1>4, <1>5, <1>6, <1>7, <1>8, WatchedSetTask, WatchedEnqueue, WatchedRunQueue
        DEF TP!Next, TP!ManagerStep, TP!AssignerStep

\* Somebody is at every task at the start: its caller.
LEMMA WatchedInit == TP!Init => Watched
<1> SUFFICES ASSUME TP!Init PROVE Watched
  OBVIOUS
<1>1. /\ task = [m \in TP!Managers |-> None] /\ lock = None /\ tpqueue = <<>>
      /\ \A a \in TP!Assigners : tppc[a] = IF a = Runner /\ ~queued THEN "done" ELSE "start"
      /\ \A a \in TP!Assigners : a = Runner => hand[a] = None
  BY DEF TP!Init
<1> QED BY <1>1, AssignersFinite DEF Watched

\* A task that is somewhere is somewhere where it is watched.
LEMMA WatchedNotForgotten == PoolInv /\ TasksConserved /\ Watched => NoTaskForgotten
<1> SUFFICES ASSUME PoolInv, TasksConserved, Watched, NEW k \in Tasks, runs[k] = 0
             PROVE  \/ \E m \in TP!Managers : task[m] = k /\ mpc[m] # "wait"
                    \/ \E a \in TP!Assigners : hand[a] = k /\ tppc[a] # "done"
                    \/ (\E n \in DOMAIN tpqueue : tpqueue[n] = k) /\ tppc[Runner] # "done"
  BY DEF NoTaskForgotten
<1>1. k # None
  BY PoolNames
<1>2. Count(hand, TP!Assigners, k) + Count(tpqueue, DOMAIN tpqueue, k) + Count(task, TP!Managers, k) = 1
  <2>1. TP!Places(k) + runs[k] = 1
    BY DEF TasksConserved, TP!TasksConserved
  <2>2. TP!TypeOK
    BY DEF PoolInv
  <2>3. /\ Count(hand, TP!Assigners, k) \in Nat /\ Count(task, TP!Managers, k) \in Nat
        /\ Count(tpqueue, DOMAIN tpqueue, k) \in Nat
    BY <2>2, PlacesNat
  <2>4. TP!Places(k) = Count(hand, TP!Assigners, k) + Count(tpqueue, DOMAIN tpqueue, k)
                       + Count(task, TP!Managers, k)
    BY PlacesAre
  <2> QED BY <2>1, <2>3, <2>4
<1>3. CASE {a \in TP!Assigners : hand[a] = k} # {}
  BY <1>1, <1>3 DEF Watched
<1>4. CASE {n \in DOMAIN tpqueue : tpqueue[n] = k} # {}
  <2>1. tpqueue # <<>>
    BY <1>4
  <2> QED BY <1>4, <2>1 DEF Watched
<1>5. CASE {m \in TP!Managers : task[m] = k} # {}
  BY <1>1, <1>5 DEF Watched
<1>6. CASE /\ {a \in TP!Assigners : hand[a] = k} = {} /\ {n \in DOMAIN tpqueue : tpqueue[n] = k} = {}
           /\ {m \in TP!Managers : task[m] = k} = {}
  <2>1. /\ Count(hand, TP!Assigners, k) = 0 /\ Count(tpqueue, DOMAIN tpqueue, k) = 0
        /\ Count(task, TP!Managers, k) = 0
    BY <1>6, FS_EmptySet, Zenon DEF Count
  <2> QED BY <1>2, <2>1
<1> QED BY <1>3, <1>4, <1>5, <1>6

(* No task is left where nobody looks: whatever notification is missed, a task *)
(* that was not run is with a manager that does not wait, with a caller that   *)
(* has not returned, or in a queue whose runner has not ended.                 *)
THEOREM TasksWatched == TP!Spec => []NoTaskForgotten
<1>1. TP!Init => PoolInv /\ Watched
  BY PoolInit, WatchedInit
<1>2. PoolInv /\ Watched /\ [TP!Next]_(TP!vars) => (PoolInv /\ Watched)'
  <2>1. PoolInv /\ Watched /\ UNCHANGED TP!vars => (PoolInv /\ Watched)'
    BY DEF PoolInv, TP!TypeOK, Watched, TP!vars
  <2> QED BY <2>1, PoolStep, WatchedStep
<1> QED BY <1>1, <1>2, TasksCorrect, WatchedNotForgotten, PTL DEF TP!Spec
--------------------------------------------------------------------------------
(* The queue of messages.  A thread uses one at these places, and holds        *)
(* pevents_mutex at those.                                                     *)
Using == {"match", "callback", "answered", "resend", "timedout"}
Processing == Using \cup {"poll", "receive", "retry"}

(* The types, whoever shares the session: of the threads and their messages,   *)
(* of the copies on their way, each of which was paid for with a retry, but    *)
(* for the first, and of what was told.                                        *)
MsgPlaces ==
    /\ mqueue \subseteq MQ!Requests /\ armed \subseteq Async
    /\ received \subseteq MQ!Requests /\ overdue \subseteq MQ!Requests
    /\ expired \subseteq MQ!Requests
    /\ pevents \in MQ!Processors \cup {NoThread}
    /\ mqpc \in [MQ!Processors -> Processing \cup {"idle", "top", "select", "check", "done", "ended"}]
    /\ cur \in [MQ!Processors -> MQ!Requests \cup {NoThread}]
    /\ session \in {"open", "closing", "closed"}
    /\ \A p \in MQ!Processors : mqpc[p] \in Using => cur[p] \in MQ!Requests

MsgCopies ==
    /\ state \in [MQ!Requests -> {"new", "sent", "entered"}]
    /\ retry \in [MQ!Requests -> 0 .. Retries]
    /\ wire \in [MQ!Requests -> Nat] /\ inbox \in [MQ!Requests -> Nat]
    /\ \A r \in MQ!Requests :
          wire[r] + inbox[r] + retry[r] <= IF state[r] = "new" THEN Retries ELSE Retries + 1

MsgOutcomes == outcome \in [MQ!Requests -> Seq(MQ!Outcomes)]

MsgTypes == MsgPlaces /\ MsgCopies /\ MsgOutcomes

(* Who processes events holds the mutex, and nobody else does. *)
EventsLocked ==
    \A p \in MQ!Processors : mqpc[p] \in Processing <=> pevents = p

(* The places of a poll thread, and of the thread of a blocking request. *)
ThreadPlaces ==
    /\ \A p \in Pollers : mqpc[p] \notin {"idle", "check", "done"}
    /\ \A r \in Sync : mqpc[r] = "idle" <=> state[r] # "entered"
    /\ \A r \in Sync : mqpc[r] \notin {"top", "ended"}

(* The thread of a blocking request is the only one there is until the request *)
(* returns, and then the session may be closed.                                *)
OneUser ==
    /\ \A r \in Sync : MQ!Blocking(r) => ~MQ!Polling
    /\ \A r, s \in Sync : MQ!Blocking(r) /\ MQ!Blocking(s) => r = s
    /\ session # "open" => \A r \in MQ!Requests : state[r] # "sent" /\ ~MQ!Blocking(r)

(* A message that a thread is at is in the queue, and only one with a callback *)
(* is answered by it, and only one without a response times out.               *)
MessagesHeld ==
    \A p \in MQ!Processors :
        /\ mqpc[p] \in {"callback", "answered", "resend", "timedout"} => cur[p] \in mqueue
        /\ mqpc[p] = "answered" => cur[p] \in Async
        /\ mqpc[p] = "timedout" => cur[p] \notin received

(* When nothing has been told yet: before the request is entered, as long as   *)
(* its callback is armed, and until a blocking request returns.                *)
Untold ==
    /\ \A r \in MQ!Requests : state[r] # "entered" => outcome[r] = <<>> /\ r \notin mqueue
    /\ \A r \in mqueue \cap armed : outcome[r] = <<>>
    /\ \A r \in Async : r \in mqueue /\ r \notin armed
          => \E p \in MQ!Processors : mqpc[p] \in {"answered", "timedout"} /\ cur[p] = r
    /\ \A r \in Sync :
          /\ mqpc[r] # "done" => outcome[r] = <<>>
          /\ r \in mqueue => mqpc[r] # "done"
          /\ r \in received /\ mqpc[r] # "done" => r \in mqueue

MsgInv == MsgTypes /\ EventsLocked /\ ThreadPlaces /\ OneUser
          /\ MessagesHeld /\ Untold /\ ToldOnce /\ AnswerWins

\* Who is a request and who processes events, spelled out once.
LEMMA RequestKindsAre ==
    /\ \A r \in MQ!Requests : r \in Async \/ r \in Sync
    /\ \A p \in MQ!Processors : (p \in Pollers \/ p \in Sync) /\ p # NoThread
    /\ Async \subseteq MQ!Requests /\ Sync \subseteq MQ!Requests
    /\ Sync \subseteq MQ!Processors /\ Pollers \subseteq MQ!Processors
    /\ \A p \in Pollers : p \notin Sync
    /\ \A r \in Async : r \notin Sync
BY RequestKinds DEF MQ!Requests, MQ!Processors

\* The parts of the type invariant together imply the type invariant.
LEMMA MsgTypesOK == MsgTypes => MQ!TypeOK
<1> SUFFICES ASSUME MsgTypes PROVE MQ!TypeOK
  OBVIOUS
<1>1. \A r \in MQ!Requests : wire[r] + inbox[r] <= Retries + 1
  BY RetriesNat DEF MsgTypes, MsgCopies
<1>2. \A r \in MQ!Requests : \A n \in DOMAIN outcome[r] : outcome[r][n] \in MQ!Outcomes
  BY DEF MsgTypes, MsgOutcomes
<1> QED BY <1>1, <1>2 DEF MsgTypes, MsgPlaces, MsgCopies, MQ!TypeOK

\* Telling an owner appends one outcome, to the owner's list alone.
LEMMA TellIs ==
    ASSUME MsgOutcomes, NEW r \in MQ!Requests, NEW what \in MQ!Outcomes, MQ!Tell(r, what)
    PROVE  /\ MsgOutcomes'
           /\ outcome'[r] = Append(outcome[r], what)
           /\ \A s \in MQ!Requests : s # r => outcome'[s] = outcome[s]
BY DEF MsgOutcomes, MQ!Tell

\* Nothing is outstanding at the start.
LEMMA MsgInit == MQ!Init => MsgTypes
BY RetriesNat, RequestKindsAre
   DEF MQ!Init, MsgTypes, MsgPlaces, MsgCopies, MsgOutcomes, Using, Processing

\* Every thread stays where its method can be.
LEMMA PlacesStep == MsgTypes /\ MQ!Next => MsgPlaces'
<1> SUFFICES ASSUME MsgTypes, MQ!Next PROVE MsgPlaces'
  OBVIOUS
<1> USE RequestKindsAre DEF MsgTypes, MsgPlaces, Using, Processing
<1>1. ASSUME NEW r \in MQ!Requests, MQ!Send(r) PROVE MsgPlaces'
  BY <1>1 DEF MQ!Send, MQ!Goto, MQ!msgVars
<1>2. ASSUME NEW r \in MQ!Requests, MQ!AddEntry(r) PROVE MsgPlaces'
  BY <1>2 DEF MQ!AddEntry, MQ!Goto, MQ!msgVars
<1>3. ASSUME NEW r \in MQ!Requests, MQ!Cancel(r) PROVE MsgPlaces'
  BY <1>3 DEF MQ!Cancel, MQ!Delete, MQ!msgVars
<1>4. ASSUME NEW r \in MQ!Requests, MQ!Agent(r) PROVE MsgPlaces'
  BY <1>4 DEF MQ!Agent, MQ!msgVars
<1>5. ASSUME NEW r \in MQ!Requests, MQ!TimePasses(r) PROVE MsgPlaces'
  BY <1>5 DEF MQ!TimePasses, MQ!msgVars
<1>6. ASSUME NEW p \in MQ!Processors, MQ!PollLoop(p) PROVE MsgPlaces'
  BY <1>6 DEF MQ!PollLoop, MQ!Goto, MQ!msgVars
<1>7. ASSUME NEW p \in MQ!Processors, MQ!LockEvents(p) PROVE MsgPlaces'
  BY <1>7 DEF MQ!LockEvents, MQ!Goto, MQ!msgVars
<1>8. ASSUME NEW p \in MQ!Processors, MQ!Poll(p) PROVE MsgPlaces'
  BY <1>8 DEF MQ!Poll, MQ!Goto, MQ!msgVars
<1>9. ASSUME NEW p \in MQ!Processors, MQ!Receive(p) PROVE MsgPlaces'
  BY <1>9 DEF MQ!Receive, MQ!Goto, MQ!msgVars
<1>10. ASSUME NEW p \in MQ!Processors, MQ!Match(p) PROVE MsgPlaces'
  BY <1>10 DEF MQ!Match, MQ!Goto, MQ!Leave, MQ!msgVars
<1>11. ASSUME NEW p \in MQ!Processors, MQ!Callback(p) PROVE MsgPlaces'
  BY <1>11 DEF MQ!Callback, MQ!Goto, MQ!Leave, MQ!msgVars
<1>12. ASSUME NEW p \in MQ!Processors, MQ!Answered(p) PROVE MsgPlaces'
  BY <1>12 DEF MQ!Answered, MQ!Goto, MQ!Leave, MQ!Delete, MQ!msgVars
<1>13. ASSUME NEW p \in MQ!Processors, MQ!Retry(p) PROVE MsgPlaces'
  BY <1>13 DEF MQ!Retry, MQ!Goto, MQ!Leave, MQ!Return, MQ!msgVars
<1>14. ASSUME NEW p \in MQ!Processors, MQ!ResendReceived(p) PROVE MsgPlaces'
  BY <1>14 DEF MQ!ResendReceived, MQ!Goto, MQ!Leave, MQ!SetSendTime, MQ!msgVars
<1>15. ASSUME NEW p \in MQ!Processors, MQ!TimeOut(p) PROVE MsgPlaces'
  BY <1>15 DEF MQ!TimeOut, MQ!Goto, MQ!msgVars
<1>16. ASSUME NEW p \in MQ!Processors, MQ!Resend(p) PROVE MsgPlaces'
  BY <1>16 DEF MQ!Resend, MQ!Goto, MQ!Leave, MQ!Return, MQ!SetSendTime, MQ!msgVars
<1>17. ASSUME NEW p \in MQ!Processors, MQ!TimedOut(p) PROVE MsgPlaces'
  BY <1>17 DEF MQ!TimedOut, MQ!Goto, MQ!Leave, MQ!Delete, MQ!msgVars
<1>18. ASSUME NEW p \in MQ!Processors, MQ!Check(p) PROVE MsgPlaces'
  BY <1>18 DEF MQ!Check, MQ!Goto, MQ!Delete, MQ!msgVars
<1>19. ASSUME MQ!Close PROVE MsgPlaces'
  BY <1>19 DEF MQ!Close, MQ!msgVars
<1>20. ASSUME MQ!DeleteSocketEntry PROVE MsgPlaces'
  BY <1>20 DEF MQ!DeleteSocketEntry
<1> QED BY <1>1, <1>2, <1>3, <1>4, <1>5, <1>6, <1>7, <1>8, <1>9, <1>10, <1>11, <1>12, <1>13, <1>14, <1>15, <1>16, <1>17, <1>18, <1>19, <1>20
        DEF MQ!Next, MQ!ThreadStep

\* There are as many copies of a request as sending and retrying made, or fewer.
LEMMA CopiesStep == MsgTypes /\ MQ!Next => MsgCopies'
<1> SUFFICES ASSUME MsgTypes, MQ!Next PROVE MsgCopies'
  OBVIOUS
<1> USE RetriesNat DEF MsgTypes, MsgCopies
<1>1. ASSUME NEW r \in MQ!Requests, MQ!Send(r) PROVE MsgCopies'
  BY <1>1 DEF MQ!Send
<1>2. ASSUME NEW r \in MQ!Requests, MQ!AddEntry(r) PROVE MsgCopies'
  BY <1>2 DEF MQ!AddEntry, MQ!netVars
<1>3. ASSUME NEW r \in MQ!Requests, MQ!Agent(r) PROVE MsgCopies'
  BY <1>3 DEF MQ!Agent, MQ!msgVars
<1>4. ASSUME NEW p \in MQ!Processors, MQ!Receive(p) PROVE MsgCopies'
  BY <1>4 DEF MQ!Receive, MQ!msgVars
<1>5. ASSUME NEW p \in MQ!Processors, MQ!Resend(p) PROVE MsgCopies'
  <2>1. cur[p] \in MQ!Requests
    BY <1>5 DEF MQ!Resend, MsgPlaces, Using
  <2>2. /\ retry[cur[p]] > 0 /\ retry' = [retry EXCEPT ![cur[p]] = retry[cur[p]] - 1]
        /\ UNCHANGED <<state, inbox>>
        /\ wire' = wire \/ wire' = [wire EXCEPT ![cur[p]] = wire[cur[p]] + 1]
    BY <1>5 DEF MQ!Resend
  <2> QED BY <2>1, <2>2
<1>6. ASSUME UNCHANGED <<state, retry, wire, inbox>> PROVE MsgCopies'
  BY <1>6
<1>7. ASSUME NEW r \in MQ!Requests, MQ!Cancel(r) \/ MQ!TimePasses(r) PROVE MsgCopies'
  BY <1>6, <1>7 DEF MQ!Cancel, MQ!TimePasses, MQ!netVars
<1>8. ASSUME NEW p \in MQ!Processors,
             \/ MQ!PollLoop(p) \/ MQ!LockEvents(p) \/ MQ!Poll(p) \/ MQ!Match(p) \/ MQ!Callback(p)
             \/ MQ!Answered(p) \/ MQ!Retry(p) \/ MQ!ResendReceived(p) \/ MQ!TimeOut(p)
             \/ MQ!TimedOut(p) \/ MQ!Check(p)
      PROVE MsgCopies'
  BY <1>6, <1>8 DEF MQ!PollLoop, MQ!LockEvents, MQ!Poll, MQ!Match, MQ!Callback, MQ!Answered, MQ!Retry,
     MQ!ResendReceived, MQ!TimeOut, MQ!TimedOut, MQ!Check, MQ!msgVars, MQ!netVars
<1>9. ASSUME MQ!Close \/ MQ!DeleteSocketEntry PROVE MsgCopies'
  BY <1>6, <1>9 DEF MQ!Close, MQ!DeleteSocketEntry, MQ!msgVars, MQ!netVars
<1> QED BY <1>1, <1>2, <1>3, <1>4, <1>5, <1>7, <1>8, <1>9 DEF MQ!Next, MQ!ThreadStep

\* Outcomes are appended one at a time.
LEMMA OutcomesStep == MsgTypes /\ MQ!Next => MsgOutcomes'
<1> SUFFICES ASSUME MsgTypes, MQ!Next PROVE MsgOutcomes'
  OBVIOUS
<1> USE DEF MsgTypes
<1>1. {"response", "timeout", "cancelled", "destroyed", "failed"} = MQ!Outcomes
  BY DEF MQ!Outcomes
<1>2. ASSUME NEW r \in MQ!Requests, MQ!Send(r) \/ MQ!Cancel(r) PROVE MsgOutcomes'
  BY <1>1, <1>2, TellIs DEF MQ!Send, MQ!Cancel, MsgOutcomes
<1>3. ASSUME NEW p \in MQ!Processors, MQ!Callback(p) \/ MQ!TimeOut(p) PROVE MsgOutcomes'
  <2>1. cur[p] \in MQ!Requests
    BY <1>3 DEF MsgPlaces, Using, MQ!Callback, MQ!TimeOut
  <2> QED BY <1>1, <1>3, <2>1, TellIs DEF MQ!Callback, MQ!TimeOut, MsgOutcomes
<1>4. ASSUME NEW p \in MQ!Processors, MQ!Check(p) PROVE MsgOutcomes'
  BY <1>1, <1>4, TellIs, RequestKindsAre DEF MQ!Check, MsgOutcomes
<1>5. ASSUME MQ!DeleteSocketEntry PROVE MsgOutcomes'
  BY <1>1, <1>5 DEF MQ!DeleteSocketEntry, MsgOutcomes
<1>6. ASSUME UNCHANGED outcome PROVE MsgOutcomes'
  BY <1>6 DEF MsgOutcomes
<1>7. ASSUME NEW r \in MQ!Requests, MQ!AddEntry(r) \/ MQ!Agent(r) \/ MQ!TimePasses(r) PROVE MsgOutcomes'
  BY <1>6, <1>7 DEF MQ!AddEntry, MQ!Agent, MQ!TimePasses
<1>8. ASSUME NEW p \in MQ!Processors,
             \/ MQ!PollLoop(p) \/ MQ!LockEvents(p) \/ MQ!Poll(p) \/ MQ!Receive(p) \/ MQ!Match(p)
             \/ MQ!Answered(p) \/ MQ!Retry(p) \/ MQ!ResendReceived(p) \/ MQ!Resend(p) \/ MQ!TimedOut(p)
      PROVE MsgOutcomes'
  BY <1>6, <1>8 DEF MQ!PollLoop, MQ!LockEvents, MQ!Poll, MQ!Receive, MQ!Match, MQ!Answered, MQ!Retry,
     MQ!ResendReceived, MQ!Resend, MQ!TimedOut
<1>9. ASSUME MQ!Close PROVE MsgOutcomes'
  BY <1>6, <1>9 DEF MQ!Close
<1> QED BY <1>2, <1>3, <1>4, <1>5, <1>7, <1>8, <1>9 DEF MQ!Next, MQ!ThreadStep

(* The mutex and the places, whoever shares the session. *)
LEMMA LockedStep ==
    MsgTypes /\ EventsLocked /\ ThreadPlaces /\ MQ!Next => EventsLocked' /\ ThreadPlaces'
<1> SUFFICES ASSUME MsgTypes, EventsLocked, ThreadPlaces, MQ!Next
             PROVE  EventsLocked' /\ ThreadPlaces'
  OBVIOUS
<1> USE RequestKindsAre DEF MsgTypes, MsgPlaces, MsgCopies, EventsLocked, ThreadPlaces, Using, Processing
<1>1. ASSUME NEW r \in MQ!Requests, MQ!Send(r) PROVE EventsLocked' /\ ThreadPlaces'
  BY <1>1 DEF MQ!Send, MQ!Goto
<1>2. ASSUME NEW r \in MQ!Requests, MQ!AddEntry(r) PROVE EventsLocked' /\ ThreadPlaces'
  BY <1>2 DEF MQ!AddEntry, MQ!Goto
<1>3. ASSUME UNCHANGED <<mqpc, pevents, state>> PROVE EventsLocked' /\ ThreadPlaces'
  BY <1>3
<1>4. ASSUME NEW r \in MQ!Requests, MQ!Cancel(r) \/ MQ!Agent(r) \/ MQ!TimePasses(r) PROVE EventsLocked' /\ ThreadPlaces'
  BY <1>3, <1>4 DEF MQ!Cancel, MQ!Agent, MQ!TimePasses, MQ!msgVars
<1>5. ASSUME NEW p \in MQ!Processors, MQ!PollLoop(p) PROVE EventsLocked' /\ ThreadPlaces'
  BY <1>5 DEF MQ!PollLoop, MQ!Goto, MQ!msgVars
<1>6. ASSUME NEW p \in MQ!Processors, MQ!LockEvents(p) PROVE EventsLocked' /\ ThreadPlaces'
  BY <1>6 DEF MQ!LockEvents, MQ!Goto, MQ!msgVars
<1>7. ASSUME NEW p \in MQ!Processors, MQ!Poll(p) PROVE EventsLocked' /\ ThreadPlaces'
  BY <1>7 DEF MQ!Poll, MQ!Goto, MQ!msgVars
<1>8. ASSUME NEW p \in MQ!Processors, MQ!Receive(p) PROVE EventsLocked' /\ ThreadPlaces'
  BY <1>8 DEF MQ!Receive, MQ!Goto, MQ!msgVars
<1>9. ASSUME NEW p \in MQ!Processors, MQ!Match(p) PROVE EventsLocked' /\ ThreadPlaces'
  BY <1>9 DEF MQ!Match, MQ!Goto, MQ!Leave
<1>10. ASSUME NEW p \in MQ!Processors, MQ!Callback(p) PROVE EventsLocked' /\ ThreadPlaces'
  BY <1>10 DEF MQ!Callback, MQ!Goto, MQ!Leave
<1>11. ASSUME NEW p \in MQ!Processors, MQ!Answered(p) PROVE EventsLocked' /\ ThreadPlaces'
  BY <1>11 DEF MQ!Answered, MQ!Goto, MQ!Leave, MQ!Delete
<1>12. ASSUME NEW p \in MQ!Processors, MQ!Retry(p) PROVE EventsLocked' /\ ThreadPlaces'
  BY <1>12 DEF MQ!Retry, MQ!Goto, MQ!Leave, MQ!Return, MQ!msgVars
<1>13. ASSUME NEW p \in MQ!Processors, MQ!ResendReceived(p) PROVE EventsLocked' /\ ThreadPlaces'
  BY <1>13 DEF MQ!ResendReceived, MQ!Goto, MQ!Leave
<1>14. ASSUME NEW p \in MQ!Processors, MQ!TimeOut(p) PROVE EventsLocked' /\ ThreadPlaces'
  BY <1>14 DEF MQ!TimeOut, MQ!Goto
<1>15. ASSUME NEW p \in MQ!Processors, MQ!Resend(p) PROVE EventsLocked' /\ ThreadPlaces'
  BY <1>15 DEF MQ!Resend, MQ!Goto, MQ!Leave, MQ!Return
<1>16. ASSUME NEW p \in MQ!Processors, MQ!TimedOut(p) PROVE EventsLocked' /\ ThreadPlaces'
  BY <1>16 DEF MQ!TimedOut, MQ!Goto, MQ!Leave
<1>17. ASSUME NEW p \in MQ!Processors, MQ!Check(p) PROVE EventsLocked' /\ ThreadPlaces'
  BY <1>17 DEF MQ!Check, MQ!Goto
<1>18. ASSUME MQ!Close \/ MQ!DeleteSocketEntry PROVE EventsLocked' /\ ThreadPlaces'
  BY <1>3, <1>18 DEF MQ!Close, MQ!DeleteSocketEntry, MQ!msgVars
<1> QED BY <1>1, <1>2, <1>4, <1>5, <1>6, <1>7, <1>8, <1>9, <1>10, <1>11, <1>12, <1>13, <1>14, <1>15, <1>16, <1>17, <1>18 DEF MQ!Next, MQ!ThreadStep

(* A thread that moves on, but not from the end, is still the same user. *)
LEMMA Moved ==
    ASSUME MsgTypes, OneUser, NEW p \in MQ!Processors, mqpc[p] \notin {"ended", "done"},
           NEW v, mqpc' = [mqpc EXCEPT ![p] = v], UNCHANGED <<state, session>>
    PROVE  OneUser'
<1>1. \A q \in MQ!Processors : mqpc'[q] = IF q = p THEN v ELSE mqpc[q]
  BY DEF MsgTypes, MsgPlaces
<1>2. MQ!Polling' => MQ!Polling
  BY <1>1, RequestKindsAre DEF MQ!Polling
<1>3. \A r \in MQ!Requests : MQ!Blocking(r)' => MQ!Blocking(r)
  BY <1>1, RequestKindsAre DEF MQ!Blocking
<1> QED BY <1>2, <1>3, RequestKindsAre DEF OneUser

\* A session that is not shared has one thread in its methods at a time.
LEMMA OneUserStep ==
    Shared = FALSE /\ MsgTypes /\ ThreadPlaces /\ OneUser /\ MQ!Next => OneUser'
<1> SUFFICES ASSUME Shared = FALSE, MsgTypes, ThreadPlaces, OneUser, MQ!Next PROVE OneUser'
  OBVIOUS
<1>1. ASSUME NEW r \in MQ!Requests, MQ!Send(r) PROVE OneUser'
  <2>1. /\ session = "open" /\ session' = session /\ state[r] = "new"
        /\ \A q \in MQ!Requests : q # r => state'[q] = state[q]
        /\ \A q \in MQ!Processors : q # r => mqpc'[q] = mqpc[q]
        /\ r \notin Sync => mqpc' = mqpc
    BY <1>1 DEF MQ!Send, MQ!Goto, MsgTypes, MsgCopies, MsgPlaces
  <2>2. MQ!Polling' => MQ!Polling
    BY <2>1, RequestKindsAre DEF MQ!Polling
  <2>3. \A q \in Sync : q # r => (MQ!Blocking(q)' <=> MQ!Blocking(q))
    BY <2>1, RequestKindsAre DEF MQ!Blocking
  <2>4. r \in Sync => ~MQ!Polling /\ \A q \in Sync : ~MQ!Blocking(q)
    BY <1>1 DEF MQ!Send, MQ!MaySend
  <2> QED BY <2>1, <2>2, <2>3, <2>4 DEF OneUser
<1>2. ASSUME NEW r \in MQ!Requests, MQ!AddEntry(r) PROVE OneUser'
  <2>1. /\ session = "open" /\ session' = session /\ state[r] = "sent"
        /\ \A q \in MQ!Requests : q # r => state'[q] = state[q]
        /\ \A q \in MQ!Processors : q # r => mqpc'[q] = mqpc[q]
        /\ r \notin Sync => mqpc' = mqpc
    BY <1>2 DEF MQ!AddEntry, MQ!Goto, MsgTypes, MsgCopies, MsgPlaces, OneUser
  <2>2. MQ!Polling' => MQ!Polling
    BY <2>1, RequestKindsAre DEF MQ!Polling
  <2>3. \A q \in Sync : MQ!Blocking(q)' => MQ!Blocking(q)
    BY <2>1, RequestKindsAre DEF MQ!Blocking, ThreadPlaces
  <2> QED BY <2>1, <2>2, <2>3 DEF OneUser
<1>3. ASSUME UNCHANGED <<state, mqpc, session>> PROVE OneUser'
  BY <1>3 DEF OneUser, MQ!Blocking, MQ!Polling
<1>4. ASSUME NEW r \in MQ!Requests, MQ!Cancel(r) \/ MQ!Agent(r) \/ MQ!TimePasses(r) PROVE OneUser'
  BY <1>3, <1>4 DEF MQ!Cancel, MQ!Agent, MQ!TimePasses, MQ!msgVars
<1>5. ASSUME NEW p \in MQ!Processors, MQ!ThreadStep(p) PROVE OneUser'
  <2>1. UNCHANGED <<state, session>> /\ mqpc[p] \notin {"ended", "done"}
    BY <1>5 DEF MQ!ThreadStep, MQ!PollLoop, MQ!LockEvents, MQ!Poll, MQ!Receive, MQ!Match, MQ!Callback,
       MQ!Answered, MQ!Retry, MQ!ResendReceived, MQ!TimeOut, MQ!Resend, MQ!TimedOut, MQ!Check, MQ!msgVars
  <2>2. \E v : mqpc' = [mqpc EXCEPT ![p] = v]
    BY <1>5 DEF MQ!ThreadStep, MQ!PollLoop, MQ!LockEvents, MQ!Poll, MQ!Receive, MQ!Match, MQ!Callback,
       MQ!Answered, MQ!Retry, MQ!ResendReceived, MQ!TimeOut, MQ!Resend, MQ!TimedOut, MQ!Check,
       MQ!Goto, MQ!Leave, MQ!Return
  <2> QED BY <2>1, <2>2, Moved
<1>6. CASE MQ!Close
  <2>1. UNCHANGED <<state, mqpc>> /\ \A r \in MQ!Requests : state[r] # "sent" /\ ~MQ!Blocking(r)
    BY <1>6 DEF MQ!Close, MQ!msgVars
  <2> QED BY <2>1, RequestKindsAre DEF OneUser, MQ!Blocking, MQ!Polling
<1>7. CASE MQ!DeleteSocketEntry
  <2>1. UNCHANGED <<state, mqpc>> /\ session # "open"
    BY <1>7 DEF MQ!DeleteSocketEntry
  <2> QED BY <2>1 DEF OneUser, MQ!Blocking, MQ!Polling
<1> QED BY <1>1, <1>2, <1>4, <1>5, <1>6, <1>7 DEF MQ!Next

(* One thread at a time processes events, and none while the thread of a       *)
(* blocking request is somewhere else.                                         *)
LEMMA OneProcesses ==
    ASSUME MsgTypes, EventsLocked
    PROVE  /\ \A p, q \in MQ!Processors : mqpc[p] \in Processing /\ mqpc[q] \in Processing => p = q
           /\ pevents = NoThread => \A p \in MQ!Processors : mqpc[p] \notin Processing
BY RequestKindsAre DEF MsgTypes, EventsLocked

\* While a blocking request looks for its answer, nobody processes events.
LEMMA NobodyProcesses ==
    ASSUME MsgTypes, ThreadPlaces, OneUser, NEW r \in Sync, mqpc[r] = "check"
    PROVE  \A p \in MQ!Processors : mqpc[p] \notin Processing
<1>1. MQ!Blocking(r)
  BY RequestKindsAre DEF MQ!Blocking, MsgTypes, MsgCopies, ThreadPlaces
<1>2. SUFFICES ASSUME NEW p \in MQ!Processors, mqpc[p] \in Processing PROVE FALSE
  OBVIOUS
<1>3. p \notin Pollers
  BY <1>1, <1>2 DEF OneUser, MQ!Polling, Processing, Using
<1>4. p \in Sync /\ MQ!Blocking(p)
  BY <1>2, <1>3, RequestKindsAre DEF MQ!Blocking, ThreadPlaces, Processing, Using
<1> QED BY <1>1, <1>2, <1>4 DEF OneUser, Processing, Using

Kept == MessagesHeld /\ Untold /\ ToldOnce /\ AnswerWins

(* A step that only moves a thread to a place with nothing to do, or to a      *)
(* message of the queue.                                                       *)
LEMMA Walks ==
    ASSUME MsgInv, NEW p \in MQ!Processors, UNCHANGED <<mqueue, armed, received, outcome, state>>,
           NEW v, mqpc' = [mqpc EXCEPT ![p] = v],
           \A q \in MQ!Processors : q # p => cur'[q] = cur[q],
           mqpc[p] \notin {"answered", "timedout", "done"},
           v \notin {"answered", "timedout", "done"},
           v \in {"callback", "resend"} => cur'[p] \in mqueue
    PROVE  Kept'
<1>1. \A q \in MQ!Processors : mqpc'[q] = IF q = p THEN v ELSE mqpc[q]
  BY DEF MsgInv, MsgTypes, MsgPlaces
<1>2. MessagesHeld'
  BY <1>1 DEF MsgInv, MessagesHeld
<1>3. Untold'
  <2>1. \A r \in Sync : mqpc'[r] = "done" <=> mqpc[r] = "done"
    BY <1>1, RequestKindsAre
  <2>2. \A r \in Async : r \in mqueue /\ r \notin armed
          => \E q \in MQ!Processors : mqpc'[q] \in {"answered", "timedout"} /\ cur'[q] = r
    BY <1>1 DEF MsgInv, Untold
  <2> QED BY <2>1, <2>2 DEF MsgInv, Untold
<1>4. ToldOnce' /\ AnswerWins'
  BY DEF MsgInv, ToldOnce, AnswerWins, MQ!ToldOnce, MQ!AnswerWins
<1> QED BY <1>2, <1>3, <1>4 DEF Kept

\* Polling, receiving and resending touch no entry's end.
LEMMA WalkSteps ==
    ASSUME MsgInv, NEW p \in MQ!Processors,
           \/ MQ!PollLoop(p) \/ MQ!LockEvents(p) \/ MQ!Poll(p) \/ MQ!Receive(p)
           \/ MQ!Retry(p) \/ MQ!ResendReceived(p) \/ MQ!Resend(p)
    PROVE  Kept'
<1> USE DEF MsgInv, MsgTypes, MsgPlaces
<1>1. CASE MQ!PollLoop(p)
  BY <1>1, Walks DEF MQ!PollLoop, MQ!Goto, MQ!msgVars
<1>2. CASE MQ!LockEvents(p)
  BY <1>2, Walks DEF MQ!LockEvents, MQ!Goto, MQ!msgVars
<1>3. CASE MQ!Poll(p)
  BY <1>3, Walks DEF MQ!Poll, MQ!Goto, MQ!msgVars
<1>4. CASE MQ!Receive(p)
  BY <1>4, Walks DEF MQ!Receive, MQ!Goto, MQ!msgVars
<1>5. CASE MQ!Retry(p)
  BY <1>5, Walks DEF MQ!Retry, MQ!Goto, MQ!Return, MQ!Leave, MQ!msgVars
<1>6. CASE MQ!ResendReceived(p)
  BY <1>6, Walks DEF MQ!ResendReceived, MQ!Goto, MQ!Leave
<1>7. CASE MQ!Resend(p)
  BY <1>7, Walks DEF MQ!Resend, MQ!Goto, MQ!Leave, MQ!Return
<1> QED BY <1>1, <1>2, <1>3, <1>4, <1>5, <1>6, <1>7

(* One request is told for the first time how it ended. *)
LEMMA ToldFirst ==
    ASSUME MsgInv, NEW r \in MQ!Requests, NEW what, outcome'[r] = <<what>>,
           \A q \in MQ!Requests : q # r => outcome'[q] = outcome[q],
           received' = received, what = "timeout" => r \notin received
    PROVE  ToldOnce' /\ AnswerWins'
<1>1. Len(<<what>>) <= 1 /\ <<what>>[1] = what /\ <<"timeout">>[1] = "timeout"
  OBVIOUS
<1>2. ToldOnce'
  BY <1>1 DEF MsgInv, ToldOnce, MQ!ToldOnce
<1>3. ASSUME NEW q \in received PROVE outcome'[q] # <<"timeout">>
  BY <1>1 DEF MsgInv, MsgTypes, MsgPlaces, AnswerWins, MQ!AnswerWins
<1> QED BY <1>2, <1>3 DEF AnswerWins, MQ!AnswerWins

\* A request leaves before it is entered.
LEMMA SendKeeps ==
    ASSUME MsgInv, NEW r \in MQ!Requests, MQ!Send(r)
    PROVE  Kept'
<1> USE RequestKindsAre DEF MsgInv, MsgTypes, MsgPlaces, MsgCopies
<1>1. /\ UNCHANGED <<mqueue, armed, received, cur>> /\ state[r] = "new" /\ state'[r] # "new"
      /\ \A q \in MQ!Requests : q # r => state'[q] = state[q]
  BY DEF MQ!Send
<1>2. outcome[r] = <<>> /\ r \notin mqueue
  BY <1>1 DEF Untold
<1>3. CASE outcome' = outcome /\ mqpc' = mqpc
  <2>1. MessagesHeld'
    BY <1>1, <1>3 DEF MessagesHeld
  <2>2. Untold'
    BY <1>1, <1>2, <1>3 DEF Untold
  <2> QED BY <1>1, <1>3, <2>1, <2>2 DEF Kept, ToldOnce, AnswerWins, MQ!ToldOnce, MQ!AnswerWins
<1>4. CASE MQ!Tell(r, "failed") /\ state'[r] = "entered" /\ mqpc' = IF r \in Sync THEN [mqpc EXCEPT ![r] = "done"] ELSE mqpc
  <2>1. outcome'[r] = <<"failed">> /\ \A q \in MQ!Requests : q # r => outcome'[q] = outcome[q]
    BY <1>2, <1>4, TellIs DEF MQ!Outcomes
  <2>2. /\ \A q \in MQ!Processors : q # r => mqpc'[q] = mqpc[q]
        /\ r \in Sync => mqpc[r] = "idle" /\ mqpc'[r] = "done"
    BY <1>1, <1>4 DEF ThreadPlaces
  <2>3. MessagesHeld'
    BY <1>1, <1>4, <2>2 DEF MessagesHeld
  <2>4. Untold'
    <3>1. \A q \in Async : q \in mqueue /\ q \notin armed
            => \E p \in MQ!Processors : mqpc'[p] \in {"answered", "timedout"} /\ cur'[p] = q
      BY <1>1, <1>4, <2>2 DEF Untold
    <3>2. \A q \in MQ!Requests : state'[q] # "entered" => outcome'[q] = <<>> /\ q \notin mqueue'
      BY <1>1, <1>4, <2>1 DEF Untold
    <3>3. \A q \in mqueue' \cap armed' : outcome'[q] = <<>>
      BY <1>1, <1>2, <2>1 DEF Untold
    <3>4. \A q \in Sync :
            /\ mqpc'[q] # "done" => outcome'[q] = <<>>
            /\ q \in mqueue' => mqpc'[q] # "done"
            /\ q \in received' /\ mqpc'[q] # "done" => q \in mqueue'
      <4> TAKE q \in Sync
      <4>1. CASE q = r
        BY <1>1, <1>2, <2>2, <4>1
      <4>2. CASE q # r
        <5>1. mqpc'[q] = mqpc[q] /\ outcome'[q] = outcome[q]
          BY <2>1, <2>2, <4>2
        <5> QED BY <1>1, <5>1 DEF Untold
      <4> QED BY <4>1, <4>2
    <3> QED BY <1>1, <3>1, <3>2, <3>3, <3>4 DEF Untold
  <2>5. ToldOnce' /\ AnswerWins'
    BY <1>1, <2>1, ToldFirst
  <2> QED BY <2>3, <2>4, <2>5 DEF Kept
<1> QED BY <1>1, <1>3, <1>4 DEF MQ!Send, MQ!Goto

\* The request enters the queue.
LEMMA AddEntryKeeps ==
    ASSUME MsgInv, NEW r \in MQ!Requests, MQ!AddEntry(r)
    PROVE  Kept'
<1> USE RequestKindsAre DEF MsgInv, MsgTypes, MsgPlaces, MsgCopies
<1>1. /\ mqueue' = mqueue \cup {r} /\ armed' = IF r \in Async THEN armed \cup {r} ELSE armed
      /\ UNCHANGED <<received, outcome, cur>> /\ state[r] = "sent" /\ state'[r] = "entered"
      /\ \A q \in MQ!Requests : q # r => state'[q] = state[q]
      /\ \A q \in MQ!Processors : q # r => mqpc'[q] = mqpc[q]
      /\ r \in Sync => mqpc'[r] = "select"
      /\ r \notin Sync => mqpc' = mqpc
  BY DEF MQ!AddEntry, MQ!Goto
<1>2. outcome[r] = <<>> /\ r \notin mqueue /\ (r \in Sync => mqpc[r] = "idle")
  BY <1>1 DEF Untold, ThreadPlaces
<1>3. MessagesHeld'
  BY <1>1, <1>2 DEF MessagesHeld
<1>4. Untold'
  <2>1. \A q \in Async : q \in mqueue' /\ q \notin armed'
          => \E p \in MQ!Processors : mqpc'[p] \in {"answered", "timedout"} /\ cur'[p] = q
    BY <1>1, <1>2 DEF Untold
  <2> QED BY <1>1, <1>2, <2>1 DEF Untold
<1> QED BY <1>1, <1>3, <1>4 DEF Kept, ToldOnce, AnswerWins, MQ!ToldOnce, MQ!AnswerWins

\* The owner takes the request out of the queue and tells itself.
LEMMA CancelKeeps ==
    ASSUME Shared = FALSE, Cancelled \subseteq Async, MsgInv, NEW r \in MQ!Requests, MQ!Cancel(r)
    PROVE  Kept'
<1> USE RequestKindsAre DEF MsgInv, MsgTypes, MsgPlaces
<1>1. /\ r \in mqueue /\ r \in Async /\ mqueue' = mqueue \ {r} /\ MQ!Tell(r, "cancelled")
      /\ UNCHANGED <<armed, received, state, mqpc, cur>> /\ pevents = NoThread
  BY DEF MQ!Cancel, MQ!Delete, MQ!MayCancel
<1>2. \A p \in MQ!Processors : mqpc[p] \notin Processing
  BY <1>1, OneProcesses
<1>3. \A q \in Async : q \in mqueue => q \in armed
  BY <1>2 DEF Untold, Processing, Using
<1>4. outcome[r] = <<>>
  BY <1>1, <1>3 DEF Untold
<1>5. outcome'[r] = <<"cancelled">> /\ \A q \in MQ!Requests : q # r => outcome'[q] = outcome[q]
  BY <1>1, <1>4, TellIs DEF MQ!Outcomes
<1>6. MessagesHeld'
  BY <1>1, <1>2 DEF MessagesHeld, Processing, Using
<1>7. Untold'
  BY <1>1, <1>3, <1>5 DEF Untold
<1>8. ToldOnce' /\ AnswerWins'
  BY <1>1, <1>5, ToldFirst
<1> QED BY <1>6, <1>7, <1>8 DEF Kept

(* Nothing was told about the message of a response that has just come.        *)
LEMMA MatchKeeps ==
    ASSUME MsgInv, NEW p \in MQ!Processors, MQ!Match(p)
    PROVE  Kept'
<1> USE RequestKindsAre DEF MsgInv, MsgTypes, MsgPlaces
<1>1. CASE cur[p] \notin mqueue
  BY <1>1, Walks DEF MQ!Match, MQ!Leave, MQ!Goto
<1>2. CASE cur[p] \in mqueue
  <2>1. PICK r \in mqueue : r = cur[p]
    BY <1>2
  <2>2. /\ UNCHANGED <<mqueue, armed, outcome, state, cur>> /\ received' = received \cup {r}
        /\ mqpc[p] = "match" /\ mqpc'[p] = "callback"
        /\ \A q \in MQ!Processors : q # p => mqpc'[q] = mqpc[q] /\ mqpc[q] \notin Processing
    BY <1>2, <2>1, OneProcesses DEF MQ!Match, MQ!Goto, Processing, Using
  <2>3. \A q \in Async : q \in mqueue => q \in armed
    BY <2>2 DEF Untold, Processing, Using
  <2>4. outcome[r] = <<>>
    BY <2>1, <2>3 DEF Untold
  <2>5. MessagesHeld'
    BY <2>1, <2>2 DEF MessagesHeld, Processing, Using
  <2>6. \A q \in Sync : mqpc'[q] = "done" <=> mqpc[q] = "done"
    BY <2>2
  <2>7. Untold'
    BY <2>1, <2>2, <2>3, <2>6 DEF Untold
  <2>8. ToldOnce' /\ AnswerWins'
    BY <2>2, <2>4 DEF ToldOnce, AnswerWins, MQ!ToldOnce, MQ!AnswerWins
  <2> QED BY <2>5, <2>7, <2>8 DEF Kept
<1> QED BY <1>1, <1>2

\* An armed message is disarmed and its owner told; a disarmed one is passed by.
LEMMA CallbackKeeps ==
    ASSUME MsgInv, NEW p \in MQ!Processors, MQ!Callback(p)
    PROVE  Kept'
<1> USE RequestKindsAre DEF MsgInv, MsgTypes, MsgPlaces
<1>1. CASE cur[p] \notin armed
  BY <1>1, Walks DEF MQ!Callback, MQ!Leave, MQ!Goto
<1>2. CASE cur[p] \in armed
  <2>1. PICK r \in armed : r = cur[p]
    BY <1>2
  <2>2. /\ UNCHANGED <<mqueue, received, state, cur>> /\ armed' = armed \ {r} /\ MQ!Tell(r, "response")
        /\ mqpc[p] = "callback" /\ mqpc'[p] = "answered" /\ r \in mqueue
        /\ \A q \in MQ!Processors : q # p => mqpc'[q] = mqpc[q] /\ mqpc[q] \notin Processing
    BY <1>2, <2>1, OneProcesses DEF MQ!Callback, MQ!Goto, MessagesHeld, Processing, Using
  <2>3. \A q \in Async : q \in mqueue => q \in armed
    BY <2>2 DEF Untold, Processing, Using
  <2>4. outcome[r] = <<>> /\ state[r] = "entered"
    BY <2>1, <2>2 DEF Untold
  <2>5. outcome'[r] = <<"response">> /\ \A q \in MQ!Requests : q # r => outcome'[q] = outcome[q]
    BY <2>1, <2>2, <2>4, TellIs DEF MQ!Outcomes
  <2>6. MessagesHeld'
    BY <2>1, <2>2 DEF MessagesHeld, Processing, Using
  <2>7. \A q \in Sync : mqpc'[q] = "done" <=> mqpc[q] = "done"
    BY <2>2
  <2>8. Untold'
    BY <2>1, <2>2, <2>3, <2>4, <2>5, <2>7 DEF Untold
  <2>9. ToldOnce' /\ AnswerWins'
    BY <2>1, <2>2, <2>5, ToldFirst
  <2> QED BY <2>6, <2>8, <2>9 DEF Kept
<1> QED BY <1>1, <1>2

(* The message of a thread leaves the queue, when nothing is to be told any    *)
(* more, or when it is that of a blocking request without a response.          *)
LEMMA LeaveQueueKeeps ==
    ASSUME MsgInv, NEW p \in MQ!Processors, MQ!Answered(p) \/ MQ!TimedOut(p)
    PROVE  Kept'
<1> USE RequestKindsAre DEF MsgInv, MsgTypes, MsgPlaces
<1>1. PICK r \in MQ!Requests : r = cur[p] /\ (r \in Async \/ r \notin received)
  BY DEF MQ!Answered, MQ!TimedOut, MessagesHeld, Using
<1>2. /\ mqueue' = mqueue \ {r} /\ UNCHANGED <<armed, received, outcome, state>>
      /\ mqpc[p] \in {"answered", "timedout"} /\ mqpc'[p] \in {"poll", "retry"}
      /\ \A q \in MQ!Processors :
            q # p => mqpc'[q] = mqpc[q] /\ cur'[q] = cur[q] /\ mqpc[q] \notin Processing
  BY <1>1, OneProcesses DEF MQ!Answered, MQ!TimedOut, MQ!Delete, MQ!Leave, MQ!Goto, Processing, Using
<1>3. MessagesHeld'
  BY <1>2 DEF MessagesHeld, Processing, Using
<1>4. \A q \in Async : q \in mqueue' => q \in armed'
  BY <1>1, <1>2 DEF Untold, Processing, Using
<1>5. \A q \in Sync : mqpc'[q] = "done" <=> mqpc[q] = "done"
  BY <1>2
<1>6. Untold'
  BY <1>1, <1>2, <1>4, <1>5 DEF Untold
<1> QED BY <1>2, <1>3, <1>6 DEF Kept, ToldOnce, AnswerWins, MQ!ToldOnce, MQ!AnswerWins

\* The last retry is overdue: the owner is told of the timeout.
LEMMA TimeOutKeeps ==
    ASSUME MsgInv, NEW p \in MQ!Processors, MQ!TimeOut(p)
    PROVE  Kept'
<1> USE RequestKindsAre DEF MsgInv, MsgTypes, MsgPlaces
<1>1. PICK r \in MQ!Requests : r = cur[p] /\ r \in mqueue /\ r \notin received
  BY DEF MQ!TimeOut, MessagesHeld, Using
<1>2. /\ UNCHANGED <<mqueue, received, state, cur>> /\ armed' = armed \ {r}
      /\ mqpc[p] = "resend" /\ mqpc'[p] = "timedout"
      /\ IF r \in armed THEN MQ!Tell(r, "timeout") ELSE outcome' = outcome
      /\ \A q \in MQ!Processors : q # p => mqpc'[q] = mqpc[q] /\ mqpc[q] \notin Processing
  BY <1>1, OneProcesses DEF MQ!TimeOut, MQ!Goto, Processing, Using
<1>3. \A q \in Async : q \in mqueue => q \in armed
  BY <1>2 DEF Untold, Processing, Using
<1>4. state[r] = "entered" /\ (r \in armed => outcome[r] = <<>>)
  BY <1>1 DEF Untold
<1>5. MessagesHeld'
  BY <1>1, <1>2 DEF MessagesHeld, Processing, Using
<1>6. \A q \in Sync : mqpc'[q] = "done" <=> mqpc[q] = "done"
  BY <1>2
<1>7. CASE r \in armed
  <2>1. outcome'[r] = <<"timeout">> /\ \A q \in MQ!Requests : q # r => outcome'[q] = outcome[q]
    BY <1>2, <1>4, <1>7, TellIs DEF MQ!Outcomes
  <2>2. Untold'
    BY <1>1, <1>2, <1>3, <1>4, <1>6, <1>7, <2>1 DEF Untold
  <2>3. ToldOnce' /\ AnswerWins'
    BY <1>1, <1>2, <2>1, ToldFirst
  <2> QED BY <1>5, <2>2, <2>3 DEF Kept
<1>8. CASE r \notin armed
  <2>1. outcome' = outcome /\ armed' = armed
    BY <1>2, <1>8
  <2>2. Untold'
    BY <1>1, <1>2, <1>3, <1>6, <2>1 DEF Untold
  <2> QED BY <1>2, <1>5, <2>1, <2>2 DEF Kept, ToldOnce, AnswerWins, MQ!ToldOnce, MQ!AnswerWins
<1> QED BY <1>7, <1>8

(* A blocking request that returns with a timeout has no response, since only  *)
(* a timeout has taken its message out of the queue.                           *)
LEMMA CheckKeeps ==
    ASSUME MsgInv, NEW r \in MQ!Processors, MQ!Check(r)
    PROVE  Kept'
<1> USE RequestKindsAre DEF MsgInv, MsgTypes, MsgPlaces
<1>1. r \in Sync /\ mqpc[r] = "check" /\ UNCHANGED <<armed, received, state, cur>>
  BY DEF MQ!Check
<1>2. \A p \in MQ!Processors : mqpc[p] \notin Processing
  BY <1>1, NobodyProcesses
<1>3. outcome[r] = <<>> /\ (r \in received => r \in mqueue) /\ state[r] = "entered"
  BY <1>1 DEF Untold, ThreadPlaces
<1>4. CASE r \in mqueue /\ r \notin received
  BY <1>4, Walks DEF MQ!Check, MQ!Goto
<1>5. CASE ~(r \in mqueue /\ r \notin received)
  <2>1. PICK what \in MQ!Outcomes :
          MQ!Tell(r, what) /\ (what = "timeout" => r \notin mqueue)
    BY <1>5 DEF MQ!Check, MQ!Outcomes
  <2>2. /\ mqueue' = mqueue \ {r} /\ mqpc'[r] = "done"
        /\ \A q \in MQ!Processors : q # r => mqpc'[q] = mqpc[q]
    BY <1>1, <1>5 DEF MQ!Check, MQ!Delete, MQ!Goto
  <2>3. outcome'[r] = <<what>> /\ \A q \in MQ!Requests : q # r => outcome'[q] = outcome[q]
    BY <1>1, <1>3, <2>1, TellIs
  <2>4. MessagesHeld'
    BY <1>1, <1>2, <2>2 DEF MessagesHeld, Processing, Using
  <2>5. \A q \in Async : q \in mqueue' => q \in armed'
    BY <1>1, <1>2, <2>2 DEF Untold, Processing, Using
  <2>6. \A q \in Sync : q # r => mqpc'[q] = mqpc[q] /\ outcome'[q] = outcome[q]
    BY <2>2, <2>3
  <2>7. Untold'
    BY <1>1, <1>3, <2>2, <2>3, <2>5, <2>6 DEF Untold
  <2>8. ToldOnce' /\ AnswerWins'
    BY <1>1, <1>3, <2>1, <2>3, ToldFirst
  <2> QED BY <2>4, <2>7, <2>8 DEF Kept
<1> QED BY <1>4, <1>5

(* When the queue is destroyed, nobody processes events, no blocking request   *)
(* is left, and only armed callbacks are called.                               *)
LEMMA DestroyKeeps ==
    ASSUME MsgInv, MQ!DeleteSocketEntry
    PROVE  Kept'
<1> USE RequestKindsAre DEF MsgInv, MsgTypes, MsgPlaces, MsgCopies
<1>1. /\ mqueue' = {} /\ UNCHANGED <<received, state, mqpc, cur>> /\ ~MQ!Polling
      /\ \A r \in MQ!Requests : ~MQ!Blocking(r)
      /\ \A r \in MQ!Requests :
            outcome'[r] = IF r \in mqueue \cap armed THEN Append(outcome[r], "destroyed") ELSE outcome[r]
  BY DEF MQ!DeleteSocketEntry, OneUser, MsgOutcomes
<1>2. \A r \in Sync : mqpc[r] # "done" => state[r] = "new"
  BY <1>1 DEF MQ!Blocking
<1>3. \A p \in MQ!Processors : mqpc[p] \notin Processing
  <2>1. \A p \in Pollers : mqpc[p] \notin Processing
    BY <1>1 DEF MQ!Polling, Processing, Using
  <2>2. \A p \in Sync : mqpc[p] \notin Processing
    BY <1>2 DEF ThreadPlaces, Processing, Using
  <2> QED BY <2>1, <2>2
<1>4. MessagesHeld'
  BY <1>1, <1>3 DEF MessagesHeld, Processing, Using
<1>5. \A r \in Sync : mqpc[r] # "done" => r \notin received
  BY <1>2 DEF Untold
<1>6. \A r \in MQ!Requests : r \notin mqueue \/ r \notin armed => outcome'[r] = outcome[r]
  BY <1>1
<1>7. \A r \in MQ!Requests : r \in mqueue \cap armed => outcome'[r] = <<"destroyed">> /\ outcome[r] = <<>>
  <2>1. Append(<<>>, "destroyed") = <<"destroyed">>
    OBVIOUS
  <2> QED BY <1>1, <2>1 DEF Untold
<1>8. Untold'
  BY <1>1, <1>5, <1>6 DEF Untold
<1>9. ToldOnce'
  <2>1. Len(<<"destroyed">>) <= 1
    OBVIOUS
  <2> QED BY <1>6, <1>7, <2>1 DEF ToldOnce, MQ!ToldOnce
<1>10. AnswerWins'
  <2>1. <<"destroyed">>[1] # <<"timeout">>[1]
    OBVIOUS
  <2> QED BY <1>1, <1>6, <1>7, <2>1 DEF AnswerWins, MQ!AnswerWins
<1> QED BY <1>4, <1>8, <1>9, <1>10 DEF Kept

\* Steps that leave queue, outcomes and threads alone.
LEMMA SameKeeps ==
    ASSUME MsgInv, UNCHANGED <<mqueue, armed, received, outcome, state, mqpc, cur>>
    PROVE  Kept'
BY DEF MsgInv, Kept, MessagesHeld, Untold, ToldOnce, AnswerWins, MQ!ToldOnce, MQ!AnswerWins

\* All steps together.
LEMMA MsgStep ==
    ASSUME Shared = FALSE, Cancelled \subseteq Async, MsgInv, [MQ!Next]_(MQ!vars)
    PROVE  MsgInv'
<1>1. CASE UNCHANGED MQ!vars
  <2>1. UNCHANGED <<mqueue, state, armed, received, retry, overdue, expired, wire, inbox,
                    outcome, pevents, mqpc, cur, session>>
    BY <1>1 DEF MQ!vars, MQ!msgVars, MQ!netVars
  <2>2. Kept'
    BY <2>1, SameKeeps
  <2>3. MsgTypes'
    BY <2>1 DEF MsgInv, MsgTypes, MsgPlaces, MsgCopies, MsgOutcomes
  <2>4. EventsLocked' /\ ThreadPlaces' /\ OneUser'
    BY <2>1 DEF MsgInv, EventsLocked, ThreadPlaces, OneUser, MQ!Blocking, MQ!Polling
  <2> QED BY <2>2, <2>3, <2>4 DEF MsgInv, Kept
<1>2. CASE MQ!Next
  <2>1. MsgTypes' /\ EventsLocked' /\ ThreadPlaces' /\ OneUser'
    BY <1>2, PlacesStep, CopiesStep, OutcomesStep, LockedStep, OneUserStep DEF MsgInv, MsgTypes
  <2>2. ASSUME NEW r \in MQ!Requests,
               MQ!Send(r) \/ MQ!AddEntry(r) \/ MQ!Cancel(r) \/ MQ!Agent(r) \/ MQ!TimePasses(r)
        PROVE Kept'
    BY <2>2, SendKeeps, AddEntryKeeps, CancelKeeps, SameKeeps DEF MQ!Agent, MQ!TimePasses, MQ!msgVars
  <2>3. ASSUME NEW p \in MQ!Processors, MQ!ThreadStep(p) PROVE Kept'
    BY <2>3, WalkSteps, MatchKeeps, CallbackKeeps, LeaveQueueKeeps, TimeOutKeeps, CheckKeeps
       DEF MQ!ThreadStep
  <2>4. ASSUME MQ!Close PROVE Kept'
    BY <2>4, SameKeeps DEF MQ!Close, MQ!msgVars
  <2>5. Kept'
    BY <1>2, <2>2, <2>3, <2>4, DestroyKeeps DEF MQ!Next
  <2> QED BY <2>1, <2>5 DEF MsgInv, Kept
<1> QED BY <1>1, <1>2

\* The strengthening holds at the start.
LEMMA MsgInvInit == MQ!Init => MsgInv
<1> SUFFICES ASSUME MQ!Init PROVE MsgInv
  OBVIOUS
<1> USE RequestKindsAre
<1>1. /\ mqueue = {} /\ armed = {} /\ received = {} /\ pevents = NoThread /\ session = "open"
      /\ \A r \in MQ!Requests : state[r] = "new" /\ outcome[r] = <<>>
      /\ \A p \in Pollers : mqpc[p] \in {"top", "ended"}
      /\ \A r \in Sync : mqpc[r] = "idle"
  BY DEF MQ!Init
<1>2. EventsLocked /\ ThreadPlaces
  BY <1>1 DEF EventsLocked, ThreadPlaces, Processing, Using
<1>3. OneUser
  BY <1>1 DEF OneUser, MQ!Blocking
<1>4. MessagesHeld
  <2>1. \A p \in MQ!Processors : mqpc[p] \in {"top", "ended", "idle"}
    BY <1>1
  <2> QED BY <2>1 DEF MessagesHeld
<1>5. Untold
  BY <1>1 DEF Untold
<1>6. ToldOnce /\ AnswerWins
  <2>1. Len(<<>>) <= 1
    OBVIOUS
  <2> QED BY <1>1, <2>1 DEF ToldOnce, AnswerWins, MQ!ToldOnce, MQ!AnswerWins
<1> QED BY <1>2, <1>3, <1>4, <1>5, <1>6, MsgInit DEF MsgInv
--------------------------------------------------------------------------------
\* Where threads and messages are in an unshared session (msgqueue.cpp,
\* uxsnmp.cpp): the strengthening the three theorems below rest on.
THEOREM MessagesInvariant ==
    ASSUME Shared = FALSE, Cancelled \subseteq Async
    PROVE  MQ!Spec => []MsgInv
<1>1. MQ!Init => MsgInv
  BY MsgInvInit
<1>2. MsgInv /\ [MQ!Next]_(MQ!vars) => MsgInv'
  BY MsgStep
<1> QED BY <1>1, <1>2, PTL DEF MQ!Spec

(* A thread that uses a message without the queue's lock uses one that is      *)
(* still in the queue, as long as the session has one user and only requests   *)
(* with a callback are cancelled.                                              *)
THEOREM MessagesExist ==
    ASSUME Shared = FALSE, Cancelled \subseteq Async
    PROVE  MQ!Spec => []NoUseAfterFree
<1>1. MsgInv => NoUseAfterFree
  BY DEF MsgInv, MessagesHeld, NoUseAfterFree, MQ!NoUseAfterFree
<1> QED BY <1>1, MessagesInvariant, PTL

(* Under the same conditions a requester is told once how its request ended,   *)
(* for any number of requests, retries and late or repeated responses.         *)
THEOREM EndsToldOnce ==
    ASSUME Shared = FALSE, Cancelled \subseteq Async
    PROVE  MQ!Spec => []ToldOnce
<1>1. MsgInv => ToldOnce
  BY DEF MsgInv
<1> QED BY <1>1, MessagesInvariant, PTL

(* And a request whose response was accepted is not reported as timed out.     *)
THEOREM AnswersWin ==
    ASSUME Shared = FALSE, Cancelled \subseteq Async
    PROVE  MQ!Spec => []AnswerWins
<1>1. MsgInv => AnswerWins
  BY DEF MsgInv
<1> QED BY <1>1, MessagesInvariant, PTL
--------------------------------------------------------------------------------
(* A request that was entered and of which nobody was told anything is still   *)
(* somebody's to end: an asynchronous one is in the queue with its callback,   *)
(* where a response, a timeout or the destructor finds it, and the thread of a *)
(* blocking one is still in its call.                                          *)
NobodyForgotten ==
    \A r \in MQ!Requests : state[r] = "entered" /\ outcome[r] = <<>> =>
        IF r \in Async THEN r \in mqueue \cap armed ELSE mqpc[r] \notin {"idle", "done"}

(* With it, what is in the queue or about to be resent was entered, and what   *)
(* is about to be deleted was told.                                            *)
Followed ==
    /\ NobodyForgotten
    /\ \A r \in mqueue : state[r] = "entered"
    /\ \A p \in MQ!Processors :
          /\ mqpc[p] = "resend" => state[cur[p]] = "entered"
          /\ mqpc[p] \in {"answered", "timedout"} /\ cur[p] \in Async => outcome[cur[p]] # <<>>

(* What was told stays told, and the others hear nothing. *)
LEMMA TellFollowed ==
    ASSUME MsgOutcomes, NEW r \in MQ!Requests, NEW what \in MQ!Outcomes, MQ!Tell(r, what)
    PROVE  /\ outcome'[r] # <<>>
           /\ \A s \in MQ!Requests : s # r => outcome'[s] = outcome[s]
<1>1. outcome[r] \in Seq(MQ!Outcomes)
  BY DEF MsgOutcomes
<1>2. Append(outcome[r], what) # <<>>
  BY <1>1
<1> QED BY <1>2, TellIs

\* A thread that walks on without telling anybody, and not to a use of a message.
LEMMA FollowedWalk ==
    ASSUME MsgTypes, Followed, NEW p \in MQ!Processors, NEW v, NEW c,
           v \notin {"idle", "done", "resend", "answered", "timedout"},
           mqpc' = [mqpc EXCEPT ![p] = v], cur' = cur \/ cur' = [cur EXCEPT ![p] = c],
           UNCHANGED <<mqueue, armed, state, outcome>>
    PROVE  Followed'
<1>1. /\ \A q \in MQ!Processors : mqpc'[q] = IF q = p THEN v ELSE mqpc[q]
      /\ \A q \in MQ!Processors : q # p => cur'[q] = cur[q]
  BY DEF MsgTypes, MsgPlaces
<1>2. NobodyForgotten'
  BY <1>1, RequestKindsAre DEF Followed, NobodyForgotten
<1>3. \A q \in MQ!Processors :
          /\ mqpc'[q] = "resend" => state'[cur'[q]] = "entered"
          /\ mqpc'[q] \in {"answered", "timedout"} /\ cur'[q] \in Async => outcome'[cur'[q]] # <<>>
  BY <1>1 DEF Followed
<1> QED BY <1>2, <1>3 DEF Followed

\* The steps of a thread that walk on.
LEMMA FollowedWalks ==
    ASSUME MsgTypes, Followed, NEW p \in MQ!Processors,
           \/ MQ!PollLoop(p) \/ MQ!LockEvents(p) \/ MQ!Poll(p) \/ MQ!Receive(p) \/ MQ!Match(p)
           \/ MQ!ResendReceived(p) \/ MQ!Resend(p)
    PROVE  Followed'
<1>1. CASE MQ!PollLoop(p)
  BY <1>1, FollowedWalk DEF MQ!PollLoop, MQ!Goto, MQ!msgVars
<1>2. CASE MQ!LockEvents(p)
  BY <1>2, FollowedWalk DEF MQ!LockEvents, MQ!Goto, MQ!msgVars
<1>3. CASE MQ!Poll(p)
  <2>1. \E v \in {"receive", "retry"} : mqpc' = [mqpc EXCEPT ![p] = v]
    BY <1>3 DEF MQ!Poll, MQ!Goto
  <2> QED BY <1>3, <2>1, FollowedWalk DEF MQ!Poll, MQ!msgVars
<1>4. CASE MQ!Receive(p)
  <2>1. \/ mqpc' = [mqpc EXCEPT ![p] = "poll"] /\ cur' = cur
        \/ \E r \in MQ!Requests : mqpc' = [mqpc EXCEPT ![p] = "match"] /\ cur' = [cur EXCEPT ![p] = r]
    BY <1>4 DEF MQ!Receive, MQ!Goto
  <2> QED BY <1>4, <2>1, FollowedWalk DEF MQ!Receive, MQ!msgVars
<1>5. CASE MQ!Match(p)
  <2>1. \/ mqpc' = [mqpc EXCEPT ![p] = "callback"] /\ cur' = cur
        \/ mqpc' = [mqpc EXCEPT ![p] = "poll"] /\ cur' = [cur EXCEPT ![p] = NoThread]
    BY <1>5 DEF MQ!Match, MQ!Goto, MQ!Leave
  <2> QED BY <1>5, <2>1, FollowedWalk DEF MQ!Match
<1>6. CASE MQ!ResendReceived(p)
  BY <1>6, FollowedWalk DEF MQ!ResendReceived, MQ!Goto, MQ!Leave
<1>7. CASE MQ!Resend(p)
  <2>1. \E v \in {"retry", "top", "check"} :
            mqpc' = [mqpc EXCEPT ![p] = v] /\ cur' = [cur EXCEPT ![p] = NoThread]
    BY <1>7 DEF MQ!Resend, MQ!Goto, MQ!Leave, MQ!Return
  <2> QED BY <1>7, <2>1, FollowedWalk DEF MQ!Resend
<1> QED BY <1>1, <1>2, <1>3, <1>4, <1>5, <1>6, <1>7

\* DoRetries returns, or takes an entry, which was entered.
LEMMA FollowedRetry ==
    ASSUME MsgTypes, Followed, NEW p \in MQ!Processors, MQ!Retry(p)
    PROVE  Followed'
<1>1. UNCHANGED <<mqueue, armed, state, outcome>>
  BY DEF MQ!Retry, MQ!msgVars
<1>2. CASE MQ!Return(p)
  <2>1. \E v \in {"top", "check"} :
            mqpc' = [mqpc EXCEPT ![p] = v] /\ cur' = [cur EXCEPT ![p] = NoThread]
    BY <1>2 DEF MQ!Return, MQ!Leave, MQ!Goto
  <2> QED BY <1>1, <2>1, FollowedWalk
<1>3. CASE ~MQ!Return(p)
  <2>1. PICK r \in mqueue : cur' = [cur EXCEPT ![p] = r] /\ mqpc' = [mqpc EXCEPT ![p] = "resend"]
    BY <1>3 DEF MQ!Retry, MQ!Goto
  <2>2. /\ \A q \in MQ!Processors : mqpc'[q] = IF q = p THEN "resend" ELSE mqpc[q]
        /\ \A q \in MQ!Processors : cur'[q] = IF q = p THEN r ELSE cur[q]
    BY <2>1 DEF MsgTypes, MsgPlaces
  <2>3. NobodyForgotten'
    BY <1>1, <2>2, RequestKindsAre DEF Followed, NobodyForgotten
  <2>4. \A q \in MQ!Processors :
            /\ mqpc'[q] = "resend" => state'[cur'[q]] = "entered"
            /\ mqpc'[q] \in {"answered", "timedout"} /\ cur'[q] \in Async => outcome'[cur'[q]] # <<>>
    BY <1>1, <2>2 DEF Followed
  <2> QED BY <1>1, <2>3, <2>4 DEF Followed
<1> QED BY <1>2, <1>3

\* A request is sent and then entered, or its owner is told that it failed.
LEMMA FollowedSend ==
    ASSUME MsgTypes, Followed, NEW r \in MQ!Requests, MQ!Send(r)
    PROVE  Followed'
<1>1. /\ state[r] = "new" /\ UNCHANGED <<mqueue, armed, cur>>
      /\ \/ state' = [state EXCEPT ![r] = "sent"] /\ UNCHANGED <<outcome, mqpc>>
         \/ /\ state' = [state EXCEPT ![r] = "entered"] /\ MQ!Tell(r, "failed")
            /\ mqpc' = mqpc \/ mqpc' = [mqpc EXCEPT ![r] = "done"]
  BY DEF MQ!Send, MQ!Goto
<1>2. \A s \in MQ!Requests : s # r => state'[s] = state[s]
  BY <1>1 DEF MsgTypes, MsgCopies
<1>3. state'[r] \in {"sent", "entered"}
  BY <1>1 DEF MsgTypes, MsgCopies
<1>4. /\ state'[r] = "entered" => outcome'[r] # <<>>
      /\ \A s \in MQ!Requests : s # r => outcome'[s] = outcome[s]
  BY <1>1, TellFollowed DEF MsgTypes, MsgCopies, MQ!Outcomes
<1>5. \A q \in MQ!Processors : mqpc'[q] = mqpc[q] \/ (q = r /\ mqpc'[q] = "done")
  BY <1>1 DEF MsgTypes, MsgPlaces
<1>6. NobodyForgotten'
  BY <1>1, <1>2, <1>4, <1>5, RequestKindsAre DEF Followed, NobodyForgotten
<1>7. \A s \in mqueue' : state'[s] = "entered"
  BY <1>1, <1>2 DEF Followed, MsgTypes, MsgPlaces
<1>8. outcome[r] # <<>> => outcome'[r] # <<>>
  BY <1>1, TellFollowed DEF MsgTypes, MQ!Outcomes
<1>9. ASSUME NEW q \in MQ!Processors
      PROVE  /\ mqpc'[q] = "resend" => state'[cur'[q]] = "entered"
             /\ mqpc'[q] \in {"answered", "timedout"} /\ cur'[q] \in Async => outcome'[cur'[q]] # <<>>
  <2>1. mqpc'[q] = "resend" => state'[cur'[q]] = "entered"
    <3>1. mqpc'[q] = "resend" => cur[q] \in MQ!Requests /\ state[cur[q]] = "entered"
      BY <1>5 DEF Followed, MsgTypes, MsgPlaces, Using
    <3> QED BY <1>1, <1>2, <3>1
  <2>2. mqpc'[q] \in {"answered", "timedout"} /\ cur'[q] \in Async => outcome'[cur'[q]] # <<>>
    BY <1>1, <1>4, <1>5, <1>8, RequestKindsAre DEF Followed
  <2> QED BY <2>1, <2>2
<1> QED BY <1>6, <1>7, <1>9 DEF Followed

\* A request that is entered is in the queue with its callback, or waited for.
LEMMA FollowedAdd ==
    ASSUME MsgTypes, Followed, NEW r \in MQ!Requests, MQ!AddEntry(r)
    PROVE  Followed'
<1>1. /\ mqueue' = mqueue \cup {r} /\ state' = [state EXCEPT ![r] = "entered"]
      /\ armed' = (IF r \in Async THEN armed \cup {r} ELSE armed)
      /\ r \in Sync => mqpc' = [mqpc EXCEPT ![r] = "select"]
      /\ r \notin Sync => mqpc' = mqpc
      /\ UNCHANGED <<outcome, cur>>
  BY DEF MQ!AddEntry, MQ!Goto
<1>2. \A s \in MQ!Requests : state'[s] = IF s = r THEN "entered" ELSE state[s]
  BY <1>1 DEF MsgTypes, MsgCopies
<1>3. \A q \in MQ!Processors : mqpc'[q] = IF q = r /\ r \in Sync THEN "select" ELSE mqpc[q]
  BY <1>1 DEF MsgTypes, MsgPlaces
<1>4. NobodyForgotten'
  BY <1>1, <1>2, <1>3, RequestKindsAre DEF Followed, NobodyForgotten
<1>5. \A s \in mqueue' : state'[s] = "entered"
  BY <1>1, <1>2 DEF Followed, MsgTypes, MsgPlaces
<1>6. ASSUME NEW q \in MQ!Processors
      PROVE  /\ mqpc'[q] = "resend" => state'[cur'[q]] = "entered"
             /\ mqpc'[q] \in {"answered", "timedout"} /\ cur'[q] \in Async => outcome'[cur'[q]] # <<>>
  <2>1. mqpc'[q] = "resend" => cur[q] \in MQ!Requests /\ state[cur[q]] = "entered"
    BY <1>3 DEF Followed, MsgTypes, MsgPlaces, Using
  <2>2. mqpc'[q] \in {"answered", "timedout"} => mqpc'[q] = mqpc[q]
    BY <1>3
  <2> QED BY <1>1, <1>2, <2>1, <2>2 DEF Followed
<1> QED BY <1>4, <1>5, <1>6 DEF Followed

\* An owner is told, by a thread p that goes from one place to another.
LEMMA FollowedTell ==
    ASSUME MsgTypes, Followed, NEW r \in MQ!Requests, NEW what \in MQ!Outcomes, MQ!Tell(r, what),
           mqueue' \subseteq mqueue, mqueue \ {r} \subseteq mqueue', armed \ {r} \subseteq armed',
           UNCHANGED <<state, cur>>,
           \/ mqpc' = mqpc
           \/ \E p \in MQ!Processors :
                 /\ cur[p] = r /\ \E v \in {"answered", "timedout"} : mqpc' = [mqpc EXCEPT ![p] = v]
           \/ r \in Sync /\ mqpc' = [mqpc EXCEPT ![r] = "done"]
    PROVE  Followed'
<1>1. /\ outcome'[r] # <<>>
      /\ \A s \in MQ!Requests : s # r => outcome'[s] = outcome[s]
  BY TellFollowed DEF MsgTypes
<1>2. \A q \in MQ!Processors :
          \/ mqpc'[q] = mqpc[q]
          \/ mqpc'[q] \in {"answered", "timedout"} /\ cur[q] = r
          \/ mqpc'[q] = "done" /\ q = r
  BY DEF MsgTypes, MsgPlaces
<1>3. NobodyForgotten'
  BY <1>1, <1>2, RequestKindsAre DEF Followed, NobodyForgotten
<1>4. \A s \in mqueue' : state'[s] = "entered"
  BY DEF Followed
<1>5. ASSUME NEW q \in MQ!Processors
      PROVE  /\ mqpc'[q] = "resend" => state'[cur'[q]] = "entered"
             /\ mqpc'[q] \in {"answered", "timedout"} /\ cur'[q] \in Async => outcome'[cur'[q]] # <<>>
  BY <1>1, <1>2, RequestKindsAre DEF Followed
<1> QED BY <1>3, <1>4, <1>5 DEF Followed

\* cancel(), a callback, and the end of a blocking call tell the owner.
LEMMA FollowedTells ==
    ASSUME MsgTypes, Followed,
           \/ \E r \in MQ!Requests : MQ!Cancel(r)
           \/ \E p \in MQ!Processors : MQ!Callback(p) \/ MQ!TimeOut(p) \/ MQ!Check(p)
    PROVE  Followed'
<1>1. {"response", "timeout", "cancelled"} \subseteq MQ!Outcomes
  BY DEF MQ!Outcomes
<1>2. ASSUME NEW r \in MQ!Requests, MQ!Cancel(r) PROVE Followed'
  BY <1>1, <1>2, FollowedTell DEF MQ!Cancel, MQ!Delete
<1>3. ASSUME NEW p \in MQ!Processors, MQ!Callback(p) PROVE Followed'
  <2>1. CASE cur[p] \in armed
    <3>1. cur[p] \in MQ!Requests
      BY <2>1, RequestKindsAre DEF MsgTypes, MsgPlaces
    <3> QED BY <1>1, <1>3, <2>1, <3>1, FollowedTell DEF MQ!Callback, MQ!Goto
  <2>2. CASE cur[p] \notin armed
    BY <1>3, <2>2, FollowedWalk DEF MQ!Callback, MQ!Leave, MQ!Goto
  <2> QED BY <2>1, <2>2
<1>4. ASSUME NEW p \in MQ!Processors, MQ!TimeOut(p) PROVE Followed'
  <2> DEFINE r == cur[p]
  <2>1. /\ r \in MQ!Requests /\ state[r] = "entered"
        /\ mqpc' = [mqpc EXCEPT ![p] = "timedout"] /\ armed' = armed \ {r}
        /\ UNCHANGED <<mqueue, state, cur>>
    BY <1>4 DEF MQ!TimeOut, MQ!Goto, Followed, MsgTypes, MsgPlaces, Using
  <2>2. CASE r \in armed
    BY <1>1, <1>4, <2>1, <2>2, FollowedTell DEF MQ!TimeOut
  <2>3. CASE r \notin armed
    <3>1. outcome' = outcome /\ armed' = armed
      BY <1>4, <2>1, <2>3 DEF MQ!TimeOut
    <3>2. r \in Async => outcome[r] # <<>>
      BY <2>1, <2>3 DEF Followed, NobodyForgotten
    <3>3. \A q \in MQ!Processors : mqpc'[q] = IF q = p THEN "timedout" ELSE mqpc[q]
      BY <2>1 DEF MsgTypes, MsgPlaces
    <3>4. NobodyForgotten'
      BY <2>1, <3>1, <3>3, RequestKindsAre DEF Followed, NobodyForgotten
    <3>5. \A q \in MQ!Processors :
              /\ mqpc'[q] = "resend" => state'[cur'[q]] = "entered"
              /\ mqpc'[q] \in {"answered", "timedout"} /\ cur'[q] \in Async => outcome'[cur'[q]] # <<>>
      BY <2>1, <3>1, <3>2, <3>3 DEF Followed
    <3> QED BY <2>1, <3>4, <3>5 DEF Followed
  <2> QED BY <2>2, <2>3
<1>5. ASSUME NEW r \in MQ!Processors, MQ!Check(r) PROVE Followed'
  <2>1. CASE r \in mqueue /\ r \notin received
    BY <1>5, <2>1, FollowedWalk DEF MQ!Check, MQ!Goto
  <2>2. CASE ~(r \in mqueue /\ r \notin received)
    <3>1. /\ r \in Sync /\ \E what \in {"response", "timeout"} : MQ!Tell(r, what)
          /\ mqueue' = mqueue \ {r} /\ mqpc' = [mqpc EXCEPT ![r] = "done"]
          /\ UNCHANGED <<state, cur, armed>>
      BY <1>5, <2>2 DEF MQ!Check, MQ!Goto, MQ!Delete
    <3> QED BY <1>1, <3>1, RequestKindsAre, FollowedTell
  <2> QED BY <2>1, <2>2
<1> QED BY <1>2, <1>3, <1>4, <1>5

\* What leaves the queue after its callback was told.
LEMMA FollowedLeave ==
    ASSUME MsgTypes, Followed, NEW p \in MQ!Processors, MQ!Answered(p) \/ MQ!TimedOut(p)
    PROVE  Followed'
<1>1. /\ mqueue' = mqueue \ {cur[p]} /\ \E v \in {"poll", "retry"} : mqpc' = [mqpc EXCEPT ![p] = v]
      /\ cur' = [cur EXCEPT ![p] = NoThread] /\ UNCHANGED <<armed, state, outcome>>
      /\ mqpc[p] \in {"answered", "timedout"}
  BY DEF MQ!Answered, MQ!TimedOut, MQ!Delete, MQ!Leave, MQ!Goto
<1>2. /\ \A q \in MQ!Processors : q # p => mqpc'[q] = mqpc[q] /\ cur'[q] = cur[q]
      /\ mqpc'[p] \in {"poll", "retry"}
  BY <1>1 DEF MsgTypes, MsgPlaces
<1>3. cur[p] \in Async => outcome[cur[p]] # <<>>
  BY <1>1 DEF Followed
<1>4. NobodyForgotten'
  BY <1>1, <1>2, <1>3, RequestKindsAre DEF Followed, NobodyForgotten
<1>5. \A q \in MQ!Processors :
          /\ mqpc'[q] = "resend" => state'[cur'[q]] = "entered"
          /\ mqpc'[q] \in {"answered", "timedout"} /\ cur'[q] \in Async => outcome'[cur'[q]] # <<>>
  BY <1>1, <1>2 DEF Followed
<1> QED BY <1>1, <1>4, <1>5 DEF Followed

\* The destructor tells everybody whose callback is armed.
LEMMA FollowedDestroy ==
    ASSUME MsgTypes, Followed, MQ!DeleteSocketEntry
    PROVE  Followed'
<1>1. /\ mqueue' = {} /\ UNCHANGED <<state, mqpc, cur>>
      /\ outcome' = [r \in MQ!Requests |->
            IF r \in mqueue \cap armed THEN Append(outcome[r], "destroyed") ELSE outcome[r]]
  BY DEF MQ!DeleteSocketEntry
<1>2. ASSUME NEW r \in MQ!Requests
      PROVE  /\ outcome[r] # <<>> => outcome'[r] # <<>>
             /\ r \in mqueue \cap armed => outcome'[r] # <<>>
             /\ outcome'[r] = <<>> => outcome[r] = <<>>
  <2>1. outcome[r] \in Seq(MQ!Outcomes)
    BY DEF MsgTypes, MsgOutcomes
  <2>2. Append(outcome[r], "destroyed") # <<>>
    BY <2>1
  <2> QED BY <1>1, <2>2
<1>3. NobodyForgotten'
  BY <1>1, <1>2, RequestKindsAre DEF Followed, NobodyForgotten
<1>4. \A q \in MQ!Processors :
          /\ mqpc'[q] = "resend" => state'[cur'[q]] = "entered"
          /\ mqpc'[q] \in {"answered", "timedout"} /\ cur'[q] \in Async => outcome'[cur'[q]] # <<>>
  BY <1>1, <1>2, RequestKindsAre DEF Followed
<1> QED BY <1>1, <1>3, <1>4 DEF Followed

\* Every step of the session leaves somebody at every request.
LEMMA FollowedStep == MsgTypes /\ Followed /\ MQ!Next => Followed'
<1> SUFFICES ASSUME MsgTypes, Followed, MQ!Next PROVE Followed'
  OBVIOUS
<1>1. ASSUME UNCHANGED <<mqueue, armed, state, outcome, mqpc, cur>> PROVE Followed'
  BY <1>1 DEF Followed, NobodyForgotten
<1>2. ASSUME NEW r \in MQ!Requests, MQ!Agent(r) \/ MQ!TimePasses(r) PROVE Followed'
  BY <1>1, <1>2 DEF MQ!Agent, MQ!TimePasses, MQ!msgVars
<1>3. ASSUME MQ!Close PROVE Followed'
  BY <1>1, <1>3 DEF MQ!Close, MQ!msgVars
<1>4. ASSUME NEW r \in MQ!Requests, MQ!Send(r) \/ MQ!AddEntry(r) \/ MQ!Cancel(r) PROVE Followed'
  BY <1>4, FollowedSend, FollowedAdd, FollowedTells
<1>5. ASSUME NEW p \in MQ!Processors, MQ!ThreadStep(p) PROVE Followed'
  BY <1>5, FollowedWalks, FollowedRetry, FollowedTells, FollowedLeave DEF MQ!ThreadStep
<1> QED BY <1>2, <1>3, <1>4, <1>5, FollowedDestroy DEF MQ!Next

(* Nobody who entered a request is forgotten, also when threads share the      *)
(* session and blocking requests are cancelled, as the theorems above exclude:  *)
(* the request is told how it ended, or it is in the queue with its callback,  *)
(* or its thread is in its call and goes on with it.                           *)
THEOREM RequestsFollowed == MQ!Spec => []NobodyForgotten
<1>1. MQ!Init => MsgTypes /\ Followed
  <2> SUFFICES ASSUME MQ!Init PROVE Followed
    BY MsgInit
  <2>1. /\ mqueue = {} /\ \A r \in MQ!Requests : state[r] = "new"
        /\ \A p \in MQ!Processors : mqpc[p] \in {"top", "ended", "idle"}
    BY DEF MQ!Init
  <2> QED BY <2>1 DEF Followed, NobodyForgotten
<1>2. MsgTypes /\ Followed /\ [MQ!Next]_(MQ!vars) => (MsgTypes /\ Followed)'
  <2>1. MsgTypes /\ Followed /\ UNCHANGED MQ!vars => (MsgTypes /\ Followed)'
    BY DEF MsgTypes, MsgPlaces, MsgCopies, MsgOutcomes, Followed, NobodyForgotten,
           MQ!vars, MQ!msgVars, MQ!netVars
  <2>2. MsgTypes /\ MQ!Next => MsgTypes'
    BY PlacesStep, CopiesStep, OutcomesStep DEF MsgTypes
  <2> QED BY <2>1, <2>2, FollowedStep
<1>3. Followed => NobodyForgotten
  BY DEF Followed
<1> QED BY <1>1, <1>2, <1>3, PTL DEF MQ!Spec
--------------------------------------------------------------------------------
(* The three programs together, whoever shares the session. *)
SnmpInv == IInv /\ MsgTypes /\ PoolInv

(* Every variable of the agent, of the session and of the pools has its type,  *)
(* for any number of requests, threads and retries.                            *)
THEOREM SnmpTypesCorrect == MCSpec => []AllTypesOK
<1>1. MCInit => SnmpInv
  BY InitInv, MsgInit, PoolInit DEF MCInit, SnmpInv
<1>2. SnmpInv /\ [MCNext]_allVars => SnmpInv'
  <2> SUFFICES ASSUME SnmpInv, [MCNext]_allVars PROVE SnmpInv'
    OBVIOUS
  <2>1. UNCHANGED vars => IInv'
    BY StepInv DEF SnmpInv
  <2>2. UNCHANGED mqVars => MsgTypes'
    BY DEF mqVars, SnmpInv, MsgTypes, MsgPlaces, MsgCopies, MsgOutcomes
  <2>3. UNCHANGED tpVars => PoolInv'
    BY DEF tpVars, SnmpInv, PoolInv, TP!TypeOK
  <2>4. CASE UNCHANGED allVars
    BY <2>1, <2>2, <2>3, <2>4 DEF SnmpInv, allVars
  <2>5. CASE Mib
    BY <2>2, <2>3, <2>5, StepInv DEF SnmpInv, Mib
  <2>6. CASE Messages
    BY <2>1, <2>3, <2>6, PlacesStep, CopiesStep, OutcomesStep DEF SnmpInv, MsgTypes, Messages
  <2>7. CASE Pool
    BY <2>1, <2>2, <2>7, PoolStep DEF SnmpInv, Pool
  <2> QED BY <2>4, <2>5, <2>6, <2>7 DEF MCNext
<1>3. SnmpInv => AllTypesOK
  BY MsgTypesOK DEF SnmpInv, AllTypesOK, PoolInv, IInv, TypeInv, TypeOK
<1> QED BY <1>1, <1>2, <1>3, PTL DEF MCSpec

(* The specification the runs check is one of the three programs. *)
LEMMA SnmpParts == MCSpec => Spec /\ MQ!Spec /\ TP!Spec
<1>1. MCInit => Init /\ MQ!Init /\ TP!Init
  BY DEF MCInit
<1>2. [MCNext]_allVars => [Next]_vars /\ [MQ!Next]_(MQ!vars) /\ [TP!Next]_(TP!vars)
  <2>1. UNCHANGED mqVars => UNCHANGED MQ!vars
    BY DEF mqVars, MQ!vars, MQ!msgVars, MQ!netVars
  <2>2. UNCHANGED tpVars => UNCHANGED TP!vars
    BY DEF tpVars, TP!vars
  <2> QED BY <2>1, <2>2 DEF MCNext, Mib, Messages, Pool, allVars
<1> QED BY <1>1, <1>2, PTL DEF MCSpec, Spec, MQ!Spec, TP!Spec

(* So what is proved of an agent, of a session and of a pool holds of the      *)
(* specification the runs check: nobody uses a lock that is gone or waits in a *)
(* circle, and no task and no request is lost or forgotten.                    *)
THEOREM SnmpCorrect ==
    MCSpec => [](EntriesInUseExist /\ WaitsEnd /\ TasksConserved /\ NoTaskForgotten /\ NobodyForgotten)
BY SnmpParts, EntriesCorrect, NobodyWaitsInCircles, TasksCorrect, TasksWatched, RequestsFollowed, PTL
================================================================================
