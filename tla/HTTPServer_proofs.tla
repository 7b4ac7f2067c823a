---------------------------- MODULE HTTPServer_proofs ----------------------------
(* What the server guarantees for any number of services and connections: who  *)
(* has a service, and which session it serves.                                 *)
EXTENDS HTTPServer, TLAPS, FiniteSetTheorems, WellFoundedInduction

Pieces == {"req", "bad", "head", "tail", "blank"}
Running == {"idle"} \cup Pool!FreeLabels
Getting == {"idle"} \cup Pool!GetLabels \cup Pool!WaitLabels

(* The queue, and where the threads are inside the pool.  Of cond.wait one of   *)
(* the two halves is never reached: with the mutex in hand already a thread    *)
(* does not take it again, and without it nobody gets past the first line.     *)
PoolTypes ==
    /\ pool \in Seq(Services \cup {Null})
    /\ owner \in Pool!Threads \cup {NoThread}
    /\ pc \in [Pool!Threads -> Pool!Labels]
    /\ arg \in [Pool!Threads -> Services \cup {Null}]
    /\ \A t \in Pool!Threads : pc[t] \in Pool!WaitLabels =>
          pc[t] \in IF WaitLocked THEN {"wait.block", "wait.sleep", "wait.wake"}
                   ELSE {"wait.enter"}

Types ==
    /\ TypeOK /\ PoolTypes
    /\ pc[Acceptor] \in Getting /\ \A s \in Services : pc[s] \in Running
    /\ todo \in [Ports -> Seq(Pieces)] /\ inbox \in [Ports -> Seq(Pieces)]
    /\ timer = [c \in Ports |-> "off"]

(* A service has at most one port, which needs no links.                       *)
OneList ==
    /\ next = [c \in Ports |-> Null] /\ prev = [c \in Ports |-> Null]
    /\ last = first
    /\ \A s \in Services :
          /\ count[s] = IF first[s] = Null THEN 0 ELSE 1
          /\ first[s] # Null => service[first[s]] = s /\ life[first[s]] = "live"
    /\ \A c \in Ports : service[c] # Null => first[service[c]] = c

(* A connection that no service thread knows of yet.                           *)
Fresh(c) == life[c] = "none" \/ (apc = "attach" /\ conn = c)

(* A session that may be called back and knows its request can answer it.      *)
Ready(c) == sem[c] = 1 /\ sstate[c] \notin {"INITIAL", "GETTINGHEAD"} => head[c] \in {"req", "garbled"}

Sessions ==
    /\ \A c \in Ports : Fresh(c) => /\ service[c] = Null /\ phase[c] = "base"
                                    /\ \A s \in Services : cur[s] # c /\ called[s] # c
    /\ \A c \in Ports : (phase[c] # "built" => sem[c] = 0) /\ Ready(c)

(* The acceptor constructs the session conn for the service asvc.              *)
Attached == {"start", "update", "vptr", "members", "body"}

AcceptorInv ==
    /\ apc = "get" <=> pc[Acceptor] # "idle"
    /\ apc \in {"run", "get"} => asvc = Null
    /\ arg[Acceptor] # Null => pc[Acceptor] = "get.leave"
    /\ apc \in {"attach", "start", "update"} => asvc # Null
    /\ apc \in {"attach"} \cup Attached => conn # Null /\ life[conn] # "none"
    /\ apc = "attach" => life[conn] = "live"
    /\ apc \in {"start", "update", "vptr"} => phase[conn] = "base"
    /\ apc = "members" => phase[conn] = "vptr"
    /\ apc = "body" => phase[conn] = "members"

(* The thread of a service is at its one port, in a method of its session.     *)
ThreadAt(s) ==
    /\ locked[s] <=> rpc[s] \in {"visit", "timer", "pending", "disconnect"}
    /\ rpc[s] \notin {"due", "expired"}
    /\ called[s] # Null <=> rpc[s] \in {"pending", "disconnect"}
    /\ rpc[s] = "visit" => cur[s] \in {first[s], Null}
    /\ rpc[s] = "timer" => cur[s] # Null /\ first[s] \in {cur[s], Null}
    /\ rpc[s] = "pending" => cur[s] = first[s] /\ called[s] = first[s] /\ first[s] # Null
    /\ rpc[s] = "disconnect" =>
          cur[s] = Null /\ first[s] = Null /\ called[s] # Null /\ service[called[s]] = Null
    /\ hpc[s] # "idle" => rpc[s] \in {"pending", "disconnect"} /\ phase[called[s]] = "built"
    /\ hpc[s] \in {"read", "process"} => rpc[s] = "pending" /\ sem[called[s]] = 0
    /\ hpc[s] = "read" => sstate[called[s]] = "GETTINGHEAD"
    /\ hpc[s] = "process" => head[called[s]] \in {"req", "garbled"}
    /\ hpc[s] = "freeing" <=> pc[s] # "idle"
    /\ arg[s] # Null => arg[s] = s /\ pc[s] \in {"free.enter", "free.push"}

(* Its session has the service, and has not begun to give it back.             *)
Lent(s) == first[s] # Null /\ hpc[s] \notin {"freeing", "destroy"}

(* Who has a service: the pool, the acceptor on its way out of getService, the *)
(* acceptor, the session, or the thread on its way into freeService.           *)
TokenAt(s) ==
    /\ s \in Range(pool) => arg[Acceptor] # s /\ asvc # s /\ arg[s] # s /\ ~Lent(s)
    /\ arg[Acceptor] = s => arg[s] # s /\ ~Lent(s)
    /\ asvc = s /\ apc \notin Attached => arg[s] # s /\ ~Lent(s)
    /\ asvc = s /\ apc \in Attached =>
          /\ arg[s] # s /\ hpc[s] = "idle"
          /\ first[s] \in {conn, Null} /\ called[s] \in {conn, Null}

OnceInPool == \A i, j \in DOMAIN pool : pool[i] = pool[j] /\ pool[i] # Null => i = j

ServerInv ==
    /\ Types /\ Pool!MutexHeld /\ OneList /\ Sessions /\ AcceptorInv /\ OnceInPool
    /\ \A s \in Services : ThreadAt(s) /\ TokenAt(s)

(* If no connection is reset, no port is found hung up and a service is always *)
(* with somebody.                                                              *)
Kept(s) ==
    \/ s \in Range(pool) \cup {arg[Acceptor], arg[s], asvc}
    \/ Lent(s)

KeptInv ==
    /\ \A c \in Ports : client[c] # "reset"
    /\ \A s \in Services : hup[s] = {} /\ rpc[s] # "disconnect" /\ Kept(s)
    /\ apc \in Attached /\ asvc # Null => first[asvc] = conn
--------------------------------------------------------------------------------
(* The pool.                                                                    *)

(* What the queue holds after one service is taken or given.                    *)
LEMMA QueueRange ==
    ASSUME NEW S, NEW q \in Seq(S), NEW e \in S
    PROVE  /\ Append(q, e) \in Seq(S)
           /\ \A x : x \in Range(Append(q, e)) <=> x \in Range(q) \/ x = e
           /\ q # <<>> => /\ Head(q) \in S /\ Tail(q) \in Seq(S)
                          /\ Head(q) \in Range(q)
                          /\ \A x \in Range(Tail(q)) : x \in Range(q)
<1>1. \A x : x \in Range(Append(q, e)) <=> x \in Range(q) \/ x = e
  <2>1. DOMAIN q = 1 .. Len(q) /\ DOMAIN Append(q, e) = 1 .. Len(q) + 1 /\ Len(q) \in Nat
    OBVIOUS
  <2>2. Append(q, e)[Len(q) + 1] = e /\ \A i \in 1 .. Len(q) : Append(q, e)[i] = q[i]
    OBVIOUS
  <2>3. Len(q) + 1 \in 1 .. Len(q) + 1
        /\ \A i \in 1 .. Len(q) + 1 : i = Len(q) + 1 \/ i \in 1 .. Len(q)
    BY <2>1
  <2>4. \A i \in 1 .. Len(q) : i \in 1 .. Len(q) + 1
    BY <2>1
  <2> QED BY <2>1, <2>2, <2>3, <2>4 DEF Range
<1>2. q # <<>> => /\ Head(q) \in Range(q)
                  /\ \A x \in Range(Tail(q)) : x \in Range(q)
  <2> HAVE q # <<>>
  <2>1. DOMAIN q = 1 .. Len(q) /\ Len(q) \in Nat /\ Len(q) >= 1 /\ Head(q) = q[1]
    OBVIOUS
  <2>2. DOMAIN Tail(q) = 1 .. Len(q) - 1 /\ \A i \in 1 .. Len(q) - 1 : Tail(q)[i] = q[i + 1]
    BY <2>1
  <2>3. 1 \in 1 .. Len(q) /\ \A i \in 1 .. Len(q) - 1 : i + 1 \in 1 .. Len(q)
    BY <2>1
  <2> QED BY <2>1, <2>2, <2>3 DEF Range
<1> QED BY <1>1, <1>2

(* Where enterMutex leads. *)
LEMMA EnterLeads ==
    /\ DOMAIN Pool!AfterEnter = {"get.enter", "free.enter", "wait.enter", "wait.wake"}
    /\ Pool!AfterEnter["get.enter"] = "get.test"
    /\ Pool!AfterEnter["free.enter"] = "free.push"
    /\ Pool!AfterEnter["wait.enter"] = "wait.block"
    /\ Pool!AfterEnter["wait.wake"] = IF WaitLocked THEN "get.test" ELSE "wait.leave"
BY DEF Pool!AfterEnter

(* A step of t inside the pool.                                                 *)
Moved(t) ==
    /\ pc[t] # "idle"
    /\ pc'[t] = "idle" <=> pc[t] \in {"get.leave", "free.leave"}
    /\ pc[t] \in Pool!FreeLabels => pc'[t] \in Running
    /\ pc[t] \notin Pool!FreeLabels => pc'[t] \in Getting
    /\ \A u \in Pool!Threads \ {t} :
          arg'[u] = arg[u] /\ (pc'[u] = pc[u] \/ (pc[u] = "wait.sleep" /\ pc'[u] = "wait.wake"))
    /\ \/ /\ pool' = pool /\ arg'[t] = arg[t] /\ pc[t] \notin {"get.leave", "free.push"}
          /\ pc[t] = "free.enter" => pc'[t] = "free.push"
       \/ /\ pc[t] = "get.test" /\ pc'[t] = "get.leave"
          /\ pool # <<>> /\ pool' = Tail(pool) /\ arg'[t] = Head(pool)
       \/ /\ pc[t] = "get.leave" /\ pool' = pool /\ arg'[t] = Null
       \/ /\ pc[t] = "free.push" /\ pool' = Append(pool, arg[t]) /\ arg'[t] = Null

(* The mutex protects the queue in the server as well.                          *)
LEMMA PoolMoves ==
    ASSUME PoolTypes, Pool!MutexHeld, NEW t \in Pool!Threads,
           Pool!Step(t) \/ Pool!SpuriousWakeup(t)
    PROVE  PoolTypes' /\ Pool!MutexHeld' /\ Moved(t)
<1> USE ThreadsDiffer DEF PoolTypes, Pool!MutexHeld, Pool!Threads, Pool!Go, Pool!Holding, Pool!Labels,
        Pool!GetLabels, Pool!WaitLabels, Pool!FreeLabels, Moved, Running, Getting
<1>1. CASE Pool!EnterMutex(t)
  <2>1. PICK l : l = Pool!AfterEnter[pc[t]]
    OBVIOUS
  <2>2. /\ pc[t] \in {"get.enter", "free.enter", "wait.enter", "wait.wake"}
        /\ owner = NoThread /\ owner' = t /\ pc' = [pc EXCEPT ![t] = l]
        /\ pool' = pool /\ arg' = arg
    BY <1>1, <2>1, EnterLeads DEF Pool!EnterMutex
  <2>3. /\ pc[t] = "get.enter" => l = "get.test"
        /\ pc[t] = "free.enter" => l = "free.push"
        /\ pc[t] = "wait.wake" => l = "get.test"
        /\ pc[t] # "wait.enter"
    BY <2>1, <2>2, EnterLeads
  <2> QED BY <2>2, <2>3
<1>2. CASE Pool!LeaveMutex(t)
  <2>1. arg' \in [Pool!Threads -> Services \cup {Null}]
    BY <1>2 DEF Pool!LeaveMutex
  <2>2. pc[t] # "wait.leave"
    OBVIOUS
  <2> QED BY <1>2, <2>1, <2>2 DEF Pool!LeaveMutex
<1>3. CASE Pool!TestEmpty(t)
  BY <1>3 DEF Pool!TestEmpty
<1>4. CASE Pool!Pop(t)
  <2>1. Head(pool) \in Services \cup {Null} /\ Tail(pool) \in Seq(Services \cup {Null})
    BY <1>4 DEF Pool!Pop
  <2> QED BY <1>4, <2>1 DEF Pool!Pop
<1>5. CASE Pool!Block(t)
  BY <1>5 DEF Pool!Block
<1>6. CASE Pool!Push(t)
  <2>1. Append(pool, arg[t]) \in Seq(Services \cup {Null})
    OBVIOUS
  <2> QED BY <1>6, <2>1 DEF Pool!Push
<1>7. CASE Pool!Signal(t)
  <2>1. CASE {w \in Pool!Threads : pc[w] = "wait.sleep"} = {}
    BY <1>7, <2>1 DEF Pool!Signal
  <2>2. CASE {w \in Pool!Threads : pc[w] = "wait.sleep"} # {}
    <3>1. PICK w \in Pool!Threads : /\ pc[w] = "wait.sleep"
                                    /\ pc' = [pc EXCEPT ![t] = "free.leave", ![w] = "wait.wake"]
      BY <1>7, <2>2 DEF Pool!Signal
    <3> QED BY <1>7, <3>1 DEF Pool!Signal
  <2> QED BY <2>1, <2>2
<1>8. CASE Pool!SpuriousWakeup(t)
  BY <1>8 DEF Pool!SpuriousWakeup
<1> QED BY <1>1, <1>2, <1>3, <1>4, <1>5, <1>6, <1>7, <1>8 DEF Pool!Step
--------------------------------------------------------------------------------
(* A step of a service thread that leaves the lists, the pool and the acceptor  *)
(* alone.                                                                       *)
Near(s) ==
    /\ UNCHANGED <<list, life, accVars, phase, pool>>
    /\ arg'[Acceptor] = arg[Acceptor] /\ pc'[Acceptor] = pc[Acceptor]
    /\ \A t \in Services \ {s} :
          /\ rpc'[t] = rpc[t] /\ locked'[t] = locked[t] /\ cur'[t] = cur[t]
          /\ called'[t] = called[t] /\ hpc'[t] = hpc[t] /\ pc'[t] = pc[t] /\ arg'[t] = arg[t]
    /\ cur'[s] \in {cur[s], first[s], Null} /\ called'[s] \in {called[s], first[s], Null}
    /\ \A c \in Ports : c # first[s] => sem'[c] = sem[c] /\ sstate'[c] = sstate[c]
                                         /\ head'[c] = head[c]
    /\ \A c \in Ports : phase[c] # "built" => sem'[c] = sem[c]
    /\ \A c \in Ports : c = first[s] => Ready(c)'

(* What is known of every service: its one port is its own, and the rest is    *)
(* about its thread and about who has it.                                       *)
LEMMA KnownOf ==
    ASSUME ServerInv, NEW s \in Services
    PROVE  /\ ThreadAt(s) /\ TokenAt(s)
           /\ first[s] \in Ports \cup {Null}
           /\ first[s] # Null => /\ first[s] \in Ports /\ service[first[s]] = s
                                 /\ life[first[s]] = "live" /\ ~Fresh(first[s])
           /\ called[s] # Null => called[s] \in Ports
           /\ cur[s] # Null => cur[s] \in Ports
BY NullIsNone DEF ServerInv, OneList, Sessions, Types, TypeOK, SvcTypeOK

\* A step near one service leaves the other services' parts of the invariant alone.
LEMMA NearKeeps ==
    ASSUME ServerInv, NEW s \in Services, Types', Pool!MutexHeld', Near(s),
           ThreadAt(s)', TokenAt(s)'
    PROVE  ServerInv'
<1>1. OneList'
  BY DEF Near, list, ServerInv, OneList
<1>2. Sessions'
  <2>1. \A c \in Ports : Fresh(c)' = Fresh(c)
    BY DEF Near, accVars, Fresh
  <2>2. ASSUME NEW c \in Ports, Fresh(c)
        PROVE  /\ service'[c] = Null /\ phase'[c] = "base"
               /\ \A t \in Services : cur'[t] # c /\ called'[t] # c
    <3>1. /\ service[c] = Null /\ phase[c] = "base"
          /\ \A t \in Services : cur[t] # c /\ called[t] # c
      BY <2>2 DEF ServerInv, Sessions
    <3>2. first[s] # c /\ c # Null
      BY <2>2, KnownOf, NullIsNone
    <3>3. cur'[s] # c /\ called'[s] # c
      BY <3>1, <3>2 DEF Near
    <3>4. \A t \in Services \ {s} : cur'[t] = cur[t] /\ called'[t] = called[t]
      BY DEF Near
    <3>5. service' = service /\ phase' = phase
      BY DEF Near, list
    <3> QED BY <3>1, <3>3, <3>4, <3>5
  <2>3. ASSUME NEW c \in Ports, phase'[c] # "built" PROVE sem'[c] = 0
    BY <2>3 DEF Near, ServerInv, Sessions
  <2>4. ASSUME NEW c \in Ports PROVE Ready(c)'
    BY DEF Near, ServerInv, Sessions, Ready
  <2> QED BY <2>1, <2>2, <2>3, <2>4 DEF Sessions
<1>3. AcceptorInv'
  BY DEF Near, accVars, ServerInv, AcceptorInv, Attached
<1>4. OnceInPool'
  BY DEF Near, ServerInv, OnceInPool
<1>5. ASSUME NEW t \in Services PROVE ThreadAt(t)' /\ TokenAt(t)'
  <2>1. CASE t = s
    BY <2>1
  <2>2. CASE t # s
    <3>1. /\ rpc'[t] = rpc[t] /\ locked'[t] = locked[t] /\ cur'[t] = cur[t]
          /\ called'[t] = called[t] /\ hpc'[t] = hpc[t] /\ pc'[t] = pc[t] /\ arg'[t] = arg[t]
          /\ first'[t] = first[t] /\ service' = service /\ phase' = phase /\ pool' = pool
          /\ arg'[Acceptor] = arg[Acceptor] /\ asvc' = asvc /\ conn' = conn /\ apc' = apc
      BY <2>2 DEF Near, list, accVars
    <3>2. ThreadAt(t) /\ TokenAt(t)
      BY KnownOf
    <3>3. rpc[t] = "pending" => /\ called[t] \in Ports /\ called[t] # first[s]
                                /\ sem'[called[t]] = sem[called[t]]
                                /\ sstate'[called[t]] = sstate[called[t]]
                                /\ head'[called[t]] = head[called[t]]
      <4>1. HAVE rpc[t] = "pending"
      <4>2. called[t] = first[t] /\ first[t] # Null
        BY <3>2, <4>1 DEF ThreadAt
      <4>3. called[t] \in Ports /\ service[called[t]] = t
        BY <4>2, KnownOf
      <4>4. called[t] # first[s]
        BY <2>2, <4>3, KnownOf, NullIsNone
      <4> QED BY <4>3, <4>4 DEF Near
    <3>4. ThreadAt(t)'
      BY <3>1, <3>2, <3>3 DEF ThreadAt
    <3>5. TokenAt(t)'
      BY <3>1, <3>2 DEF TokenAt, Lent
    <3> QED BY <3>4, <3>5
  <2> QED BY <2>1, <2>2
<1> QED BY <1>1, <1>2, <1>3, <1>4, <1>5 DEF ServerInv
--------------------------------------------------------------------------------
(* The loop of the service threads.                                             *)

(* A set of natural numbers that is not empty has a least member.               *)
LEMMA LeastOf ==
    ASSUME NEW I \in SUBSET Nat, I # {}
    PROVE  \E n \in I : \A j \in I : n <= j
<1> DEFINE R == OpToRel(<, Nat)
<1>1. \A j, k \in Nat : j < k => <<j, k>> \in R
  BY DEF OpToRel
<1>2. IsWellFoundedOn(R, Nat)
  BY NatLessThanWellFounded
<1> HIDE DEF R
<1>3. PICK n \in I : \A j \in I : <<j, n>> \notin R
  BY <1>2, WFMin
<1>4. ASSUME NEW j \in I PROVE n <= j
  <2>1. j \in Nat /\ n \in Nat /\ ~(j < n)
    BY <1>1, <1>3
  <2> QED BY <2>1
<1> QED BY <1>4

(* What run() meets is the one port of the service.                             *)
LEMMA ChainIsFirst ==
    ASSUME Types, OneList, NEW s \in Services
    PROVE  Chain(s) = {first[s]} \ {Null}
<1> DEFINE C == Cardinality(Ports)
           E(g) == [m \in 0 .. C |-> IF m = 0 THEN first[s]
                                     ELSE IF g[m - 1] = Null THEN Null ELSE next[g[m - 1]]]
           w == [m \in 0 .. C |-> IF m = 0 THEN first[s] ELSE Null]
           at == CHOOSE g : g = E(g)
<1>1. C \in Nat
  BY PortsFinite, FS_CardinalityType
<1>2. first[s] # Null => next[first[s]] = Null
  BY DEF OneList, Types, TypeOK, SvcTypeOK
<1>3. w = E(w)
  <2>1. \A m \in 0 .. C : m # 0 => m - 1 \in 0 .. C
    BY <1>1
  <2>2. \A m \in 0 .. C : w[m] = E(w)[m]
    BY <1>2, <2>1
  <2> QED BY <2>2
<1>4. at = E(at)
  <2> HIDE DEF E, w
  <2> QED BY <1>3
<1>5. \A m \in 0 .. C : at[m] = w[m]
  <2> DEFINE I == {m \in 0 .. C : at[m] # w[m]}
  <2>1. SUFFICES ASSUME I # {} PROVE FALSE
    OBVIOUS
  <2>2. I \subseteq Nat
    BY <1>1
  <2>3. PICK m \in I : \A k \in I : m <= k
    BY <2>1, <2>2, LeastOf
  <2>4. m \in 0 .. C /\ at[m] # w[m]
    BY <2>3
  <2>5. at[m] = E(at)[m] /\ w[m] = E(w)[m]
    <3> HIDE DEF E, w, at
    <3> QED BY <1>3, <1>4
  <2>6. m # 0
    <3> HIDE DEF w, at
    <3> QED BY <2>4, <2>5
  <2>7. m - 1 \in 0 .. C /\ at[m - 1] = w[m - 1]
    <3>1. m - 1 \in 0 .. C /\ ~(m <= m - 1)
      BY <1>1, <2>4, <2>6
    <3> QED BY <2>3, <3>1
  <2> HIDE DEF w, at
  <2> QED BY <2>4, <2>5, <2>6, <2>7
<1>6. Chain(s) = Range(at) \ {Null}
  BY DEF Chain
<1>7. DOMAIN at = 0 .. C
  <2> HIDE DEF at
  <2> QED BY <1>4
<1>8. 0 \in 0 .. C
  BY <1>1
<1> HIDE DEF at, C
<1>9. \A x : x \in Range(at) \ {Null} <=> x = first[s] /\ x # Null
  BY <1>5, <1>7, <1>8 DEF Range
<1> QED BY <1>6, <1>9

(* Where a service thread is in run(). *)
ThreadLabels == {"off", "init", "drain", "lock", "visit", "timer", "due", "poll"} \cup Callbacks

(* The steps of run() that change no list.                                     *)
Looping(s) ==
    \/ RunInit(s) \/ RunDrain(s) \/ RunLock(s) \/ RunIn(s) \/ RunQuiet(s)
    \/ RunNext(s) \/ RunRebuild(s) \/ RunPoll(s, Readable, Reset)

(* What is not the service's stays.                                             *)
Quiet == UNCHANGED <<poolVars, accVars, sesVars, hpc, netVars, wild>>

(* The loop keeps the types.                                                    *)
LEMMA LoopTypes ==
    ASSUME ServerInv, NEW s \in Services, Looping(s), Quiet
    PROVE  Types' /\ Pool!MutexHeld' /\ UNCHANGED <<list, life, timer>>
<1>0. TypeOK /\ Types /\ SvcTypeOK /\ Chain(s) = {first[s]} \ {Null} /\ first[s] \in Ports \cup {Null}
  <2>1. TypeOK /\ Types /\ SvcTypeOK
    BY DEF ServerInv, Types, TypeOK
  <2>2. Chain(s) = {first[s]} \ {Null} /\ first[s] \in Ports \cup {Null}
    BY <2>1, ChainIsFirst, KnownOf DEF ServerInv
  <2> QED BY <2>1, <2>2
<1>1. UNCHANGED <<list, life, timer>>
  BY DEF Looping, RunInit, RunDrain, RunLock, RunIn, RunQuiet, RunNext, RunRebuild, RunPoll
<1>2. /\ rpc' \in [Services -> {"off", "init", "drain", "lock", "visit", "timer", "due", "poll"}
                              \cup Callbacks]
      /\ locked' \in [Services -> BOOLEAN]
  <2>1. /\ \E l \in {"drain", "lock", "visit", "timer", "due", "poll", "pending", "disconnect"} :
              rpc' = [rpc EXCEPT ![s] = l]
        /\ \E b \in BOOLEAN : locked' = [locked EXCEPT ![s] = b]
    <3>1. SvcTypeOK
      BY <1>0
    <3>2. locked = [locked EXCEPT ![s] = locked[s]] /\ locked[s] \in BOOLEAN
      BY <3>1 DEF SvcTypeOK
    <3>3. RunInit(s) \/ RunDrain(s) \/ RunQuiet(s) \/ RunNext(s) \/ RunPoll(s, Readable, Reset)
            => \E l \in {"drain", "lock", "visit", "timer", "due", "poll"} : rpc' = [rpc EXCEPT ![s] = l]
      BY DEF RunInit, RunDrain, RunQuiet, RunNext, RunPoll
    <3>4. RunLock(s) \/ RunIn(s) \/ RunRebuild(s)
            => \E l \in {"visit", "poll", "pending", "disconnect", "timer"} : rpc' = [rpc EXCEPT ![s] = l]
      BY DEF RunLock, RunIn, RunRebuild
    <3>5. RunLock(s) \/ RunRebuild(s) => \E b \in BOOLEAN : locked' = [locked EXCEPT ![s] = b]
      BY DEF RunLock, RunRebuild
    <3>6. RunInit(s) \/ RunDrain(s) \/ RunIn(s) \/ RunQuiet(s) \/ RunNext(s) \/ RunPoll(s, Readable, Reset)
            => locked' = locked
      BY DEF RunInit, RunDrain, RunIn, RunQuiet, RunNext, RunPoll
    <3> QED BY <3>2, <3>3, <3>4, <3>5, <3>6 DEF Looping
  <2>2. /\ rpc \in [Services -> {"off", "init", "drain", "lock", "visit", "timer", "due", "poll"}
                                \cup Callbacks]
        /\ locked \in [Services -> BOOLEAN]
    BY <1>0 DEF SvcTypeOK
  <2> QED BY <2>1, <2>2 DEF Callbacks
<1>3. next[first[s]] \in Ports \cup {Null} \/ first[s] = Null
  BY <1>0 DEF SvcTypeOK
<1>4. cur' \in [Services -> Ports \cup {Null}] /\ called' \in [Services -> Ports \cup {Null}]
  <2>1. rpc[s] = "timer" => cur[s] # Null /\ next[cur[s]] \in Ports \cup {Null}
    BY <1>0, KnownOf DEF SvcTypeOK, ThreadAt
  <2> QED BY <1>0, <2>1 DEF SvcTypeOK, Looping, RunInit, RunDrain, RunLock, RunIn, RunQuiet, RunNext,
          RunRebuild, RunPoll
<1>5. /\ rebuild' \in [Services -> BOOLEAN] /\ timed' \in [Services -> BOOLEAN]
      /\ wake' \in [Services -> BOOLEAN]
      /\ polled' \in [Services -> SUBSET Ports] /\ lastcount' \in [Services -> Nat]
      /\ ufd' \in [Ports -> Services \cup {Null}]
  <2>1. CASE RunInit(s)
    BY <1>0, <2>1 DEF SvcTypeOK, RunInit
  <2>2. CASE RunDrain(s)
    BY <1>0, <2>2 DEF SvcTypeOK, RunDrain, array
  <2>3. CASE RunLock(s)
    BY <1>0, <2>3 DEF SvcTypeOK, RunLock, array
  <2>4. CASE RunIn(s)
    BY <1>0, <2>4 DEF SvcTypeOK, RunIn, array
  <2>5. CASE RunQuiet(s)
    BY <1>0, <2>5 DEF SvcTypeOK, RunQuiet, array
  <2>6. CASE RunNext(s)
    BY <1>0, <2>6 DEF SvcTypeOK, RunNext, array
  <2>7. CASE RunRebuild(s)
    <3>1. /\ rebuild \in [Services -> BOOLEAN] /\ timed \in [Services -> BOOLEAN]
          /\ wake \in [Services -> BOOLEAN] /\ count[s] \in Nat
          /\ polled \in [Services -> SUBSET Ports] /\ lastcount \in [Services -> Nat]
          /\ ufd \in [Ports -> Services \cup {Null}]
      BY <1>0 DEF SvcTypeOK
    <3>2. Chain(s) \in SUBSET Ports
      BY <1>0
    <3>3. rebuild' = rebuild /\ timed' = timed /\ wake' = wake
      BY <2>7 DEF RunRebuild
    <3>4. CASE UNCHANGED <<lastcount, polled, ufd>>
      BY <3>1, <3>3, <3>4
    <3>5. CASE /\ lastcount' = [lastcount EXCEPT ![s] = count[s] + 1]
               /\ polled' = [polled EXCEPT ![s] = Chain(s)]
               /\ ufd' = [p \in Ports |-> IF p \in Chain(s) THEN s ELSE ufd[p]]
      <4>1. lastcount' \in [Services -> Nat]
        BY <3>1, <3>5
      <4>2. polled' \in [Services -> SUBSET Ports]
        BY <3>1, <3>2, <3>5
      <4>3. ufd' \in [Ports -> Services \cup {Null}]
        BY <3>1, <3>5
      <4> QED BY <3>1, <3>3, <4>1, <4>2, <4>3
    <3> QED BY <2>7, <3>4, <3>5 DEF RunRebuild
  <2>8. CASE RunPoll(s, Readable, Reset)
    BY <1>0, <2>8 DEF SvcTypeOK, RunPoll
  <2> QED BY <2>1, <2>2, <2>3, <2>4, <2>5, <2>6, <2>7, <2>8 DEF Looping
<1>8. in' \in [Services -> SUBSET Ports] /\ hup' \in [Services -> SUBSET Ports]
  <2>1. CASE RunPoll(s, Readable, Reset)
    BY <1>0, <2>1 DEF SvcTypeOK, RunPoll
  <2>2. CASE ~RunPoll(s, Readable, Reset)
    <3>1. in' = in /\ hup' = hup
      BY <2>2 DEF Looping, RunInit, RunDrain, RunLock, RunIn, RunQuiet, RunNext, RunRebuild, array
    <3> QED BY <1>0, <3>1 DEF SvcTypeOK
  <2> QED BY <2>1, <2>2
<1>9. SvcTypeOK'
  BY <1>0, <1>1, <1>2, <1>4, <1>5, <1>8 DEF SvcTypeOK, list
<1>10. Types'
  BY <1>0, <1>1, <1>9 DEF Types, TypeOK, Quiet, poolVars, accVars, sesVars, netVars, PoolTypes
<1>11. Pool!MutexHeld'
  BY DEF Quiet, poolVars, ServerInv, Pool!MutexHeld
<1> QED BY <1>1, <1>10, <1>11

(* The loop keeps to the one port of its service.                               *)
LEMMA LoopStep ==
    ASSUME ServerInv, NEW s \in Services, Looping(s), Quiet
    PROVE  ServerInv'
<1>1. Types' /\ Pool!MutexHeld' /\ UNCHANGED <<list, life, timer>>
  BY LoopTypes
<1>2. Types /\ SvcTypeOK /\ ThreadAt(s) /\ TokenAt(s)
  BY KnownOf DEF ServerInv, Types, TypeOK
<1>3. /\ rpc \in [Services -> ThreadLabels] /\ locked \in [Services -> BOOLEAN]
      /\ cur \in [Services -> Ports \cup {Null}] /\ called \in [Services -> Ports \cup {Null}]
      /\ s \in Services
  BY <1>2 DEF SvcTypeOK, ThreadLabels
<1>4. /\ first' = first /\ service' = service /\ phase' = phase /\ sem' = sem /\ head' = head
      /\ sstate' = sstate /\ hpc' = hpc /\ pc' = pc /\ arg' = arg /\ pool' = pool /\ asvc' = asvc /\ conn' = conn
      /\ apc' = apc
  BY <1>1 DEF Quiet, list, poolVars, accVars, sesVars
<1>5. rpc[s] = "timer" => cur[s] # Null /\ next[cur[s]] = Null
  BY <1>2, <1>3 DEF ThreadAt, ServerInv, OneList
<1>6. hpc[s] = "idle"
  BY <1>2 DEF ThreadAt, Looping, RunInit, RunDrain, RunLock, RunIn, RunQuiet, RunNext, RunRebuild,
     RunPoll
<1>7. \A t \in Services \ {s} :
          /\ rpc'[t] = rpc[t] /\ locked'[t] = locked[t] /\ cur'[t] = cur[t]
          /\ called'[t] = called[t]
  BY <1>3 DEF Looping, RunInit, RunDrain, RunLock, RunIn, RunQuiet, RunNext, RunRebuild, RunPoll
<1>8. /\ cur'[s] \in {cur[s], first[s], Null} /\ called'[s] \in {called[s], first[s], Null}
      /\ called'[s] # Null => rpc'[s] = "pending"
  <2>1. rpc[s] \in {"init", "drain", "lock", "visit", "timer", "poll"}
    BY DEF Looping, RunInit, RunDrain, RunLock, RunIn, RunQuiet, RunNext, RunRebuild, RunPoll
  <2>2. called[s] = Null
    BY <1>2, <2>1 DEF ThreadAt
  <2> QED BY <1>2, <1>3, <1>5, <2>2 DEF ThreadAt, Looping, RunInit, RunDrain, RunLock, RunIn, RunQuiet,
          RunNext, RunRebuild, RunPoll
<1>9. Near(s)
  <2>1. \A c \in Ports : Ready(c)' = Ready(c) /\ Ready(c)
    BY DEF Quiet, sesVars, Ready, ServerInv, Sessions
  <2>2. sstate' = sstate
    BY DEF Quiet, sesVars
  <2> QED BY <1>1, <1>4, <1>7, <1>8, <2>1, <2>2 DEF Near, Quiet, accVars
<1>10. ThreadAt(s)'
  <2>1. ASSUME rpc'[s] = "pending" PROVE cur'[s] = first[s] /\ called'[s] = first[s] /\ first[s] # Null
    BY <1>2, <1>3, <2>1 DEF ThreadAt, Looping, RunInit, RunDrain, RunLock, RunIn, RunQuiet, RunNext,
       RunRebuild, RunPoll
  <2>2. rpc'[s] \in {"drain", "lock", "visit", "pending", "timer", "poll"}
        /\ (locked'[s] <=> rpc'[s] \in {"visit", "timer", "pending"})
    BY <1>2, <1>3 DEF ThreadAt, Looping, RunInit, RunDrain, RunLock, RunIn, RunQuiet, RunNext,
       RunRebuild, RunPoll
  <2>3. /\ rpc'[s] = "visit" => cur'[s] \in {first[s], Null}
        /\ rpc'[s] = "timer" => cur'[s] # Null /\ first[s] \in {cur'[s], Null}
    BY <1>2, <1>3, <1>5 DEF ThreadAt, Looping, RunInit, RunDrain, RunLock, RunIn, RunQuiet, RunNext,
       RunRebuild, RunPoll
  <2> QED BY <1>2, <1>4, <1>6, <1>8, <2>1, <2>2, <2>3 DEF ThreadAt
<1>11. TokenAt(s)'
  BY <1>2, <1>4, <1>8 DEF TokenAt, Lent
<1> QED BY <1>1, <1>9, <1>10, <1>11, NearKeeps
--------------------------------------------------------------------------------
(* The methods of a session up to its destructor.                               *)
Serving(s) ==
    \/ BaseCallback(s) \/ Pending(s) \/ ReadNothing(s) \/ ReadHeadLine(s) \/ ParseOk(s)
    \/ ParseThrows(s) \/ Process(s) \/ Disconnect(s)

(* What readLine returns and leaves.                                            *)
LEMMA ReadLineGives ==
    ASSUME NEW q \in Seq(Pieces), NEW r \in ReadLine(q)
    PROVE  r.rest \in Seq(Pieces) /\ r.line \in {None, "req", "bad", "garbled", "blank"}
<1>1. q # <<>> => q[1] \in Pieces /\ Tail(q) \in Seq(Pieces)
  OBVIOUS
<1>2. q # <<>> /\ Len(q) > 1 => Tail(Tail(q)) \in Seq(Pieces)
  <2>1. SUFFICES ASSUME q # <<>>, Len(q) > 1 PROVE Tail(Tail(q)) \in Seq(Pieces)
    OBVIOUS
  <2>2. PICK n \in Nat : n = Len(q)
    OBVIOUS
  <2>3. PICK x \in Seq(Pieces) : x = Tail(q) /\ Len(x) = n - 1
    <3>1. Tail(q) \in Seq(Pieces)
      BY <2>1
    <3>2. Len(Tail(q)) = Len(q) - 1
      BY <2>1
    <3> QED BY <2>2, <3>1, <3>2
  <2>4. n > 1
    BY <2>1, <2>2
  <2>5. n - 1 # 0
    BY <2>4
  <2>6. x # <<>>
    BY <2>3, <2>5
  <2>7. Tail(x) \in Seq(Pieces)
    BY <2>6
  <2> QED BY <2>3, <2>7
<1>3. <<>> \in Seq(Pieces)
  OBVIOUS
<1>4. CASE q = <<>>
  <2>1. r = [rest |-> q, line |-> None]
    BY <1>4 DEF ReadLine
  <2> QED BY <2>1
<1>5. CASE q # <<>> /\ q[1] = "head"
  <2>1. CASE Len(q) > 1
    <3>1. r = [rest |-> Tail(Tail(q)), line |-> "req"]
      BY <1>5, <2>1 DEF ReadLine
    <3> QED BY <1>2, <1>5, <2>1, <3>1
  <2>2. CASE ~(Len(q) > 1)
    <3>1. r = [rest |-> <<>>, line |-> None]
      BY <1>5, <2>2 DEF ReadLine
    <3> QED BY <1>3, <3>1
  <2> QED BY <2>1, <2>2
<1>6. CASE q # <<>> /\ q[1] = "tail"
  <2>1. r.rest = Tail(q) /\ r.line \in {None, "req", "bad", "garbled", "blank"}
    BY <1>6 DEF ReadLine
  <2> QED BY <1>1, <1>6, <2>1
<1>7. CASE q # <<>> /\ q[1] \notin {"head", "tail"}
  BY <1>1, <1>7 DEF ReadLine, Pieces
<1> QED BY <1>4, <1>5, <1>6, <1>7

(* Where the thread of s is when it serves the session c.                       *)
LEMMA AtSession ==
    ASSUME ServerInv, NEW s \in Services, Serving(s)
    PROVE  /\ called[s] \in Ports /\ rpc[s] \in {"pending", "disconnect"}
           /\ inbox[called[s]] \in Seq(Pieces)
           /\ ~BaseCallback(s) /\ ~Disconnect(s) =>
                  rpc[s] = "pending" /\ called[s] = first[s] /\ phase[called[s]] = "built"
           /\ Pending(s) => hpc[s] = "idle" /\ sem[called[s]] = 1
           /\ ~BaseCallback(s) => ~(asvc = s /\ apc \in Attached) /\ phase[called[s]] = "built"
           /\ hpc[s] \notin {"freeing", "destroy"}
<1>1. ThreadAt(s) /\ TokenAt(s) /\ (called[s] # Null => called[s] \in Ports)
  BY KnownOf
<1>2. /\ sem \in [Ports -> 0 .. 1] /\ inbox \in [Ports -> Seq(Pieces)]
  BY DEF ServerInv, Types, TypeOK
<1>3. rpc[s] \in {"pending", "disconnect"} /\ called[s] \in Ports
  BY <1>1 DEF ThreadAt, Serving, BaseCallback, Pending, ReadNothing, ReadHeadLine, ParseOk,
     ParseThrows, Process, Disconnect, HandlerAt, Callbacks
<1>4. Pending(s) => hpc[s] = "idle" /\ sem[called[s]] = 1
  BY <1>2, <1>3 DEF Pending, HandlerAt
<1>5. sem[called[s]] = 1 => phase[called[s]] = "built"
  BY <1>3 DEF ServerInv, Sessions
<1>6. ~BaseCallback(s) => phase[called[s]] = "built"
  BY <1>1, <1>4, <1>5 DEF ThreadAt, Serving, ReadNothing, ReadHeadLine, ParseOk, ParseThrows,
     Process, Disconnect, HandlerAt
<1>7. ~BaseCallback(s) /\ ~Disconnect(s) => rpc[s] = "pending" /\ called[s] = first[s]
  BY <1>1 DEF ThreadAt, Serving, Pending, ReadNothing, ReadHeadLine, ParseOk, ParseThrows,
     Process, HandlerAt
<1>8. asvc = s /\ apc \in Attached => called[s] = conn /\ phase[called[s]] # "built"
  <2>1. HAVE asvc = s /\ apc \in Attached
  <2>2. called[s] = conn
    BY <1>1, <1>3, <2>1, NullIsNone DEF TokenAt
  <2>3. phase[conn] # "built"
    BY <2>1 DEF ServerInv, AcceptorInv, Attached
  <2> QED BY <2>2, <2>3
<1>9. hpc[s] \notin {"freeing", "destroy"}
  BY DEF Serving, BaseCallback, Pending, ReadNothing, ReadHeadLine, ParseOk,
     ParseThrows, Process, Disconnect, HandlerAt
<1> QED BY <1>2, <1>3, <1>4, <1>6, <1>7, <1>8, <1>9

(* A line that readLine returned, as the methods test for it.                   *)
LEMMA LineRead ==
    ASSUME NEW c \in Ports, inbox \in [Ports -> Seq(Pieces)], NEW r \in ReadLine(inbox[c]),
           inbox' = [inbox EXCEPT ![c] = r.rest]
    PROVE  /\ inbox' \in [Ports -> Seq(Pieces)]
           /\ r.line \in {None, "req", "bad", "garbled", "blank"}
<1>1. inbox[c] \in Seq(Pieces)
  OBVIOUS
<1>2. r.rest \in Seq(Pieces) /\ r.line \in {None, "req", "bad", "garbled", "blank"}
  BY <1>1, ReadLineGives
<1> QED BY <1>2

(* The methods of a session keep the types.                                     *)
LEMMA ServingTypes ==
    ASSUME ServerInv, NEW s \in Services, Serving(s)
    PROVE  /\ Types' /\ Pool!MutexHeld'
           /\ UNCHANGED <<list, array, life, timer, wake, poolVars, accVars, phase>>
           /\ UNCHANGED <<locked, cur, rebuild, timed, client, todo, wild>>
<1>1. /\ TypeOK /\ Types /\ SvcTypeOK /\ PoolTypes /\ inbox \in [Ports -> Seq(Pieces)] /\ Pool!MutexHeld
      /\ ThreadAt(s)
  BY KnownOf DEF ServerInv, Types, TypeOK
<1>2. /\ called[s] \in Ports /\ rpc[s] \in {"pending", "disconnect"}
      /\ ~BaseCallback(s) /\ ~Disconnect(s) =>
             rpc[s] = "pending" /\ called[s] = first[s] /\ phase[called[s]] = "built"
      /\ Pending(s) => hpc[s] = "idle" /\ sem[called[s]] = 1
  BY AtSession
<1>3. UNCHANGED <<list, array, life, timer, wake, poolVars, accVars, phase>>
  BY DEF Serving, BaseCallback, Pending, ReadNothing, ReadHeadLine, ParseOk, ParseThrows, Process,
     Disconnect, svcVars, sesVars
<1>4. UNCHANGED <<locked, cur, rebuild, timed, client, todo, wild>>
  BY DEF Serving, BaseCallback, Pending, ReadNothing, ReadHeadLine, ParseOk, ParseThrows, Process,
     Disconnect, svcVars, loop, netVars, RunReturn
<1>5. UNCHANGED <<rpc, called>> \/ RunReturn(s)
  BY DEF Serving, BaseCallback, Pending, ReadNothing, ReadHeadLine, ParseOk, ParseThrows, Process,
     Disconnect, svcVars, loop
<1>6. /\ rpc' \in [Services -> ThreadLabels] /\ called' \in [Services -> Ports \cup {Null}]
  BY <1>1, <1>5 DEF SvcTypeOK, RunReturn, ThreadLabels
<1>7. SvcTypeOK'
  BY <1>1, <1>3, <1>4, <1>6 DEF SvcTypeOK, ThreadLabels, list, array
<1>8. hpc' \in [Services -> {"idle", "read", "process", "delete", "freeing", "destroy"}]
  <2>1. hpc \in [Services -> {"idle", "read", "process", "delete", "freeing", "destroy"}]
    BY <1>1 DEF TypeOK
  <2>2. hpc' = hpc \/ \E l \in {"idle", "read", "process", "delete"} : hpc' = [hpc EXCEPT ![s] = l]
    BY DEF Serving, BaseCallback, Pending, ReadNothing, ReadHeadLine, ParseOk, ParseThrows,
       Process, Disconnect, HandlerAt
  <2> QED BY <2>1, <2>2
<1>9. PICK c \in Ports : c = called[s]
  BY <1>2
<1>10. sem' \in [Ports -> 0 .. 1]
  <2>1. sem \in [Ports -> 0 .. 1] /\ (hpc[s] \in {"read", "process"} => sem[c] = 0)
    BY <1>1, <1>9 DEF TypeOK, ThreadAt
  <2>2. \/ sem' = sem \/ (sem[c] = 1 /\ sem' = [sem EXCEPT ![c] = @ - 1])
        \/ (sem[c] = 0 /\ sem' = [sem EXCEPT ![c] = @ + 1])
    BY <1>2, <1>9, <2>1 DEF Serving, BaseCallback, Pending, ReadNothing, ReadHeadLine, ParseOk, ParseThrows,
       Process, Disconnect, HandlerAt, sesVars
  <2>3. 1 - 1 \in 0 .. 1 /\ 0 + 1 \in 0 .. 1
    OBVIOUS
  <2> QED BY <2>1, <2>2, <2>3
<1>11. sstate' \in [Ports -> {"INITIAL", "GETTINGHEAD", "PARSINGHEAD", "KNOWNHEAD"}]
  <2>1. sstate \in [Ports -> {"INITIAL", "GETTINGHEAD", "PARSINGHEAD", "KNOWNHEAD"}]
    BY <1>1 DEF TypeOK
  <2> QED BY <1>9, <2>1 DEF Serving, BaseCallback, Pending, ReadNothing, ReadHeadLine, ParseOk, ParseThrows,
       Process, Disconnect, sesVars
<1>12. inbox' \in [Ports -> Seq(Pieces)] /\ head' \in [Ports -> {None, "req", "garbled", "bad"}]
  <2>1. head \in [Ports -> {None, "req", "garbled", "bad"}]
    BY <1>1 DEF TypeOK
  <2>2. CASE UNCHANGED inbox
    <3>1. head' = head \/ ReadHeadLine(s)
      BY DEF Serving, BaseCallback, Pending, ReadNothing, ParseOk, ParseThrows, Process, Disconnect,
         sesVars
    <3>2. CASE ReadHeadLine(s)
      <4>1. PICK r \in ReadLine(inbox[c]) :
              /\ r.line \notin {None, "blank"} /\ inbox' = [inbox EXCEPT ![c] = r.rest]
              /\ head' = [head EXCEPT ![c] = IF @ = None THEN r.line ELSE @]
        BY <1>9, <3>2 DEF ReadHeadLine
      <4> QED BY <1>1, <2>1, <4>1, LineRead
    <3> QED BY <1>1, <2>1, <2>2, <3>1, <3>2
  <2>3. CASE ~UNCHANGED inbox
    <3>1. ReadNothing(s) \/ ReadHeadLine(s) \/ ParseOk(s) \/ ParseThrows(s)
      BY <2>3 DEF Serving, BaseCallback, Pending, Process, Disconnect, netVars
    <3>2. PICK r \in ReadLine(inbox[c]) :
            /\ inbox' = [inbox EXCEPT ![c] = r.rest]
            /\ \/ head' = head
               \/ /\ r.line \notin {None, "blank"}
                  /\ head' = [head EXCEPT ![c] = IF @ = None THEN r.line ELSE @]
      BY <1>9, <3>1 DEF ReadNothing, ReadHeadLine, ParseOk, ParseThrows
    <3> QED BY <1>1, <2>1, <3>2, LineRead
  <2> QED BY <2>2, <2>3
<1>13. replied' \in [Ports -> {None, "req", "garbled"}]
  <2>1. replied \in [Ports -> {None, "req", "garbled"}]
        /\ (hpc[s] = "process" => head[c] \in {"req", "garbled"})
    BY <1>1, <1>9 DEF TypeOK, ThreadAt
  <2> QED BY <1>9, <2>1 DEF Serving, BaseCallback, Pending, ReadNothing, ReadHeadLine, ParseOk, ParseThrows,
       Process, Disconnect, HandlerAt, sesVars
<1>14. TypeOK'
  <2>1. pool' = pool /\ apc' = apc /\ asvc' = asvc /\ conn' = conn /\ phase' = phase
        /\ client' = client /\ wild' = wild
    BY <1>3, <1>4 DEF poolVars, accVars
  <2>2. head' \in [Ports -> {None, "req", "garbled", "bad"}]
    BY <1>12
  <2> QED BY <1>1, <1>7, <1>8, <1>10, <1>11, <1>13, <2>1, <2>2 DEF TypeOK
<1>15. Types'
  BY <1>1, <1>3, <1>4, <1>12, <1>14 DEF Types, PoolTypes, poolVars
<1>16. Pool!MutexHeld'
  BY <1>1, <1>3 DEF Pool!MutexHeld, poolVars
<1> QED BY <1>3, <1>4, <1>15, <1>16

(* The methods of a session touch that session only, and reply to a request     *)
(* that they have read.                                                         *)
LEMMA ServingStep ==
    ASSUME ServerInv, NEW s \in Services, Serving(s)
    PROVE  ServerInv'
<1>1. /\ Types' /\ Pool!MutexHeld'
      /\ UNCHANGED <<list, array, life, timer, wake, poolVars, accVars, phase>>
      /\ UNCHANGED <<locked, cur, rebuild, timed, client, todo, wild>>
  BY ServingTypes
<1>2. /\ first' = first /\ service' = service /\ phase' = phase /\ pc' = pc /\ arg' = arg
      /\ pool' = pool /\ asvc' = asvc /\ conn' = conn /\ apc' = apc /\ cur' = cur /\ locked' = locked
  BY <1>1 DEF list, poolVars, accVars
<1>3. PICK c \in Ports : c = called[s]
  BY AtSession
<1>4. /\ rpc[s] \in {"pending", "disconnect"}
      /\ ~BaseCallback(s) /\ ~Disconnect(s) =>
             rpc[s] = "pending" /\ c = first[s] /\ phase[c] = "built"
      /\ Pending(s) => hpc[s] = "idle" /\ sem[c] = 1
      /\ ~BaseCallback(s) => ~(asvc = s /\ apc \in Attached) /\ phase[c] = "built"
      /\ hpc[s] \notin {"freeing", "destroy"}
  BY <1>3, AtSession
<1>5. ThreadAt(s) /\ TokenAt(s)
  BY KnownOf
<1>6. /\ rpc \in [Services -> ThreadLabels] /\ called \in [Services -> Ports \cup {Null}]
      /\ hpc \in [Services -> {"idle", "read", "process", "delete", "freeing", "destroy"}]
      /\ sem \in [Ports -> 0 .. 1]
      /\ sstate \in [Ports -> {"INITIAL", "GETTINGHEAD", "PARSINGHEAD", "KNOWNHEAD"}]
      /\ head \in [Ports -> {None, "req", "garbled", "bad"}]
  BY DEF ServerInv, Types, TypeOK, SvcTypeOK, ThreadLabels
<1>7. /\ hpc'[s] \in {"idle", "read", "process", "delete"}
      /\ \A t \in Services \ {s} : rpc'[t] = rpc[t] /\ called'[t] = called[t] /\ hpc'[t] = hpc[t]
      /\ called'[s] \in {called[s], Null}
  <2>1. hpc' = hpc \/ \E l \in {"idle", "read", "process", "delete"} : hpc' = [hpc EXCEPT ![s] = l]
    BY DEF Serving, BaseCallback, Pending, ReadNothing, ReadHeadLine, ParseOk, ParseThrows,
       Process, Disconnect, HandlerAt
  <2>2. UNCHANGED <<rpc, called>> \/ RunReturn(s)
    BY DEF Serving, BaseCallback, Pending, ReadNothing, ReadHeadLine, ParseOk, ParseThrows, Process,
       Disconnect, svcVars, loop
  <2> QED BY <1>4, <1>6, <2>1, <2>2 DEF RunReturn
<1>8. \A d \in Ports \ {c} : sem'[d] = sem[d] /\ sstate'[d] = sstate[d] /\ head'[d] = head[d]
  <2>1. sem' = sem \/ \E x : sem' = [sem EXCEPT ![c] = x]
    BY <1>3 DEF Serving, BaseCallback, Pending, ReadNothing, ReadHeadLine, ParseOk, ParseThrows,
       Process, Disconnect, sesVars
  <2>2. sstate' = sstate \/ \E x : sstate' = [sstate EXCEPT ![c] = x]
    BY <1>3 DEF Serving, BaseCallback, Pending, ReadNothing, ReadHeadLine, ParseOk, ParseThrows,
       Process, Disconnect, sesVars
  <2>3. head' = head \/ \E x : head' = [head EXCEPT ![c] = x]
    BY <1>3 DEF Serving, BaseCallback, Pending, ReadNothing, ReadHeadLine, ParseOk, ParseThrows,
       Process, Disconnect, sesVars
  <2> QED BY <1>6, <2>1, <2>2, <2>3
<1>9. Ready(c) /\ (phase[c] # "built" => sem[c] = 0)
  BY DEF ServerInv, Sessions
<1>10. BaseCallback(s) \/ Disconnect(s) => sem' = sem /\ sstate' = sstate /\ head' = head
  BY DEF BaseCallback, Disconnect, sesVars
<1>11. Ready(c)' /\ ThreadAt(s)'
  <2>1. CASE BaseCallback(s)
    <3>1. /\ rpc'[s] = IF rpc[s] = "disconnect" THEN "visit" ELSE "timer"
          /\ called'[s] = Null /\ hpc' = hpc /\ hpc[s] = "idle"
      BY <1>6, <2>1 DEF BaseCallback, RunReturn
    <3>2. Ready(c)'
      BY <1>9, <1>10, <2>1 DEF Ready
    <3> QED BY <1>2, <1>4, <1>5, <3>1, <3>2 DEF ThreadAt
  <2>2. CASE Pending(s)
    <3>1. /\ hpc'[s] = IF sstate[c] \in {"INITIAL", "GETTINGHEAD"} THEN "read" ELSE "process"
          /\ sem'[c] = 0 /\ sstate'[c] = IF sstate[c] = "INITIAL" THEN "GETTINGHEAD" ELSE sstate[c]
          /\ head' = head /\ rpc' = rpc /\ called' = called
      BY <1>3, <1>4, <1>6, <2>2 DEF Pending, HandlerAt, svcVars, loop
    <3>2. c = first[s] /\ rpc[s] = "pending" /\ phase[c] = "built"
      BY <1>4, <2>2 DEF Pending, BaseCallback, Disconnect, HandlerAt
    <3> QED BY <1>2, <1>3, <1>4, <1>5, <1>9, <2>2, <3>1, <3>2 DEF ThreadAt, Ready
  <2>3. CASE ReadNothing(s)
    <3>1. /\ hpc'[s] = "idle" /\ hpc[s] = "read" /\ rpc'[s] = IF rpc[s] = "disconnect" THEN "visit" ELSE "timer"
          /\ called'[s] = Null /\ sstate' = sstate
      BY <1>6, <2>3 DEF ReadNothing, HandlerAt, RunReturn
    <3> QED BY <1>2, <1>3, <1>5, <3>1 DEF ThreadAt, Ready
  <2>4. CASE ReadHeadLine(s)
    <3>1. hpc[s] = "read" /\ hpc' = hpc /\ rpc' = rpc /\ called' = called /\ sem' = sem /\ sstate' = sstate
      BY <2>4 DEF ReadHeadLine, svcVars, loop
    <3> QED BY <1>2, <1>3, <1>5, <3>1 DEF ThreadAt, Ready
  <2>5. CASE ParseOk(s)
    <3>1. /\ hpc[s] = "read" /\ hpc'[s] = "process" /\ rpc' = rpc /\ called' = called /\ sem' = sem
          /\ head' = head /\ head[c] \in {"req", "garbled"}
      BY <1>3, <1>6, <2>5 DEF ParseOk, HandlerAt, svcVars, loop
    <3> QED BY <1>2, <1>3, <1>5, <3>1 DEF ThreadAt, Ready
  <2>6. CASE ParseThrows(s)
    <3>1. /\ hpc'[s] = "idle" /\ hpc[s] = "read" /\ rpc'[s] = IF rpc[s] = "disconnect" THEN "visit" ELSE "timer"
          /\ called'[s] = Null /\ sem' = sem
      BY <1>6, <2>6 DEF ParseThrows, HandlerAt, RunReturn
    <3> QED BY <1>2, <1>3, <1>5, <3>1 DEF ThreadAt, Ready
  <2>7. CASE Process(s)
    <3>1. /\ hpc'[s] = "delete" /\ hpc[s] = "process" /\ rpc' = rpc /\ called' = called /\ head' = head
      BY <1>6, <2>7 DEF Process, HandlerAt, svcVars, loop
    <3> QED BY <1>2, <1>3, <1>5, <3>1 DEF ThreadAt, Ready
  <2>8. CASE Disconnect(s)
    <3>1. hpc'[s] = "delete" /\ hpc[s] = "idle" /\ rpc' = rpc /\ called' = called /\ phase[c] = "built"
          /\ rpc[s] = "disconnect"
      BY <1>3, <1>4, <1>6, <2>8 DEF Disconnect, HandlerAt, svcVars, loop
    <3>2. Ready(c)'
      BY <1>9, <1>10, <2>8 DEF Ready
    <3> QED BY <1>2, <1>3, <1>5, <3>1, <3>2 DEF ThreadAt
  <2> QED BY <2>1, <2>2, <2>3, <2>4, <2>5, <2>6, <2>7, <2>8 DEF Serving
<1>12. Near(s)
  <2>1. ~BaseCallback(s) /\ ~Disconnect(s) => c = first[s] /\ phase[c] = "built"
    BY <1>4
  <2>2. \A d \in Ports : /\ d # first[s] => sem'[d] = sem[d] /\ sstate'[d] = sstate[d] /\ head'[d] = head[d]
                         /\ phase[d] # "built" => sem'[d] = sem[d]
    BY <1>8, <1>10, <2>1
  <2>3. \A d \in Ports : Ready(d)'
    <3> TAKE d \in Ports
    <3>1. Ready(d)
      BY DEF ServerInv, Sessions
    <3>2. d # c => sem'[d] = sem[d] /\ sstate'[d] = sstate[d] /\ head'[d] = head[d]
      BY <1>8
    <3> QED BY <1>11, <3>1, <3>2 DEF Ready
  <2> QED BY <1>1, <1>2, <1>7, <2>2, <2>3 DEF Near
<1>13. TokenAt(s)'
  <2>1. asvc = s /\ apc \in Attached => hpc'[s] = "idle"
    <3>1. HAVE asvc = s /\ apc \in Attached
    <3>2. BaseCallback(s) /\ hpc[s] = "idle"
      BY <1>4, <3>1 DEF BaseCallback
    <3> QED BY <3>2 DEF BaseCallback
  <2> QED BY <1>2, <1>4, <1>5, <1>7, <2>1 DEF TokenAt, Lent
<1> QED BY <1>1, <1>11, <1>12, <1>13, NearKeeps

(* A callback into a session that is not constructed, and a read of a freed one,*)
(* change nothing that is spoken of here.                                       *)
LEMMA WildStep ==
    ASSUME ServerInv, NEW s \in Services, UnbuiltCallback(s) \/ ReadFreed(s)
    PROVE  ServerInv'
<1>1. /\ UNCHANGED <<svcVars, poolVars, accVars, sesVars, hpc, netVars>>
      /\ wild' \in {"no", "freed", "unbuilt"}
  BY DEF UnbuiltCallback, ReadFreed
<1>2. Types' /\ Pool!MutexHeld'
  BY <1>1 DEF ServerInv, Types, TypeOK, SvcTypeOK, PoolTypes, Pool!MutexHeld, svcVars, list, loop, array,
     poolVars, accVars, sesVars, netVars
<1>3. OneList' /\ AcceptorInv' /\ OnceInPool'
  BY <1>1 DEF ServerInv, OneList, AcceptorInv, OnceInPool, svcVars, list, poolVars, accVars, sesVars
<1>4. Sessions'
  BY <1>1 DEF ServerInv, Sessions, Ready, Fresh, svcVars, loop, accVars, sesVars, list
<1>5. ASSUME NEW t \in Services PROVE ThreadAt(t)' /\ TokenAt(t)'
  <2>1. ThreadAt(t)' = ThreadAt(t)
    BY <1>1 DEF ThreadAt, svcVars, list, loop, sesVars, poolVars
  <2>2. TokenAt(t)' = TokenAt(t)
    BY <1>1 DEF TokenAt, Lent, svcVars, list, loop, accVars, poolVars
  <2> QED BY <2>1, <2>2, KnownOf
<1> QED BY <1>2, <1>3, <1>4, <1>5 DEF ServerInv

(* The destructor gives back the service that its session has, or none.        *)
LEMMA FreeServiceStep ==
    ASSUME ServerInv, NEW s \in Services, FreeService(s)
    PROVE  ServerInv'
<1>1. /\ Types /\ TypeOK /\ SvcTypeOK /\ PoolTypes /\ Pool!MutexHeld /\ ThreadAt(s) /\ TokenAt(s)
  BY KnownOf DEF ServerInv, Types, TypeOK
<1>2. PICK c \in Ports : c = called[s]
  BY <1>1, KnownOf DEF ThreadAt, FreeService, HandlerAt
<1>3. PICK v \in Services \cup {Null} : v = service[c]
  BY <1>1 DEF SvcTypeOK
<1>4. /\ UNCHANGED <<svcVars, accVars, sesVars, netVars, wild>> /\ pool' = pool /\ owner' = owner
      /\ hpc[s] = "delete" /\ hpc' = [hpc EXCEPT ![s] = "freeing"]
      /\ pc[s] = "idle" /\ pc' = [pc EXCEPT ![s] = "free.enter"] /\ arg' = [arg EXCEPT ![s] = v]
  BY <1>2, <1>3 DEF FreeService, HandlerAt, Pool!FreeCall, Pool!Go
<1>5. s \in Pool!Threads /\ Acceptor \in Pool!Threads /\ s # Acceptor
      /\ \A t \in Services : t \in Pool!Threads
  BY ThreadsDiffer DEF Pool!Threads
<1>6. /\ pc' \in [Pool!Threads -> Pool!Labels] /\ arg' \in [Pool!Threads -> Services \cup {Null}]
      /\ hpc' \in [Services -> {"idle", "read", "process", "delete", "freeing", "destroy"}]
      /\ hpc'[s] = "freeing" /\ pc'[s] = "free.enter" /\ arg'[s] = v
      /\ \A t \in Pool!Threads \ {s} : pc'[t] = pc[t] /\ arg'[t] = arg[t]
      /\ \A t \in Services \ {s} : hpc'[t] = hpc[t]
  BY <1>1, <1>4, <1>5 DEF PoolTypes, TypeOK, Pool!Labels, Pool!FreeLabels
<1>7. PoolTypes'
  BY <1>1, <1>4, <1>6 DEF PoolTypes, Pool!WaitLabels
<1>8. Pool!MutexHeld'
  BY <1>1, <1>4, <1>6 DEF Pool!MutexHeld, Pool!Holding
<1>9. TypeOK'
  BY <1>1, <1>4, <1>6 DEF TypeOK, SvcTypeOK, svcVars, list, loop, array, accVars, sesVars, netVars
<1>10. Types'
  BY <1>1, <1>4, <1>5, <1>6, <1>7, <1>9 DEF Types, Running, Pool!FreeLabels, svcVars, netVars
<1>11. Near(s)
  <2>1. \A d \in Ports : Ready(d)
    BY DEF ServerInv, Sessions
  <2>2. \A d \in Ports : Ready(d)'
    BY <1>4, <2>1 DEF Ready, sesVars
  <2>3. UNCHANGED <<rpc, locked, cur, called, sem, sstate, head, phase>>
    BY <1>4 DEF svcVars, loop, sesVars
  <2> QED BY <1>4, <1>5, <1>6, <2>2, <2>3 DEF Near, svcVars
<1>12. v \in {s, Null} /\ (v = s => Lent(s))
  BY <1>1, <1>2, <1>3, <1>4, KnownOf, NullIsNone DEF ThreadAt, Lent
<1>13. ThreadAt(s)'
  BY <1>1, <1>4, <1>6, <1>12 DEF ThreadAt, svcVars, list, loop, sesVars
<1>14. TokenAt(s)'
  BY <1>1, <1>4, <1>5, <1>6, <1>12, NullIsNone DEF TokenAt, Lent, svcVars, list, loop, accVars
<1> QED BY <1>8, <1>10, <1>11, <1>13, <1>14, NearKeeps

--------------------------------------------------------------------------------
(* Inside the pool.                                                             *)

(* What a thread inside the pool leaves alone.                                  *)
Outside == UNCHANGED <<svcVars, conn, sesVars, netVars, wild>>

\* What happens outside the services keeps lists, sessions and loops.
LEMMA OutsideKeeps ==
    ASSUME ServerInv, Outside, apc' = apc \/ apc' # "attach"
    PROVE  OneList' /\ Sessions' /\ SvcTypeOK' /\ UNCHANGED <<todo, inbox, timer>>
<1>1. OneList'
  BY DEF ServerInv, OneList, Outside, svcVars, list
<1>2. \A c \in Ports : Fresh(c)' => Fresh(c)
  BY DEF Fresh, Outside, svcVars
<1>3. \A c \in Ports : Ready(c)' = Ready(c)
  BY DEF Ready, Outside, sesVars
<1>4. UNCHANGED <<service, phase, cur, called, sem>>
  BY DEF Outside, sesVars, svcVars, list, loop
<1>5. Sessions'
  BY <1>2, <1>3, <1>4 DEF ServerInv, Sessions
<1>6. SvcTypeOK'
  BY DEF ServerInv, Types, TypeOK, SvcTypeOK, Outside, svcVars, list, loop, array
<1> QED BY <1>1, <1>5, <1>6 DEF Outside, netVars, svcVars

(* The thread of s gives its service to the pool.                               *)
LEMMA InFreeServiceStep ==
    ASSUME ServerInv, NEW s \in Services, InFreeService(s)
    PROVE  ServerInv'
<1>1. /\ Types /\ TypeOK /\ PoolTypes /\ Pool!MutexHeld /\ ThreadAt(s) /\ TokenAt(s) /\ AcceptorInv
  BY KnownOf DEF ServerInv, Types
<1>2. s \in Pool!Threads /\ Acceptor \in Pool!Threads /\ s # Acceptor
      /\ \A t \in Services : t \in Pool!Threads
  BY ThreadsDiffer DEF Pool!Threads
<1>3. Outside /\ UNCHANGED <<apc, asvc>>
  BY DEF InFreeService, Outside, accVars
<1>4. PoolTypes' /\ Pool!MutexHeld' /\ Moved(s)
  BY <1>1, <1>2, PoolMoves DEF InFreeService
<1>5. hpc[s] = "freeing" /\ pc[s] \in Pool!FreeLabels
  BY <1>1, <1>4 DEF InFreeService, Types, Running, Moved
<1>6. /\ pc'[Acceptor] \in Getting /\ (pc'[Acceptor] # "idle" <=> pc[Acceptor] # "idle")
      /\ pc[Acceptor] = "get.leave" => pc'[Acceptor] = "get.leave"
      /\ arg'[Acceptor] = arg[Acceptor]
      /\ \A t \in Services \ {s} : pc'[t] = pc[t] /\ arg'[t] = arg[t]
      /\ pc'[s] \in Running
  BY <1>1, <1>2, <1>4, <1>5 DEF Types, Moved, Getting, Running, Pool!GetLabels, Pool!WaitLabels,
     Pool!FreeLabels
<1>7. /\ hpc' \in [Services -> {"idle", "read", "process", "delete", "freeing", "destroy"}]
      /\ hpc'[s] = IF pc[s] = "free.leave" THEN "destroy" ELSE "freeing"
      /\ \A t \in Services \ {s} : hpc'[t] = hpc[t]
  BY <1>1, <1>5 DEF InFreeService, TypeOK
<1>8. OneList' /\ Sessions' /\ SvcTypeOK' /\ UNCHANGED <<todo, inbox, timer>>
  BY <1>3, OutsideKeeps
<1>9. Types'
  <2>1. TypeOK'
    BY <1>1, <1>3, <1>4, <1>7, <1>8 DEF TypeOK, PoolTypes, Outside, sesVars, netVars
  <2> QED BY <1>1, <1>4, <1>6, <1>8, <2>1 DEF Types
<1>10. AcceptorInv'
  BY <1>1, <1>3, <1>6 DEF AcceptorInv, Attached, Outside, sesVars, svcVars
<1>11. arg[s] \in {s, Null}
  BY <1>1 DEF ThreadAt
<1>12. \/ pool' = pool
       \/ /\ pc[s] = "free.push" /\ pool' = Append(pool, arg[s]) /\ arg'[s] = Null
          /\ pool' \in Seq(Services \cup {Null})
          /\ \A x : x \in Range(pool') <=> x \in Range(pool) \/ x = arg[s]
  <2>1. pool \in Seq(Services \cup {Null}) /\ arg[s] \in Services \cup {Null}
    BY <1>1, <1>2 DEF PoolTypes
  <2>2. /\ Append(pool, arg[s]) \in Seq(Services \cup {Null})
        /\ \A x : x \in Range(Append(pool, arg[s])) <=> x \in Range(pool) \/ x = arg[s]
    <3> DEFINE S == Services \cup {Null}
    <3>1. pool \in Seq(S) /\ arg[s] \in S
      BY <2>1
    <3> HIDE DEF S
    <3>2. /\ Append(pool, arg[s]) \in Seq(S)
          /\ \A x : x \in Range(Append(pool, arg[s])) <=> x \in Range(pool) \/ x = arg[s]
      BY <3>1, QueueRange
    <3> QED BY <3>2 DEF S
  <2>3. \/ pool' = pool
        \/ pc[s] = "free.push" /\ pool' = Append(pool, arg[s]) /\ arg'[s] = Null
    BY <1>4, <1>5 DEF Moved, Pool!FreeLabels
  <2> QED BY <2>2, <2>3
<1>13. OnceInPool'
  <2>1. CASE pool' = pool
    BY <2>1 DEF ServerInv, OnceInPool
  <2>2. CASE pool' = Append(pool, arg[s]) /\ arg[s] = Null
    <3>1. pool \in Seq(Services \cup {Null}) /\ \A i, j \in 1 .. Len(pool) :
                pool[i] = pool[j] /\ pool[i] # Null => i = j
      BY <1>1 DEF PoolTypes, ServerInv, OnceInPool
    <3> QED BY <2>2, <3>1 DEF OnceInPool
  <2>3. CASE pool' = Append(pool, arg[s]) /\ arg[s] = s
    <3>1. pool \in Seq(Services \cup {Null}) /\ \A i, j \in 1 .. Len(pool) :
                pool[i] = pool[j] /\ pool[i] # Null => i = j
      BY <1>1 DEF PoolTypes, ServerInv, OnceInPool
    <3>2. \A i \in 1 .. Len(pool) : pool[i] # s
      BY <1>1, <2>3, <3>1 DEF TokenAt, Range
    <3> QED BY <2>3, <3>1, <3>2 DEF OnceInPool
  <2> QED BY <1>11, <1>12, <2>1, <2>2, <2>3
<1>14. ASSUME NEW t \in Services PROVE ThreadAt(t)' /\ TokenAt(t)'
  <2>1. ThreadAt(t) /\ TokenAt(t)
    BY KnownOf
  <2>2. UNCHANGED <<first, service, rpc, locked, cur, called, phase, sem, sstate, head>>
    BY <1>3 DEF Outside, svcVars, list, loop, sesVars
  <2>3. CASE t = s
    <3>1. /\ pc'[s] = "idle" <=> pc[s] = "free.leave"
          /\ arg'[s] # Null => arg'[s] = s /\ pc'[s] \in {"free.enter", "free.push"}
      BY <1>1, <1>4, <1>5, <1>11 DEF Moved, ThreadAt, Pool!FreeLabels
    <3>2. ThreadAt(s)'
      BY <1>1, <1>5, <1>7, <2>2, <3>1 DEF ThreadAt
    <3>3. arg'[s] \in {arg[s], Null}
      BY <1>4, <1>5 DEF Moved, Pool!FreeLabels
    <3>4. TokenAt(s)'
      BY <1>1, <1>3, <1>5, <1>6, <1>7, <1>11, <1>12, <2>2, <3>3, NullIsNone DEF TokenAt, Lent, Outside
    <3> QED BY <2>3, <3>2, <3>4
  <2>4. CASE t # s
    <3>1. pc'[t] = pc[t] /\ arg'[t] = arg[t] /\ hpc'[t] = hpc[t]
      BY <1>6, <1>7, <2>4
    <3>2. ThreadAt(t)'
      BY <2>1, <2>2, <3>1 DEF ThreadAt
    <3>3. t \in Range(pool') <=> t \in Range(pool)
      BY <1>11, <1>12, <2>4, NullIsNone
    <3>4. TokenAt(t)'
      BY <1>3, <1>6, <2>1, <2>2, <3>1, <3>3 DEF TokenAt, Lent, Outside
    <3> QED BY <3>2, <3>4
  <2> QED BY <2>3, <2>4
<1> QED BY <1>4, <1>8, <1>9, <1>10, <1>13, <1>14 DEF ServerInv

(* A service that has been taken from the queue is not in it any more.          *)
LEMMA TakenOnce ==
    ASSUME NEW S, pool \in Seq(S), pool # <<>>, OnceInPool, pool' = Tail(pool)
    PROVE  /\ OnceInPool' /\ Head(pool) \in Range(pool) /\ Head(pool) \in S
           /\ \A x \in Range(pool') : x \in Range(pool)
           /\ Head(pool) # Null => Head(pool) \notin Range(pool')
<1>1. PICK n \in Nat : n = Len(pool) /\ n >= 1
  OBVIOUS
<1>2. DOMAIN pool = 1 .. n /\ Head(pool) = pool[1]
  BY <1>1
<1>3. pool' \in Seq(S) /\ Len(pool') = n - 1
  <2>1. Tail(pool) \in Seq(S)
    OBVIOUS
  <2>2. Len(Tail(pool)) = Len(pool) - 1
    OBVIOUS
  <2> QED BY <1>1, <2>1, <2>2
<1>4. DOMAIN pool' = 1 .. n - 1
  BY <1>3
<1>5. \A i \in 1 .. n - 1 : pool'[i] = pool[i + 1] /\ i + 1 \in 1 .. n /\ i + 1 # 1
  BY <1>1
<1>6. 1 \in 1 .. n /\ \A i \in 1 .. n : pool[i] \in S
  BY <1>1
<1>7. \A x \in Range(pool') : x \in Range(pool)
  BY <1>2, <1>4, <1>5 DEF Range
<1>8. Head(pool) \in Range(pool) /\ Head(pool) \in S
  BY <1>2, <1>6 DEF Range
<1>9. \A i, j \in 1 .. n : pool[i] = pool[j] /\ pool[i] # Null => i = j
  BY <1>2 DEF OnceInPool
<1>10. ASSUME Head(pool) # Null PROVE Head(pool) \notin Range(pool')
  BY <1>2, <1>4, <1>5, <1>6, <1>9, <1>10 DEF Range
<1>11. OnceInPool'
  <2>1. \A i, j \in 1 .. n - 1 : pool'[i] = pool'[j] /\ pool'[i] # Null => i = j
    <3> TAKE i, j \in 1 .. n - 1
    <3>1. HAVE pool'[i] = pool'[j] /\ pool'[i] # Null
    <3>2. i + 1 = j + 1
      BY <1>5, <1>9, <3>1
    <3> QED BY <3>2
  <2> QED BY <1>4, <2>1 DEF OnceInPool
<1> QED BY <1>7, <1>8, <1>10, <1>11

(* The acceptor takes a service from the pool.                                  *)
LEMMA InGetServiceStep ==
    ASSUME ServerInv, InGetService \/ InGetServiceSpurious
    PROVE  ServerInv'
<1>1. /\ Types /\ TypeOK /\ PoolTypes /\ Pool!MutexHeld /\ AcceptorInv /\ OnceInPool
      /\ apc = "get" /\ asvc = Null /\ hpc' = hpc
  BY DEF ServerInv, Types, AcceptorInv, InGetService, InGetServiceSpurious
<1>2. Acceptor \in Pool!Threads /\ \A t \in Services : t \in Pool!Threads /\ t # Acceptor
  BY ThreadsDiffer DEF Pool!Threads
<1>3. Outside
  BY DEF InGetService, InGetServiceSpurious, Outside, accVars
<1>4. PoolTypes' /\ Pool!MutexHeld' /\ Moved(Acceptor)
  BY <1>1, <1>2, PoolMoves DEF InGetService, InGetServiceSpurious
<1>5. /\ pc[Acceptor] \in Getting /\ pc[Acceptor] \notin Pool!FreeLabels
      /\ pc'[Acceptor] \in Getting /\ pc[Acceptor] # "idle"
      /\ pc'[Acceptor] = "idle" <=> pc[Acceptor] = "get.leave"
  BY <1>1, <1>4 DEF Types, Moved, Getting, Pool!GetLabels, Pool!WaitLabels, Pool!FreeLabels
<1>6. \A t \in Services : pc'[t] = pc[t] /\ arg'[t] = arg[t]
  BY <1>1, <1>2, <1>4 DEF Types, Moved, Running, Pool!FreeLabels
<1>7. IF pc[Acceptor] = "get.leave" THEN apc' = "accept" /\ asvc' = arg[Acceptor]
      ELSE apc' = apc /\ asvc' = asvc
  BY <1>1, <1>2, <1>4 DEF InGetService, InGetServiceSpurious, accVars, Pool!SpuriousWakeup
<1>8. OneList' /\ Sessions' /\ SvcTypeOK' /\ UNCHANGED <<todo, inbox, timer>>
  BY <1>1, <1>3, <1>7, OutsideKeeps
<1>9. Types'
  <2>1. asvc' \in Services \cup {Null} /\ apc' \in {"get", "accept"}
    BY <1>1, <1>2, <1>7 DEF TypeOK, PoolTypes
  <2>2. TypeOK'
    BY <1>1, <1>3, <1>4, <1>8, <2>1 DEF TypeOK, PoolTypes, Outside, sesVars, netVars
  <2> QED BY <1>1, <1>4, <1>5, <1>6, <1>8, <2>2 DEF Types
<1>10. \/ /\ pool' = pool /\ arg'[Acceptor] = arg[Acceptor] /\ arg[Acceptor] = Null
          /\ pc[Acceptor] # "get.leave"
       \/ /\ pc'[Acceptor] = "get.leave" /\ pc[Acceptor] = "get.test"
          /\ arg'[Acceptor] = Head(pool) /\ pool # <<>> /\ pool' = Tail(pool)
       \/ pc[Acceptor] = "get.leave" /\ pool' = pool /\ arg'[Acceptor] = Null
  <2>1. pc[Acceptor] # "get.leave" => arg[Acceptor] = Null
    BY <1>1 DEF AcceptorInv
  <2>2. pc[Acceptor] # "free.push"
    BY <1>5 DEF Pool!FreeLabels
  <2> QED BY <1>4, <2>1, <2>2 DEF Moved
<1>11. AcceptorInv'
  BY <1>1, <1>5, <1>7, <1>10 DEF AcceptorInv, Attached
<1>12. CASE pool' = pool /\ arg'[Acceptor] = arg[Acceptor] /\ arg[Acceptor] = Null
            /\ pc[Acceptor] # "get.leave"
  <2>1. OnceInPool'
    BY <1>1, <1>12 DEF OnceInPool
  <2>2. ASSUME NEW t \in Services PROVE ThreadAt(t)' /\ TokenAt(t)'
    <3>1. ThreadAt(t)' = ThreadAt(t)
      BY <1>1, <1>3, <1>6 DEF ThreadAt, Outside, svcVars, list, loop, sesVars
    <3>2. TokenAt(t)' = TokenAt(t)
      BY <1>1, <1>3, <1>6, <1>7, <1>12 DEF TokenAt, Lent, Outside, svcVars, list, loop
    <3> QED BY <3>1, <3>2, KnownOf
  <2> QED BY <1>4, <1>8, <1>9, <1>11, <2>1, <2>2 DEF ServerInv
<1>13. CASE pc[Acceptor] = "get.leave" /\ pool' = pool /\ arg'[Acceptor] = Null
  <2>1. OnceInPool'
    BY <1>1, <1>13 DEF OnceInPool
  <2>2. ASSUME NEW t \in Services PROVE ThreadAt(t)' /\ TokenAt(t)'
    <3>1. ThreadAt(t)' = ThreadAt(t)
      BY <1>1, <1>3, <1>6 DEF ThreadAt, Outside, svcVars, list, loop, sesVars
    <3>2. TokenAt(t)'
      BY <1>1, <1>3, <1>6, <1>7, <1>13, KnownOf, NullIsNone
      DEF TokenAt, Lent, Outside, svcVars, list, loop, Attached
    <3> QED BY <3>1, <3>2, KnownOf
  <2> QED BY <1>4, <1>8, <1>9, <1>11, <2>1, <2>2 DEF ServerInv
<1>14. CASE /\ pc'[Acceptor] = "get.leave" /\ pc[Acceptor] = "get.test"
            /\ arg'[Acceptor] = Head(pool) /\ pool # <<>> /\ pool' = Tail(pool)
  <2>1. /\ OnceInPool' /\ Head(pool) \in Range(pool)
        /\ \A x \in Range(pool') : x \in Range(pool)
        /\ Head(pool) # Null => Head(pool) \notin Range(pool')
    <3>1. pool \in Seq(Services \cup {Null})
      BY <1>1 DEF PoolTypes
    <3> QED BY <1>1, <1>14, <3>1, TakenOnce
  <2>2. ASSUME NEW t \in Services PROVE ThreadAt(t)' /\ TokenAt(t)'
    <3>1. ThreadAt(t)' = ThreadAt(t)
      BY <1>1, <1>3, <1>6 DEF ThreadAt, Outside, svcVars, list, loop, sesVars
    <3>2. asvc' = Null
      BY <1>1, <1>7, <1>14
    <3>3. PICK h : h = Head(pool)
      OBVIOUS
    <3>4. TokenAt(t)'
      BY <1>1, <1>3, <1>6, <1>14, <2>1, <3>2, <3>3, KnownOf, NullIsNone
      DEF TokenAt, Lent, Outside, svcVars, list, loop
    <3> QED BY <3>1, <3>4, KnownOf
  <2> QED BY <1>4, <1>8, <1>9, <1>11, <2>1, <2>2 DEF ServerInv
<1> QED BY <1>10, <1>12, <1>13, <1>14

(* The acceptor calls getService, and run() leaves after a failed accept().     *)
LEMMA AcceptorWaits ==
    ASSUME ServerInv, GetService \/ AcceptFails
    PROVE  ServerInv'
<1>1. /\ Types /\ TypeOK /\ PoolTypes /\ Pool!MutexHeld /\ AcceptorInv /\ OnceInPool
  BY DEF ServerInv, Types
<1>2. Acceptor \in Pool!Threads /\ \A t \in Services : t \in Pool!Threads /\ t # Acceptor
  BY ThreadsDiffer DEF Pool!Threads
<1>3. Outside /\ asvc' = asvc /\ hpc' = hpc
  BY DEF GetService, AcceptFails, Outside
<1>4. \/ apc = "run" /\ apc' = "get" /\ pc[Acceptor] = "idle" /\ pc' = [pc EXCEPT ![Acceptor] = "get.enter"]
      \/ apc = "accept" /\ apc' = "exited" /\ pc' = pc
  BY DEF GetService, AcceptFails, AcceptorAt, Pool!GetCall, Pool!Go, poolVars
<1>5. UNCHANGED <<pool, owner, arg>>
  BY DEF GetService, AcceptFails, Pool!GetCall, poolVars
<1>6. /\ pc' \in [Pool!Threads -> Pool!Labels] /\ \A t \in Services : pc'[t] = pc[t]
      /\ pc'[Acceptor] \in Getting /\ (apc' = "get" <=> pc'[Acceptor] # "idle")
      /\ pc[Acceptor] = "get.leave" => pc'[Acceptor] = "get.leave"
  BY <1>1, <1>2, <1>4 DEF PoolTypes, Types, AcceptorInv, Pool!Labels, Pool!GetLabels, Getting
<1>7. OneList' /\ Sessions' /\ SvcTypeOK' /\ UNCHANGED <<todo, inbox, timer>>
  BY <1>3, <1>4, OutsideKeeps
<1>8. PoolTypes' /\ Pool!MutexHeld'
  <2>1. CASE pc' = pc
    BY <1>1, <1>5, <2>1 DEF PoolTypes, Pool!MutexHeld
  <2>2. CASE pc[Acceptor] = "idle" /\ pc' = [pc EXCEPT ![Acceptor] = "get.enter"]
    <3>1. PoolTypes'
      BY <1>1, <1>2, <1>5, <1>6, <2>2 DEF PoolTypes, Pool!WaitLabels
    <3>2. Pool!MutexHeld'
      BY <1>1, <1>2, <1>5, <2>2 DEF PoolTypes, Pool!MutexHeld, Pool!Holding
    <3> QED BY <3>1, <3>2
  <2> QED BY <1>4, <2>1, <2>2
<1>9. Types'
  <2>1. TypeOK'
    BY <1>1, <1>3, <1>4, <1>5, <1>7 DEF TypeOK, Outside, sesVars, netVars
  <2> QED BY <1>1, <1>6, <1>7, <1>8, <2>1 DEF Types
<1>10. AcceptorInv'
  BY <1>1, <1>3, <1>4, <1>5, <1>6 DEF AcceptorInv, Attached, Outside
<1>11. OnceInPool'
  BY <1>1, <1>5 DEF OnceInPool
<1>12. ASSUME NEW t \in Services PROVE ThreadAt(t)' /\ TokenAt(t)'
  <2>1. ThreadAt(t)' = ThreadAt(t)
    BY <1>3, <1>5, <1>6 DEF ThreadAt, Outside, svcVars, list, loop, sesVars
  <2>2. TokenAt(t)'
    BY <1>3, <1>4, <1>5, KnownOf DEF TokenAt, Lent, Outside, svcVars, list, loop, Attached
  <2> QED BY <2>1, <2>2, KnownOf
<1> QED BY <1>7, <1>8, <1>9, <1>10, <1>11, <1>12 DEF ServerInv

(* The pool as a step outside it leaves it.                                     *)
LEMMA PoolStays ==
    ASSUME ServerInv, UNCHANGED poolVars
    PROVE  PoolTypes' /\ Pool!MutexHeld' /\ OnceInPool' /\ UNCHANGED <<pool, owner, pc, arg>>
BY DEF ServerInv, Types, PoolTypes, OnceInPool, Pool!MutexHeld, poolVars

(* The acceptor accepts the connection c.                                       *)
LEMMA AcceptStep ==
    ASSUME ServerInv, NEW c \in Ports, Accept(c)
    PROVE  ServerInv'
<1>1. /\ Types /\ TypeOK /\ SvcTypeOK /\ AcceptorInv /\ OneList /\ Sessions
  BY DEF ServerInv, Types, TypeOK
<1>2. /\ apc = "accept" /\ apc' = IF asvc = Null THEN "vptr" ELSE "attach"
      /\ life[c] = "none" /\ life' = [life EXCEPT ![c] = "live"] /\ conn' = c /\ asvc' = asvc
      /\ UNCHANGED <<list, loop, array, timer, wake, poolVars, sesVars, hpc, netVars, wild>>
  BY DEF Accept, AcceptorAt
<1>3. PoolTypes' /\ Pool!MutexHeld' /\ OnceInPool' /\ UNCHANGED <<pool, owner, pc, arg>>
  BY <1>2, PoolStays
<1>4. life' \in [Ports -> {"none", "live", "freed"}] /\ life'[c] = "live" /\ c # Null
      /\ \A d \in Ports \ {c} : life'[d] = life[d]
  BY <1>1, <1>2, NullIsNone DEF SvcTypeOK
<1>5. Types'
  <2>1. SvcTypeOK'
    BY <1>1, <1>2, <1>4 DEF SvcTypeOK, list, loop, array
  <2>2. TypeOK'
    BY <1>1, <1>2, <1>3, <2>1 DEF TypeOK, sesVars, netVars
  <2> QED BY <1>1, <1>2, <1>3, <2>2 DEF Types, netVars
<1>6. OneList'
  BY <1>1, <1>2, <1>4 DEF OneList, list, SvcTypeOK
<1>7. Sessions'
  <2>1. \A d \in Ports : Fresh(d)' => Fresh(d)
    BY <1>2, <1>4 DEF Fresh
  <2>2. \A d \in Ports : Ready(d)' = Ready(d)
    BY <1>2 DEF Ready, sesVars
  <2>3. UNCHANGED <<service, phase, cur, called, sem>>
    BY <1>2 DEF list, loop, sesVars
  <2> QED BY <1>1, <2>1, <2>2, <2>3 DEF Sessions
<1>8. AcceptorInv'
  <2>1. phase[c] = "base"
    BY <1>1, <1>2 DEF Sessions, Fresh
  <2> QED BY <1>1, <1>2, <1>3, <1>4, <2>1 DEF AcceptorInv, Attached, sesVars
<1>9. ASSUME NEW t \in Services PROVE ThreadAt(t)' /\ TokenAt(t)'
  <2>1. ThreadAt(t)' = ThreadAt(t)
    BY <1>2, <1>3 DEF ThreadAt, list, loop, sesVars
  <2>2. TokenAt(t)'
    BY <1>2, <1>3, KnownOf, NullIsNone DEF TokenAt, Lent, list, loop, Attached
  <2> QED BY <2>1, <2>2, KnownOf
<1> QED BY <1>3, <1>5, <1>6, <1>7, <1>8, <1>9 DEF ServerInv

(* The service that the acceptor has in hand has no session: attach finds its   *)
(* list empty.                                                                  *)
LEMMA AttachStep ==
    ASSUME ServerInv, AttachSession
    PROVE  ServerInv'
<1>1. /\ Types /\ TypeOK /\ SvcTypeOK /\ AcceptorInv /\ OneList /\ Sessions
  BY DEF ServerInv, Types, TypeOK
<1>2. /\ apc = "attach" /\ apc' \in {"start", "update"} /\ UNCHANGED <<asvc, conn>>
      /\ UNCHANGED <<loop, polled, lastcount, in, hup, life, timer, wake, poolVars, sesVars,
                     hpc, netVars, wild>>
  BY DEF AttachSession, AcceptorAt
<1>3. PICK s \in Services : s = asvc
  BY <1>1, <1>2 DEF TypeOK, AcceptorInv
<1>4. PICK c \in Ports : c = conn
  BY <1>1, <1>2 DEF TypeOK, AcceptorInv
<1>5. Link(s, c) /\ ~locked[s]
  BY <1>3, <1>4 DEF AttachSession
<1>6. ThreadAt(s) /\ TokenAt(s) /\ c # Null /\ s # Null
  BY KnownOf, NullIsNone
<1>7. rpc[s] \notin {"visit", "timer", "pending", "disconnect"} /\ hpc[s] = "idle" /\ called[s] = Null
  BY <1>5, <1>6 DEF ThreadAt
<1>8. first[s] = Null /\ last[s] = Null /\ count[s] = 0 /\ arg[s] # s
  BY <1>1, <1>2, <1>3, <1>6, <1>7 DEF TokenAt, Lent, OneList, Attached
<1>9. Fresh(c) /\ life[c] = "live" /\ service[c] = Null /\ phase[c] = "base"
      /\ \A t \in Services : cur[t] # c /\ called[t] # c
  BY <1>1, <1>2, <1>4 DEF Fresh, AcceptorInv, Sessions
<1>10. /\ next' = next /\ prev' = [prev EXCEPT ![c] = Null] /\ last' = [last EXCEPT ![s] = c]
       /\ first' = [first EXCEPT ![s] = c] /\ count' = [count EXCEPT ![s] = 1]
       /\ service' = [service EXCEPT ![c] = s] /\ ufd' = [ufd EXCEPT ![c] = Null]
  BY <1>1, <1>5, <1>8 DEF Link, SvcTypeOK
<1>11. PoolTypes' /\ Pool!MutexHeld' /\ OnceInPool' /\ UNCHANGED <<pool, owner, pc, arg>>
  BY <1>2, PoolStays
<1>12. /\ first'[s] = c /\ \A t \in Services \ {s} : first'[t] = first[t]
       /\ count'[s] = 1 /\ \A t \in Services \ {s} : count'[t] = count[t]
       /\ service'[c] = s /\ \A d \in Ports \ {c} : service'[d] = service[d]
  BY <1>1, <1>10 DEF SvcTypeOK
<1>13. Types'
  <2>1. first' \in [Services -> Ports \cup {Null}] /\ last' \in [Services -> Ports \cup {Null}]
    BY <1>1, <1>10 DEF SvcTypeOK
  <2>2. next' \in [Ports -> Ports \cup {Null}] /\ prev' \in [Ports -> Ports \cup {Null}]
    BY <1>1, <1>10 DEF SvcTypeOK
  <2>3. count' \in [Services -> Nat] /\ service' \in [Ports -> Services \cup {Null}]
        /\ ufd' \in [Ports -> Services \cup {Null}]
    BY <1>1, <1>10 DEF SvcTypeOK
  <2>4. SvcTypeOK'
    BY <1>1, <1>2, <2>1, <2>2, <2>3 DEF SvcTypeOK, loop
  <2>5. TypeOK'
    BY <1>1, <1>2, <1>11, <2>4 DEF TypeOK, sesVars, netVars
  <2> QED BY <1>1, <1>2, <1>11, <2>5 DEF Types, netVars
<1>14. OneList'
  <2>1. prev' = prev /\ last' = first'
    BY <1>1, <1>10 DEF OneList, SvcTypeOK
  <2>2. ASSUME NEW t \in Services
        PROVE  /\ count'[t] = IF first'[t] = Null THEN 0 ELSE 1
               /\ first'[t] # Null => service'[first'[t]] = t /\ life'[first'[t]] = "live"
    <3>1. CASE t = s
      BY <1>2, <1>6, <1>9, <1>12, <3>1
    <3>2. CASE t # s
      <4>1. first[t] # Null => first[t] \in Ports /\ service[first[t]] = t /\ life[first[t]] = "live"
        BY KnownOf
      <4>2. first[t] # Null => first[t] # c
        BY <1>9, <4>1, NullIsNone
      <4> QED BY <1>1, <1>2, <1>12, <3>2, <4>1, <4>2 DEF OneList
    <3> QED BY <3>1, <3>2
  <2>3. ASSUME NEW d \in Ports, service'[d] # Null PROVE first'[service'[d]] = d
    <3>1. CASE d = c
      BY <1>12, <3>1
    <3>2. CASE d # c
      <4>1. service'[d] = service[d] /\ service[d] \in Services /\ first[service[d]] = d
        BY <1>1, <1>12, <2>3, <3>2 DEF OneList, SvcTypeOK
      <4>2. service[d] # s
        BY <1>8, <4>1, NullIsNone
      <4> QED BY <1>12, <4>1, <4>2
    <3> QED BY <3>1, <3>2
  <2>4. next' = [d \in Ports |-> Null] /\ prev' = [d \in Ports |-> Null]
    BY <1>1, <1>10, <2>1 DEF OneList
  <2> QED BY <2>1, <2>2, <2>3, <2>4 DEF OneList
<1>15. Sessions'
  <2>1. \A d \in Ports : Fresh(d)' => Fresh(d) /\ d # c
    BY <1>2, <1>9 DEF Fresh
  <2>2. \A d \in Ports : Ready(d)' = Ready(d)
    BY <1>2 DEF Ready, sesVars
  <2>3. UNCHANGED <<phase, cur, called, sem>>
    BY <1>2 DEF loop, sesVars
  <2> QED BY <1>1, <1>12, <2>1, <2>2, <2>3 DEF Sessions
<1>16. AcceptorInv'
  BY <1>1, <1>2, <1>3, <1>4, <1>6, <1>9, <1>11 DEF AcceptorInv, Attached, sesVars
<1>17. ASSUME NEW t \in Services PROVE ThreadAt(t)' /\ TokenAt(t)'
  <2>1. UNCHANGED <<rpc, locked, cur, called, hpc, pc, arg, phase, sem, sstate, head, pool, asvc, conn>>
    BY <1>2, <1>11 DEF loop, sesVars
  <2>2. CASE t = s
    <3>1. ThreadAt(s)'
      BY <1>6, <1>7, <2>1 DEF ThreadAt
    <3>2. TokenAt(s)'
      <4>1. arg[Acceptor] = Null
        BY <1>1, <1>2 DEF AcceptorInv
      <4>2. s \notin Range(pool)
        BY <1>3, <1>6 DEF TokenAt
      <4> QED BY <1>2, <1>3, <1>4, <1>6, <1>7, <1>8, <1>12, <2>1, <4>1, <4>2 DEF TokenAt, Attached
    <3> QED BY <2>2, <3>1, <3>2
  <2>3. CASE t # s
    <3>1. first'[t] = first[t] /\ asvc # t /\ ThreadAt(t) /\ TokenAt(t)
      BY <1>3, <1>12, <2>3, KnownOf
    <3>2. called[t] # Null => service'[called[t]] = service[called[t]]
      BY <1>9, <1>12, KnownOf
    <3>3. ThreadAt(t)'
      <4>1. rpc[t] = "disconnect" => called[t] # Null /\ service[called[t]] = Null
        BY <3>1 DEF ThreadAt
      <4> QED BY <2>1, <3>1, <3>2, <4>1 DEF ThreadAt
    <3>4. TokenAt(t)'
      BY <2>1, <3>1 DEF TokenAt, Lent
    <3> QED BY <3>3, <3>4
  <2> QED BY <2>2, <2>3
<1> QED BY <1>11, <1>13, <1>14, <1>15, <1>16, <1>17 DEF ServerInv

(* After attach the acceptor wakes or starts the thread of the service.         *)
LEMMA StartOrUpdateStep ==
    ASSUME ServerInv, StartService \/ UpdateService
    PROVE  ServerInv'
<1>1. /\ Types /\ TypeOK /\ SvcTypeOK /\ AcceptorInv /\ OneList /\ Sessions
  BY DEF ServerInv, Types, TypeOK
<1>2. /\ apc \in {"start", "update"} /\ apc' = "vptr" /\ UNCHANGED <<asvc, conn>>
      /\ UNCHANGED <<list, locked, cur, called, rebuild, timed, array, life, timer, poolVars,
                     sesVars, hpc, netVars, wild>>
  BY DEF StartService, UpdateService, AcceptorAt, loop
<1>3. PICK s \in Services : s = asvc
  BY <1>1, <1>2 DEF TypeOK, AcceptorInv
<1>4. /\ rpc' = rpc \/ (rpc[s] = "off" /\ rpc' = [rpc EXCEPT ![s] = "init"])
      /\ wake' = wake \/ wake' = [wake EXCEPT ![s] = TRUE]
  BY <1>3 DEF StartService, UpdateService, StartThread, Update, loop
<1>5. PoolTypes' /\ Pool!MutexHeld' /\ OnceInPool' /\ UNCHANGED <<pool, owner, pc, arg>>
  BY <1>2, PoolStays
<1>6. Types'
  <2>1. rpc' \in [Services -> ThreadLabels] /\ wake' \in [Services -> BOOLEAN]
    BY <1>1, <1>4 DEF SvcTypeOK, ThreadLabels
  <2>2. SvcTypeOK'
    BY <1>1, <1>2, <2>1 DEF SvcTypeOK, ThreadLabels, list, array
  <2>3. TypeOK'
    BY <1>1, <1>2, <1>5, <2>2 DEF TypeOK, sesVars, netVars
  <2> QED BY <1>1, <1>2, <1>5, <2>3 DEF Types, netVars
<1>7. OneList'
  BY <1>1, <1>2 DEF OneList, list
<1>8. Sessions'
  <2>1. \A d \in Ports : Fresh(d)' => Fresh(d)
    BY <1>2 DEF Fresh
  <2>2. \A d \in Ports : Ready(d)' = Ready(d)
    BY <1>2 DEF Ready, sesVars
  <2> QED BY <1>1, <1>2, <2>1, <2>2 DEF Sessions, list, sesVars
<1>9. AcceptorInv'
  BY <1>1, <1>2, <1>5 DEF AcceptorInv, Attached, sesVars
<1>10. ASSUME NEW t \in Services PROVE ThreadAt(t)' /\ TokenAt(t)'
  <2>1. ThreadAt(t) /\ TokenAt(t)
    BY KnownOf
  <2>2. rpc'[t] = rpc[t] \/ (rpc[t] = "off" /\ rpc'[t] = "init")
    BY <1>1, <1>4 DEF SvcTypeOK
  <2>3. ThreadAt(t)'
    BY <1>2, <1>5, <2>1, <2>2 DEF ThreadAt, list, sesVars
  <2>4. TokenAt(t)'
    BY <1>2, <1>5, <2>1 DEF TokenAt, Lent, Attached, list
  <2> QED BY <2>3, <2>4
<1> QED BY <1>5, <1>6, <1>7, <1>8, <1>9, <1>10 DEF ServerInv

(* The acceptor constructs the session, piece by piece.                         *)
LEMMA ConstructStep ==
    ASSUME ServerInv, BecomeSession \/ ConstructMembers \/ ConstructorBody
    PROVE  ServerInv'
<1>1. /\ Types /\ TypeOK /\ SvcTypeOK /\ AcceptorInv /\ OneList /\ Sessions
  BY DEF ServerInv, Types, TypeOK
<1>2. /\ apc \in {"vptr", "members", "body"}
      /\ UNCHANGED <<svcVars, poolVars, head, replied, hpc, netVars, wild>>
  BY DEF BecomeSession, ConstructMembers, ConstructorBody, AcceptorAt
<1>3. PICK c \in Ports : c = conn
  BY <1>1, <1>2 DEF TypeOK, AcceptorInv, Attached
<1>4. \/ /\ apc = "vptr" /\ apc' = "members" /\ phase' = [phase EXCEPT ![c] = "vptr"]
         /\ UNCHANGED <<asvc, conn, sem, sstate>>
      \/ /\ apc = "members" /\ apc' = "body" /\ phase' = [phase EXCEPT ![c] = "members"]
         /\ UNCHANGED <<asvc, conn, sem, sstate>>
      \/ /\ apc = "body" /\ apc' = "run" /\ phase' = [phase EXCEPT ![c] = "built"]
         /\ asvc' = Null /\ conn' = Null
         /\ sem' = [sem EXCEPT ![c] = @ + 1] /\ sstate' = [sstate EXCEPT ![c] = "INITIAL"]
  BY <1>3 DEF BecomeSession, ConstructMembers, ConstructorBody, AcceptorAt
<1>5. PoolTypes' /\ Pool!MutexHeld' /\ OnceInPool' /\ UNCHANGED <<pool, owner, pc, arg>>
  BY <1>2, PoolStays
<1>6. phase[c] # "built" /\ sem[c] = 0 /\ life[c] # "none" /\ ~Fresh(c)
      /\ c # Null /\ arg[Acceptor] = Null
  BY <1>1, <1>2, <1>3, NullIsNone DEF AcceptorInv, Attached, Sessions, Fresh
<1>7. /\ \A d \in Ports \ {c} : phase'[d] = phase[d] /\ sem'[d] = sem[d] /\ sstate'[d] = sstate[d]
      /\ sem'[c] = IF apc = "body" THEN 1 ELSE 0
      /\ phase'[c] = IF apc = "body" THEN "built" ELSE apc
      /\ apc = "body" => sstate'[c] = "INITIAL"
  BY <1>1, <1>4, <1>6 DEF TypeOK
<1>8. Types'
  <2>1. SvcTypeOK'
    BY <1>1, <1>2 DEF SvcTypeOK, svcVars, list, loop, array
  <2>2. /\ phase' \in [Ports -> {"base", "vptr", "members", "built"}]
        /\ sem' \in [Ports -> 0 .. 1]
        /\ sstate' \in [Ports -> {"INITIAL", "GETTINGHEAD", "PARSINGHEAD", "KNOWNHEAD"}]
        /\ asvc' \in Services \cup {Null} /\ conn' \in Ports \cup {Null}
        /\ apc' \in {"members", "body", "run"}
    <3>1. sem' = sem \/ sem' = [sem EXCEPT ![c] = 1]
      BY <1>4, <1>6
    <3>2. sem' \in [Ports -> 0 .. 1]
      BY <1>1, <3>1 DEF TypeOK
    <3> QED BY <1>1, <1>4, <3>2 DEF TypeOK
  <2>3. TypeOK'
    BY <1>1, <1>2, <1>5, <2>1, <2>2 DEF TypeOK, netVars
  <2> QED BY <1>1, <1>2, <1>5, <2>3 DEF Types, netVars, svcVars
<1>9. OneList'
  BY <1>1, <1>2 DEF OneList, svcVars, list
<1>10. Sessions'
  <2>1. \A d \in Ports : Fresh(d)' => Fresh(d) /\ d # c
    BY <1>2, <1>4, <1>6 DEF Fresh, svcVars
  <2>2. \A d \in Ports : Ready(d)'
    <3> TAKE d \in Ports
    <3>1. d # c => Ready(d)'
      BY <1>1, <1>2, <1>7 DEF Sessions, Ready
    <3>2. d = c => Ready(d)'
      BY <1>7 DEF Ready
    <3> QED BY <3>1, <3>2
  <2>3. \A d \in Ports : phase'[d] # "built" => sem'[d] = 0
    BY <1>1, <1>7 DEF Sessions
  <2>4. UNCHANGED <<service, cur, called>>
    BY <1>2 DEF svcVars, list, loop
  <2> QED BY <1>1, <1>7, <2>1, <2>2, <2>3, <2>4 DEF Sessions
<1>11. AcceptorInv'
  BY <1>1, <1>2, <1>3, <1>4, <1>5, <1>6, <1>7 DEF AcceptorInv, Attached, svcVars
<1>12. ASSUME NEW t \in Services PROVE ThreadAt(t)' /\ TokenAt(t)'
  <2>1. ThreadAt(t) /\ TokenAt(t)
    BY KnownOf
  <2>2. UNCHANGED <<first, service, rpc, locked, cur, called, hpc, head, pc, arg, pool>>
    BY <1>2, <1>5 DEF svcVars, list, loop
  <2>3. hpc[t] # "idle" => /\ called[t] \in Ports /\ called[t] # c
                           /\ phase'[called[t]] = phase[called[t]]
                           /\ sem'[called[t]] = sem[called[t]]
                           /\ sstate'[called[t]] = sstate[called[t]]
    <3>1. hpc[t] # "idle" => called[t] \in Ports /\ phase[called[t]] = "built"
      BY <2>1, KnownOf DEF ThreadAt
    <3> QED BY <1>6, <1>7, <3>1
  <2>4. ThreadAt(t)'
    BY <2>1, <2>2, <2>3 DEF ThreadAt
  <2>5. CASE apc = "body"
    <3>1. asvc' = Null /\ t # Null
      BY <1>4, <2>5, NullIsNone
    <3> QED BY <1>6, <2>1, <2>2, <2>4, <3>1 DEF TokenAt, Lent
  <2>6. CASE apc # "body"
    <3>1. UNCHANGED <<asvc, conn>> /\ apc \in Attached /\ apc' \in Attached
      BY <1>2, <1>4, <2>6 DEF Attached
    <3> QED BY <2>1, <2>2, <2>4, <3>1 DEF TokenAt, Lent
  <2> QED BY <2>5, <2>6
<1> QED BY <1>5, <1>8, <1>9, <1>10, <1>11, <1>12 DEF ServerInv
--------------------------------------------------------------------------------
(* The end of a session.                                                        *)

(* Detaching the one port of a service leaves it with none.                     *)
LEMMA UnlinkOne ==
    ASSUME ServerInv, NEW s \in Services, NEW c \in Ports, c = first[s], Unlink(s, c),
           \A d \in Ports \ {c} : life'[d] = life[d]
    PROVE  /\ OneList'
           /\ first' \in [Services -> Ports \cup {Null}] /\ last' \in [Services -> Ports \cup {Null}]
           /\ count' \in [Services -> Nat] /\ next' = next /\ prev' = prev
           /\ service' \in [Ports -> Services \cup {Null}]
           /\ first'[s] = Null /\ \A t \in Services \ {s} : first'[t] = first[t]
           /\ service'[c] = Null /\ \A d \in Ports \ {c} : service'[d] = service[d]
<1>1. SvcTypeOK /\ OneList
  BY DEF ServerInv, Types, TypeOK
<1>2. c # Null /\ next[c] = Null /\ prev[c] = Null /\ count[s] = 1 /\ service[c] = s
  BY <1>1, NullIsNone, KnownOf DEF OneList
<1>3. /\ next' = next /\ prev' = prev /\ first' = [first EXCEPT ![s] = Null]
      /\ last' = [last EXCEPT ![s] = Null] /\ count' = [count EXCEPT ![s] = 0]
      /\ service' = [service EXCEPT ![c] = Null]
  <2>1. 1 - 1 = 0
    OBVIOUS
  <2> QED BY <1>1, <1>2, <2>1 DEF Unlink, SvcTypeOK
<1>4. /\ first'[s] = Null /\ \A t \in Services \ {s} : first'[t] = first[t]
      /\ count'[s] = 0 /\ \A t \in Services \ {s} : count'[t] = count[t]
      /\ service'[c] = Null /\ \A d \in Ports \ {c} : service'[d] = service[d]
  BY <1>1, <1>3 DEF SvcTypeOK
<1>5. /\ first' \in [Services -> Ports \cup {Null}] /\ last' \in [Services -> Ports \cup {Null}]
      /\ count' \in [Services -> Nat] /\ service' \in [Ports -> Services \cup {Null}]
  BY <1>1, <1>3 DEF SvcTypeOK
<1>6. last' = first'
  BY <1>1, <1>3 DEF OneList
<1>7. ASSUME NEW t \in Services
      PROVE  /\ count'[t] = IF first'[t] = Null THEN 0 ELSE 1
             /\ first'[t] # Null => service'[first'[t]] = t /\ life'[first'[t]] = "live"
  <2>1. CASE t = s
    BY <1>4, <2>1
  <2>2. CASE t # s
    <3>1. first[t] # Null => first[t] \in Ports /\ service[first[t]] = t /\ life[first[t]] = "live"
      BY KnownOf
    <3>2. first[t] # Null => first[t] # c
      BY <1>2, <2>2, <3>1
    <3> QED BY <1>1, <1>4, <2>2, <3>1, <3>2 DEF OneList
  <2> QED BY <2>1, <2>2
<1>8. ASSUME NEW d \in Ports, service'[d] # Null PROVE first'[service'[d]] = d
  <2>1. d # c /\ service'[d] = service[d] /\ service[d] \in Services /\ first[service[d]] = d
    BY <1>1, <1>4, <1>8 DEF OneList, SvcTypeOK
  <2>2. service[d] # s
    BY <2>1
  <2> QED BY <1>4, <2>1, <2>2
<1>9. OneList'
  BY <1>1, <1>3, <1>6, <1>7, <1>8 DEF OneList
<1> QED BY <1>3, <1>4, <1>5, <1>9

(* The service thread finds its port hung up, detaches it and calls             *)
(* disconnect.                                                                  *)
LEMMA HupStep ==
    ASSUME ServerInv, NEW s \in Services, RunHup(s), Quiet
    PROVE  ServerInv'
<1>1. /\ Types /\ TypeOK /\ SvcTypeOK /\ AcceptorInv /\ OneList /\ Sessions /\ ThreadAt(s) /\ TokenAt(s)
  BY KnownOf DEF ServerInv, Types, TypeOK
<1>2. PICK c \in Ports : c = cur[s]
  BY KnownOf DEF RunHup
<1>3. rpc[s] = "visit" /\ c = first[s] /\ c # Null /\ locked[s] /\ hpc[s] = "idle" /\ next[c] = Null
  BY <1>1, <1>2, NullIsNone DEF RunHup, ThreadAt, OneList
<1>4. /\ cur' = [cur EXCEPT ![s] = Null] /\ Unlink(s, c) /\ wake' = [wake EXCEPT ![s] = TRUE]
      /\ rebuild' = [rebuild EXCEPT ![s] = TRUE] /\ called' = [called EXCEPT ![s] = c]
      /\ rpc' = [rpc EXCEPT ![s] = "disconnect"]
      /\ UNCHANGED <<locked, timed, array, life, timer>>
  BY <1>2, <1>3 DEF RunHup, Update
<1>5. /\ OneList'
      /\ first' \in [Services -> Ports \cup {Null}] /\ last' \in [Services -> Ports \cup {Null}]
      /\ count' \in [Services -> Nat] /\ next' = next /\ prev' = prev
      /\ service' \in [Ports -> Services \cup {Null}]
      /\ first'[s] = Null /\ \A t \in Services \ {s} : first'[t] = first[t]
      /\ service'[c] = Null /\ \A d \in Ports \ {c} : service'[d] = service[d]
  BY <1>3, <1>4, UnlinkOne
<1>6. PoolTypes' /\ Pool!MutexHeld' /\ OnceInPool' /\ UNCHANGED <<pool, owner, pc, arg>>
  BY PoolStays DEF Quiet
<1>7. UNCHANGED <<apc, asvc, conn, phase, sem, sstate, head, hpc>>
  BY DEF Quiet, accVars, sesVars
<1>8. /\ cur' \in [Services -> Ports \cup {Null}] /\ called' \in [Services -> Ports \cup {Null}]
      /\ rpc' \in [Services -> ThreadLabels]
      /\ cur'[s] = Null /\ called'[s] = c /\ rpc'[s] = "disconnect"
      /\ \A t \in Services \ {s} : cur'[t] = cur[t] /\ called'[t] = called[t] /\ rpc'[t] = rpc[t]
  BY <1>1, <1>4 DEF SvcTypeOK, ThreadLabels, Callbacks
<1>9. Types'
  <2>1. wake' \in [Services -> BOOLEAN] /\ rebuild' \in [Services -> BOOLEAN]
    BY <1>1, <1>4 DEF SvcTypeOK
  <2>2. SvcTypeOK'
    BY <1>1, <1>4, <1>5, <1>8, <2>1 DEF SvcTypeOK, ThreadLabels, array
  <2>3. TypeOK'
    BY <1>1, <1>6, <2>2 DEF TypeOK, Quiet, accVars, sesVars, netVars
  <2> QED BY <1>1, <1>4, <1>6, <2>3 DEF Types, Quiet, netVars
<1>10. Sessions'
  <2>1. \A d \in Ports : Fresh(d)' => Fresh(d) /\ d # c
    <3>1. ~Fresh(c)
      BY <1>3, KnownOf
    <3> QED BY <1>4, <1>7, <3>1 DEF Fresh
  <2>2. \A d \in Ports : Ready(d)' = Ready(d)
    BY <1>7 DEF Ready
  <2>3. ASSUME NEW d \in Ports, Fresh(d)'
        PROVE  /\ service'[d] = Null /\ phase'[d] = "base"
               /\ \A t \in Services : cur'[t] # d /\ called'[t] # d
    <3>1. /\ service[d] = Null /\ phase[d] = "base" /\ d # c /\ d # Null
          /\ \A t \in Services : cur[t] # d /\ called[t] # d
      BY <1>1, <2>1, <2>3, NullIsNone DEF Sessions
    <3> QED BY <1>5, <1>7, <1>8, <3>1
  <2> QED BY <1>1, <1>7, <2>2, <2>3 DEF Sessions
<1>11. AcceptorInv'
  BY <1>1, <1>4, <1>6, <1>7 DEF AcceptorInv, Attached
<1>12. ASSUME NEW t \in Services PROVE ThreadAt(t)' /\ TokenAt(t)'
  <2>1. CASE t = s
    <3>1. ThreadAt(s)'
      BY <1>1, <1>3, <1>4, <1>5, <1>6, <1>7, <1>8 DEF ThreadAt
    <3>2. TokenAt(s)'
      BY <1>1, <1>3, <1>5, <1>6, <1>7, <1>8 DEF TokenAt, Lent
    <3> QED BY <2>1, <3>1, <3>2
  <2>2. CASE t # s
    <3>1. /\ first'[t] = first[t] /\ cur'[t] = cur[t] /\ called'[t] = called[t] /\ rpc'[t] = rpc[t]
          /\ locked' = locked /\ ThreadAt(t) /\ TokenAt(t)
      BY <1>4, <1>5, <1>8, <2>2, KnownOf
    <3>2. rpc[t] = "disconnect" => called[t] \in Ports /\ service'[called[t]] = Null
      <4>1. rpc[t] = "disconnect" => called[t] \in Ports /\ service[called[t]] = Null
        BY <3>1, KnownOf DEF ThreadAt
      <4> QED BY <1>5, <4>1
    <3>3. ThreadAt(t)'
      BY <1>6, <1>7, <3>1, <3>2 DEF ThreadAt
    <3>4. TokenAt(t)'
      BY <1>6, <1>7, <3>1 DEF TokenAt, Lent
    <3> QED BY <3>3, <3>4
  <2> QED BY <2>1, <2>2
<1> QED BY <1>5, <1>6, <1>9, <1>10, <1>11, <1>12 DEF ServerInv

(* The session is freed: its service has no port then, whether the session was  *)
(* detached before it was called or is detached by its destructor.              *)
LEMMA DestroyStep ==
    ASSUME ServerInv, NEW s \in Services, DestroyBase(s)
    PROVE  ServerInv'
<1>1. /\ Types /\ TypeOK /\ SvcTypeOK /\ AcceptorInv /\ OneList /\ Sessions /\ ThreadAt(s) /\ TokenAt(s)
  BY KnownOf DEF ServerInv, Types, TypeOK
<1>2. hpc[s] = "destroy" /\ hpc' = [hpc EXCEPT ![s] = "idle"] /\ rpc[s] \in {"pending", "disconnect"}
      /\ pc[s] = "idle" /\ arg[s] = Null
  BY <1>1 DEF DestroyBase, HandlerAt, ThreadAt
<1>3. PICK c \in Ports : c = called[s]
  BY <1>1, <1>2, KnownOf DEF ThreadAt
<1>4. /\ Destroy(s, c) /\ RunReturn(s)
      /\ UNCHANGED <<array, timer, poolVars, accVars, sesVars, netVars, wild>>
  BY <1>3 DEF DestroyBase
<1>5. c # Null /\ (rpc[s] = "pending" => c = first[s] /\ service[c] = s /\ cur[s] = c)
      /\ (rpc[s] = "disconnect" => first[s] = Null /\ service[c] = Null /\ cur[s] = Null)
  BY <1>1, <1>3, KnownOf, NullIsNone DEF ThreadAt
<1>6. /\ life' \in [Ports -> {"none", "live", "freed"}] /\ life'[c] = "freed"
      /\ \A d \in Ports \ {c} : life'[d] = life[d]
  BY <1>1, <1>4 DEF Destroy, SvcTypeOK
<1>7. /\ OneList'
      /\ first' \in [Services -> Ports \cup {Null}] /\ last' \in [Services -> Ports \cup {Null}]
      /\ count' \in [Services -> Nat] /\ next' = next /\ prev' = prev
      /\ service' \in [Ports -> Services \cup {Null}]
      /\ first'[s] = Null /\ \A t \in Services \ {s} : first'[t] = first[t]
      /\ service'[c] = Null /\ \A d \in Ports \ {c} : service'[d] = service[d]
      /\ wake' \in [Services -> BOOLEAN]
  <2>1. CASE rpc[s] = "pending"
    <3>1. Unlink(s, c) /\ wake' \in [Services -> BOOLEAN]
      <4>1. service[c] # Null
        BY <1>5, <2>1, NullIsNone
      <4>2. Unlink(s, c) /\ Update(s)
        BY <1>4, <4>1 DEF Destroy
      <4>3. wake \in [Services -> BOOLEAN]
        BY <1>1 DEF SvcTypeOK
      <4> QED BY <4>2, <4>3 DEF Update
    <3> QED BY <1>5, <1>6, <2>1, <3>1, UnlinkOne
  <2>2. CASE rpc[s] = "disconnect"
    <3>1. UNCHANGED <<first, last, count, next, prev, service, wake>>
      BY <1>4, <1>5, <2>2 DEF Destroy, list
    <3>2. \A t \in Services : first[t] # Null => first[t] \in Ports /\ first[t] # c
      BY <1>5, <2>2, KnownOf, NullIsNone
    <3>3. OneList'
      BY <1>1, <1>6, <3>1, <3>2 DEF OneList
    <3> QED BY <1>1, <1>5, <2>2, <3>1, <3>3 DEF SvcTypeOK
  <2> QED BY <1>2, <2>1, <2>2
<1>8. PoolTypes' /\ Pool!MutexHeld' /\ OnceInPool' /\ UNCHANGED <<pool, owner, pc, arg>>
  BY <1>4, PoolStays
<1>9. UNCHANGED <<apc, asvc, conn, phase, sem, sstate, head, locked, cur, rebuild, timed>>
  BY <1>4 DEF accVars, sesVars, RunReturn
<1>10. /\ called' \in [Services -> Ports \cup {Null}] /\ rpc' \in [Services -> ThreadLabels]
       /\ hpc' \in [Services -> {"idle", "read", "process", "delete", "freeing", "destroy"}]
       /\ called'[s] = Null /\ rpc'[s] = (IF rpc[s] = "disconnect" THEN "visit" ELSE "timer")
       /\ hpc'[s] = "idle"
       /\ \A t \in Services \ {s} : called'[t] = called[t] /\ rpc'[t] = rpc[t] /\ hpc'[t] = hpc[t]
  BY <1>1, <1>2, <1>4 DEF SvcTypeOK, TypeOK, ThreadLabels, RunReturn
<1>11. Types'
  <2>1. SvcTypeOK'
    BY <1>1, <1>4, <1>6, <1>7, <1>9, <1>10 DEF SvcTypeOK, ThreadLabels, array
  <2>2. TypeOK'
    BY <1>1, <1>4, <1>8, <1>10, <2>1 DEF TypeOK, accVars, sesVars, netVars
  <2> QED BY <1>1, <1>4, <1>8, <2>2 DEF Types, netVars
<1>12. ~Fresh(c)
  BY <1>1, <1>3 DEF Sessions
<1>13. Sessions'
  <2>1. \A d \in Ports : Fresh(d)' => Fresh(d) /\ d # c
    BY <1>6, <1>9, <1>12 DEF Fresh
  <2>2. \A d \in Ports : Ready(d)' = Ready(d)
    BY <1>9 DEF Ready
  <2>3. ASSUME NEW d \in Ports, Fresh(d)'
        PROVE  /\ service'[d] = Null /\ phase'[d] = "base"
               /\ \A t \in Services : cur'[t] # d /\ called'[t] # d
    <3>1. /\ service[d] = Null /\ phase[d] = "base" /\ d # c /\ d # Null
          /\ \A t \in Services : cur[t] # d /\ called[t] # d
      BY <1>1, <2>1, <2>3, NullIsNone DEF Sessions
    <3> QED BY <1>7, <1>9, <1>10, <3>1
  <2> QED BY <1>1, <1>9, <2>2, <2>3 DEF Sessions
<1>14. AcceptorInv'
  <2>1. apc \in {"attach"} \cup Attached => conn \in Ports /\ life[conn] # "none"
    BY <1>1 DEF AcceptorInv, TypeOK
  <2>2. apc = "attach" => conn # c
    BY <1>12 DEF Fresh
  <2>3. /\ apc \in {"attach"} \cup Attached => life'[conn] # "none"
        /\ apc = "attach" => life'[conn] = "live"
    BY <1>1, <1>6, <2>1, <2>2 DEF AcceptorInv
  <2> QED BY <1>1, <1>8, <1>9, <2>3 DEF AcceptorInv, Attached
<1>15. ASSUME NEW t \in Services PROVE ThreadAt(t)' /\ TokenAt(t)'
  <2>1. CASE t = s
    <3>1. ThreadAt(s)'
      BY <1>1, <1>2, <1>5, <1>7, <1>8, <1>9, <1>10 DEF ThreadAt
    <3>2. TokenAt(s)'
      BY <1>1, <1>2, <1>7, <1>8, <1>9, <1>10, NullIsNone DEF TokenAt, Lent
    <3> QED BY <2>1, <3>1, <3>2
  <2>2. CASE t # s
    <3>1. /\ first'[t] = first[t] /\ called'[t] = called[t] /\ rpc'[t] = rpc[t] /\ hpc'[t] = hpc[t]
          /\ ThreadAt(t) /\ TokenAt(t)
      BY <1>7, <1>10, <2>2, KnownOf
    <3>2. rpc[t] = "disconnect" => called[t] \in Ports /\ service'[called[t]] = Null
      <4>1. rpc[t] = "disconnect" => called[t] \in Ports /\ service[called[t]] = Null
        BY <3>1, KnownOf DEF ThreadAt
      <4> QED BY <1>7, <4>1
    <3>3. ThreadAt(t)'
      BY <1>8, <1>9, <3>1, <3>2 DEF ThreadAt
    <3>4. TokenAt(t)'
      BY <1>8, <1>9, <3>1 DEF TokenAt, Lent
    <3> QED BY <3>3, <3>4
  <2> QED BY <2>1, <2>2
<1> QED BY <1>7, <1>8, <1>11, <1>13, <1>14, <1>15 DEF ServerInv
--------------------------------------------------------------------------------
(* The whole server.                                                            *)

(* A client connects, sends or leaves.                                          *)
LEMMA ClientKeeps ==
    ASSUME ServerInv, NEW c \in Ports, ClientStep(c)
    PROVE  ServerInv'
<1>1. /\ Types /\ TypeOK /\ SvcTypeOK
  BY DEF ServerInv, Types, TypeOK
<1>2. UNCHANGED <<svcVars, poolVars, accVars, sesVars, hpc, wild>>
  BY DEF ClientStep, Connect, Send, Leave
<1>3. PoolTypes' /\ Pool!MutexHeld' /\ OnceInPool' /\ UNCHANGED <<pool, owner, pc, arg>>
  BY <1>2, PoolStays
<1>4. /\ client' \in [Ports -> {"off", "open", "closed", "reset"}]
      /\ todo' \in [Ports -> Seq(Pieces)] /\ inbox' \in [Ports -> Seq(Pieces)]
  <2>1. /\ client \in [Ports -> {"off", "open", "closed", "reset"}]
        /\ todo \in [Ports -> Seq(Pieces)] /\ inbox \in [Ports -> Seq(Pieces)]
    BY <1>1 DEF Types, TypeOK
  <2>2. CASE Connect(c)
    <3>1. PICK x \in Scripts : todo' = [todo EXCEPT ![c] = x]
      BY <2>2 DEF Connect
    <3>2. x \in Seq(Pieces)
      BY ScriptsOfPieces DEF Pieces
    <3> QED BY <2>1, <2>2, <3>1, <3>2 DEF Connect
  <2>3. CASE Send(c)
    <3>1. todo[c] \in Seq(Pieces) /\ inbox[c] \in Seq(Pieces) /\ todo[c] # <<>>
      BY <2>1, <2>3 DEF Send
    <3>2. Tail(todo[c]) \in Seq(Pieces) /\ Append(inbox[c], Head(todo[c])) \in Seq(Pieces)
      BY <3>1
    <3> QED BY <2>1, <2>3, <3>2 DEF Send
  <2>4. CASE \E how \in Hangups : Leave(c, how)
    <3>1. PICK how \in Hangups : Leave(c, how)
      BY <2>4
    <3>2. <<>> \in Seq(Pieces) /\ how \in {"closed", "reset"}
      BY HangupKinds
    <3> QED BY <2>1, <3>1, <3>2 DEF Leave
  <2> QED BY <2>2, <2>3, <2>4 DEF ClientStep
<1>5. Types'
  <2>1. SvcTypeOK'
    BY <1>1, <1>2 DEF SvcTypeOK, svcVars, list, loop, array
  <2>2. TypeOK'
    BY <1>1, <1>2, <1>3, <1>4, <2>1 DEF TypeOK, accVars, sesVars
  <2> QED BY <1>1, <1>2, <1>3, <1>4, <2>2 DEF Types, svcVars
<1>6. OneList' /\ AcceptorInv'
  BY <1>2, <1>3 DEF ServerInv, OneList, AcceptorInv, svcVars, list, accVars, sesVars
<1>7. Sessions'
  BY <1>2 DEF ServerInv, Sessions, Ready, Fresh, svcVars, loop, accVars, sesVars, list
<1>8. ASSUME NEW t \in Services PROVE ThreadAt(t)' /\ TokenAt(t)'
  <2>1. ThreadAt(t)' = ThreadAt(t)
    BY <1>2, <1>3 DEF ThreadAt, svcVars, list, loop, sesVars
  <2>2. TokenAt(t)' = TokenAt(t)
    BY <1>2, <1>3 DEF TokenAt, Lent, svcVars, list, loop, accVars
  <2> QED BY <2>1, <2>2, KnownOf
<1> QED BY <1>3, <1>5, <1>6, <1>7, <1>8 DEF ServerInv

(* No port has a timer, so none is due.                                         *)
LEMMA RunKinds ==
    ASSUME ServerInv, NEW s \in Services, RunStep(s) \/ RunPoll(s, Readable, Reset)
    PROVE  Looping(s) \/ RunHup(s)
<1>1. ThreadAt(s) /\ (cur[s] # Null => cur[s] \in Ports) /\ timer = [c \in Ports |-> "off"]
  BY KnownOf DEF ServerInv, Types
<1>2. ~RunDue(s) /\ ~RunExpired(s)
  BY <1>1 DEF RunDue, RunExpired, ThreadAt
<1> QED BY <1>2 DEF RunStep, Looping

(* The invariant holds when the server starts.                                  *)
LEMMA ServerInit == Init => ServerInv
<1> SUFFICES ASSUME Init PROVE ServerInv
  OBVIOUS
<1>1. Init /\ SvcInit /\ Pool!Init
  BY DEF Init
<1>2. pool \in Seq(Services \cup {Null}) /\ DOMAIN pool = 1 .. Cardinality(Services)
  <2>1. Cardinality(Services) \in Nat
    BY ServicesFinite, FS_CardinalityType
  <2>2. PICK n \in Nat : n = Cardinality(Services)
    BY <2>1
  <2>3. pool \in [1 .. n -> Services \cup {Null}]
    <3>1. Cardinality(Services) = Pool!Cardinality(Services)
      BY DEF Cardinality, Pool!Cardinality
    <3>2. pool \in [1 .. Cardinality(Services) -> Services]
      BY <1>1, <3>1 DEF Pool!Init
    <3> QED BY <2>2, <3>2
  <2>4. pool \in Seq(Services \cup {Null})
    BY <2>3
  <2> QED BY <2>2, <2>3, <2>4
<1>3. PoolTypes
  BY <1>1, <1>2 DEF Pool!Init, PoolTypes, Pool!Labels, Pool!WaitLabels, Pool!Threads
<1>4. SvcTypeOK
  BY <1>1 DEF SvcInit, SvcTypeOK
<1>5. TypeOK
  BY <1>1, <1>2, <1>4 DEF Init, TypeOK
<1>6. Types
  <2>1. Acceptor \in Pool!Threads /\ \A s \in Services : s \in Pool!Threads
    BY DEF Pool!Threads
  <2>2. <<>> \in Seq(Pieces)
    OBVIOUS
  <2> QED BY <1>1, <1>3, <1>5, <2>1, <2>2 DEF Types, Init, SvcInit, Pool!Init, Getting, Running
<1>7. Pool!MutexHeld
  BY <1>1, ThreadsDiffer DEF Pool!Init, Pool!MutexHeld, Pool!Holding, Pool!Threads
<1>8. OneList
  BY <1>1 DEF SvcInit, OneList
<1>9. Sessions
  BY <1>1, NullIsNone DEF Init, SvcInit, Sessions, Ready
<1>10. AcceptorInv
  BY <1>1 DEF Init, Pool!Init, Pool!Threads, AcceptorInv, Attached
<1>11. OnceInPool
  BY <1>1 DEF Pool!Init, Pool!IsInjective, OnceInPool
<1>12. ASSUME NEW s \in Services PROVE ThreadAt(s) /\ TokenAt(s)
  BY <1>1, NullIsNone DEF Init, SvcInit, Pool!Init, Pool!Threads, ThreadAt, TokenAt, Lent, Attached
<1> QED BY <1>6, <1>7, <1>8, <1>9, <1>10, <1>11, <1>12 DEF ServerInv

(* Every step keeps it.                                                         *)
LEMMA ServerStep == ASSUME ServerInv, [Next]_vars PROVE ServerInv'
<1>1. CASE UNCHANGED vars
  <2>1. UNCHANGED <<svcVars, poolVars, accVars, sesVars, hpc, netVars, wild>>
    BY <1>1 DEF vars
  <2>2. Types' /\ Pool!MutexHeld'
    BY <2>1 DEF ServerInv, Types, TypeOK, SvcTypeOK, PoolTypes, Pool!MutexHeld, svcVars, list, loop,
       array, poolVars, accVars, sesVars, netVars
  <2>3. OneList' /\ AcceptorInv' /\ OnceInPool'
    BY <2>1 DEF ServerInv, OneList, AcceptorInv, OnceInPool, svcVars, list, poolVars, accVars, sesVars
  <2>4. Sessions'
    BY <2>1 DEF ServerInv, Sessions, Ready, Fresh, svcVars, loop, accVars, sesVars, list
  <2>5. ASSUME NEW t \in Services PROVE ThreadAt(t)' /\ TokenAt(t)'
    <3>1. ThreadAt(t)' = ThreadAt(t)
      BY <2>1 DEF ThreadAt, svcVars, list, loop, sesVars, poolVars
    <3>2. TokenAt(t)' = TokenAt(t)
      BY <2>1 DEF TokenAt, Lent, svcVars, list, loop, accVars, poolVars
    <3> QED BY <3>1, <3>2, KnownOf
  <2> QED BY <2>2, <2>3, <2>4, <2>5 DEF ServerInv
<1>2. CASE AcceptorStep \/ InGetServiceSpurious
  BY <1>2, AcceptorWaits, InGetServiceStep, AcceptStep, AttachStep, StartOrUpdateStep, ConstructStep
  DEF AcceptorStep
<1>3. ASSUME NEW s \in Services, ServiceStep(s) \/ ReadFreed(s) PROVE ServerInv'
  <2>1. CASE ReadFreed(s)
    BY <2>1, WildStep
  <2>2. CASE SessionStep(s)
    <3>1. \/ Serving(s) \/ UnbuiltCallback(s) \/ FreeService(s) \/ InFreeService(s) \/ DestroyBase(s)
      BY <2>2 DEF SessionStep, Serving
    <3> QED BY <3>1, ServingStep, WildStep, FreeServiceStep, InFreeServiceStep, DestroyStep
  <2>3. CASE (RunStep(s) \/ RunPoll(s, Readable, Reset)) /\ Quiet
    BY <2>3, RunKinds, LoopStep, HupStep
  <2> QED BY <1>3, <2>1, <2>2, <2>3 DEF ServiceStep, Quiet
<1>4. ASSUME NEW c \in Ports, ClientStep(c) PROVE ServerInv'
  BY <1>4, ClientKeeps
<1> QED BY <1>1, <1>2, <1>3, <1>4 DEF Next

(* The lists, the threads and the holders of the services stay as described     *)
(* above, whatever the clients do.                                              *)
THEOREM ServerInvariant == Spec => []ServerInv
<1>1. Init => ServerInv
  BY ServerInit
<1>2. ServerInv /\ [Next]_vars => ServerInv'
  BY ServerStep
<1> QED BY <1>1, <1>2, PTL DEF Spec

(* Types.                                                                       *)
THEOREM ServerTypesCorrect == Spec => []TypeOK
<1>1. ServerInv => TypeOK
  BY DEF ServerInv, Types
<1> QED BY <1>1, ServerInvariant, PTL

(* No service ever has two sessions, although ~HTTPSession gives it back before *)
(* ~SocketPort detaches it.                                                     *)
THEOREM SessionsCorrect == Spec => []OneSessionPerService
<1>1. ServerInv => OneSessionPerService
  <2> SUFFICES ASSUME ServerInv, NEW s \in Services PROVE count[s] <= 1
    BY DEF OneSessionPerService
  <2>1. count[s] \in {0, 1}
    BY DEF ServerInv, OneList
  <2> QED BY <2>1
<1> QED BY <1>1, ServerInvariant, PTL

(* A service in the pool, or on its way into it or out of it, serves no session *)
(* but the one that is being destroyed.                                         *)
THEOREM PoolCorrect == Spec => []PooledIsFree
<1>1. ServerInv => PooledIsFree
  <2> SUFFICES ASSUME ServerInv, NEW s \in Services, s \in Range(pool) \cup Range(arg),
                      NEW c \in Chain(s)
               PROVE  called[s] = c /\ hpc[s] \in {"freeing", "destroy"}
    BY DEF PooledIsFree
  <2>1. ThreadAt(s) /\ TokenAt(s) /\ s # Null
    BY KnownOf, NullIsNone
  <2>2. c = first[s] /\ c # Null
    BY ChainIsFirst DEF ServerInv
  <2>3. hpc[s] \in {"freeing", "destroy"}
    <3>1. CASE s \in Range(pool)
      BY <2>1, <2>2, <3>1 DEF TokenAt, Lent
    <3>2. CASE s \in Range(arg)
      <4>1. PICK t \in Pool!Threads : arg[t] = s
        BY <3>2 DEF ServerInv, Types, PoolTypes, Range
      <4>2. CASE t = Acceptor
        BY <2>1, <2>2, <4>1, <4>2 DEF TokenAt, Lent
      <4>3. CASE t \in Services
        <5>1. ThreadAt(t)
          BY <4>3, KnownOf
        <5>2. t = s /\ pc[t] # "idle"
          BY <2>1, <4>1, <5>1 DEF ThreadAt
        <5> QED BY <5>1, <5>2 DEF ThreadAt
      <4> QED BY <4>1, <4>2, <4>3 DEF Pool!Threads
    <3> QED BY <3>1, <3>2
  <2>4. called[s] = c
    BY <2>1, <2>2, <2>3 DEF ThreadAt
  <2> QED BY <2>3, <2>4
<1> QED BY <1>1, ServerInvariant, PTL

(* No service is lent twice: it is at most once in the pool, and not there      *)
(* while the acceptor has it.                                                   *)
THEOREM LendingCorrect == Spec => []LentOnce
<1>1. ServerInv => LentOnce
  <2> SUFFICES ASSUME ServerInv PROVE LentOnce
    OBVIOUS
  <2>1. asvc # Null => asvc \in Services
    BY DEF ServerInv, Types, TypeOK
  <2>2. asvc # Null => asvc \notin Range(pool)
    BY <2>1, KnownOf DEF TokenAt
  <2> QED BY <2>2 DEF LentOnce, ServerInv, OnceInPool
<1> QED BY <1>1, ServerInvariant, PTL

(* An acceptor that finds the queue empty, and waits with the mutex in its      *)
(* hand, stays there: nobody else can take or leave the mutex.                  *)
THEOREM EmptyPoolStaysWedged == Spec => EmptyPoolWedges
<1>1. ASSUME ServerInv, [Next]_vars, NEW t \in Pool!Threads, pc[t] = "wait.enter"
      PROVE  pc'[t] = "wait.enter" /\ owner' = t /\ pool' = pool
  <2>1. /\ Pool!MutexHeld /\ PoolTypes /\ Types
    BY <1>1 DEF ServerInv, Types
  <2>2. owner = t /\ t # NoThread
    BY <1>1, <2>1, ThreadsDiffer DEF Pool!MutexHeld, Pool!Holding, Pool!Threads
  <2>3. CASE UNCHANGED <<pool, owner, pc>>
    BY <1>1, <2>2, <2>3
  <2>4. ASSUME NEW u \in Pool!Threads, Pool!GetCall(u) \/ \E v : Pool!FreeCall(u, v)
        PROVE  pc'[t] = "wait.enter" /\ owner' = t /\ pool' = pool
    BY <1>1, <2>1, <2>2, <2>4 DEF Pool!GetCall, Pool!FreeCall, Pool!Go, PoolTypes
  <2>5. ASSUME NEW u \in Pool!Threads, Pool!Step(u) \/ Pool!SpuriousWakeup(u)
        PROVE  pc'[t] = "wait.enter" /\ owner' = t /\ pool' = pool
    <3>1. Moved(u) /\ PoolTypes' /\ Pool!MutexHeld'
      BY <2>1, <2>5, PoolMoves
    <3>2. u # t
      <4>1. ~Pool!EnterMutex(t)
        BY <2>2 DEF Pool!EnterMutex
      <4>2. ~Pool!Step(t) /\ ~Pool!SpuriousWakeup(t)
        BY <1>1, <4>1 DEF Pool!Step, Pool!SpuriousWakeup, Pool!LeaveMutex, Pool!TestEmpty, Pool!Pop,
           Pool!Block, Pool!Push, Pool!Signal
      <4> QED BY <2>5, <4>2
    <3>3. pc'[t] = "wait.enter"
      BY <1>1, <3>1, <3>2 DEF Moved
    <3>4. owner' = t
      BY <3>1, <3>3 DEF Pool!MutexHeld, Pool!Holding
    <3>5. pc[u] \notin Pool!Holding
      BY <2>1, <2>2, <3>2 DEF Pool!MutexHeld
    <3>6. pool' = pool
      BY <3>1, <3>5 DEF Moved, Pool!Holding
    <3> QED BY <3>3, <3>4, <3>6
  <2>6. CASE AcceptorStep \/ InGetServiceSpurious
    <3>1. \/ UNCHANGED <<pool, owner, pc>> \/ Pool!GetCall(Acceptor)
          \/ Pool!Step(Acceptor) \/ Pool!SpuriousWakeup(Acceptor)
      BY <2>6 DEF AcceptorStep, GetService, InGetService, InGetServiceSpurious, Accept, AcceptFails,
         AttachSession, StartService, UpdateService, BecomeSession, ConstructMembers, ConstructorBody,
         poolVars
    <3> QED BY <2>3, <2>4, <2>5, <3>1 DEF Pool!Threads
  <2>7. ASSUME NEW s \in Services, ServiceStep(s) \/ ReadFreed(s)
        PROVE  pc'[t] = "wait.enter" /\ owner' = t /\ pool' = pool
    <3>1. \/ UNCHANGED <<pool, owner, pc>> \/ Pool!Step(s) \/ \E v : Pool!FreeCall(s, v)
      <4>1. CASE Serving(s)
        BY <1>1, <4>1, ServingTypes DEF poolVars
      <4>2. CASE ~Serving(s)
        BY <2>7, <4>2 DEF ServiceStep, SessionStep, Serving, ReadFreed, UnbuiltCallback, FreeService,
           InFreeService, DestroyBase, poolVars
      <4> QED BY <4>1, <4>2
    <3> QED BY <2>3, <2>4, <2>5, <3>1 DEF Pool!Threads
  <2>8. ASSUME NEW c \in Ports, ClientStep(c) PROVE UNCHANGED <<pool, owner, pc>>
    BY <2>8 DEF ClientStep, Connect, Send, Leave, poolVars
  <2>9. CASE UNCHANGED vars
    BY <2>3, <2>9 DEF vars, poolVars
  <2> QED BY <1>1, <2>3, <2>6, <2>7, <2>8, <2>9 DEF Next
<1>2. ServerInv /\ [Next]_vars =>
        [\A t \in Pool!Threads : pc[t] = "wait.enter" =>
           pc'[t] = "wait.enter" /\ owner' = t /\ pool' = pool]_(Pool!vars)
  BY <1>1
<1> QED BY <1>2, ServerInvariant, PTL DEF Spec, EmptyPoolWedges, Pool!EmptyPoolWedges
--------------------------------------------------------------------------------
(* If no client resets its connection.                                          *)

(* A step that moves no service from one holder to another.                     *)
LEMMA KeptFrame ==
    ASSUME KeptInv, UNCHANGED <<first, pool, arg, asvc, hup>>,
           \A c \in Ports : client'[c] # "reset",
           \A s \in Services : rpc'[s] # "disconnect",
           \A s \in Services : Lent(s) => hpc'[s] \notin {"freeing", "destroy"},
           apc' \in Attached /\ asvc # Null => first[asvc] = conn'
    PROVE  KeptInv'
<1>1. \A s \in Services : Kept(s)'
  <2> TAKE s \in Services
  <2>1. Kept(s)
    BY DEF KeptInv
  <2>2. Lent(s) => Lent(s)'
    BY DEF Lent
  <2> QED BY <2>1, <2>2 DEF Kept
<1> QED BY <1>1 DEF KeptInv

(* The service threads, between one holder and the next.                        *)
LEMMA KeptService ==
    ASSUME "reset" \notin Hangups, ServerInv, ServerInv', KeptInv, NEW s \in Services,
           ServiceStep(s) \/ ReadFreed(s)
    PROVE  KeptInv'
<1>1. /\ Types /\ TypeOK /\ SvcTypeOK /\ ThreadAt(s) /\ TokenAt(s) /\ PoolTypes /\ Pool!MutexHeld
  BY KnownOf DEF ServerInv, Types, TypeOK
<1>2. s \in Pool!Threads /\ Acceptor \in Pool!Threads /\ s # Acceptor
      /\ \A t \in Services : t \in Pool!Threads
  BY ThreadsDiffer DEF Pool!Threads
<1>3. /\ \A c \in Ports : client[c] # "reset"
      /\ \A t \in Services : hup[t] = {} /\ rpc[t] # "disconnect" /\ Kept(t)
      /\ apc \in Attached /\ asvc # Null => first[asvc] = conn
  BY DEF KeptInv
<1>4. CASE UNCHANGED <<svcVars, poolVars, accVars, hpc, client>>
  BY <1>3, <1>4, KeptFrame DEF svcVars, list, loop, array, poolVars, accVars, Lent
<1>5. CASE (RunStep(s) \/ RunPoll(s, Readable, Reset)) /\ Quiet
  <2>1. ~RunHup(s)
    <3>1. ASSUME cur[s] # Null PROVE ~HasHup(s)
      <4>1. cur[s] \in Ports /\ (ufd[cur[s]] # Null => ufd[cur[s]] \in Services)
        BY <1>1, <3>1 DEF SvcTypeOK
      <4> QED BY <1>3, <4>1 DEF HasHup
    <3> QED BY <3>1 DEF RunHup
  <2>2. Looping(s)
    BY <1>5, <2>1, RunKinds
  <2>3. UNCHANGED <<first, pool, arg, asvc, apc, conn, hpc, client>>
    BY <1>5, <2>2, LoopTypes DEF list, Quiet, poolVars, accVars, netVars
  <2>4. hup' = hup
    <3>1. CASE RunPoll(s, Readable, Reset)
      <4>1. hup' = [hup EXCEPT ![s] = {}]
        BY <1>3, <3>1 DEF RunPoll, Reset
      <4> QED BY <1>1, <1>3, <4>1 DEF SvcTypeOK
    <3>2. CASE ~RunPoll(s, Readable, Reset)
      BY <2>2, <3>2 DEF Looping, RunInit, RunDrain, RunLock, RunIn, RunQuiet, RunNext, RunRebuild, array
    <3> QED BY <3>1, <3>2
  <2>5. \A t \in Services : rpc'[t] # "disconnect"
    BY <1>1, <1>3, <2>2 DEF SvcTypeOK, Looping, RunInit, RunDrain, RunLock, RunIn, RunQuiet, RunNext,
       RunRebuild, RunPoll
  <2> QED BY <1>3, <2>3, <2>4, <2>5, KeptFrame DEF Lent
<1>6. CASE Serving(s)
  <2>1. UNCHANGED <<first, pool, arg, asvc, apc, conn, hup, client>>
    BY <1>6, ServingTypes DEF list, array, poolVars, accVars
  <2>2. hpc' = hpc \/ \E l \in {"idle", "read", "process", "delete"} : hpc' = [hpc EXCEPT ![s] = l]
    BY <1>6 DEF Serving, BaseCallback, Pending, ReadNothing, ReadHeadLine, ParseOk, ParseThrows,
       Process, Disconnect, HandlerAt
  <2>3. UNCHANGED <<rpc, called>> \/ RunReturn(s)
    BY <1>6 DEF Serving, BaseCallback, Pending, ReadNothing, ReadHeadLine, ParseOk, ParseThrows, Process,
       Disconnect, svcVars, loop
  <2>4. \A t \in Services : rpc'[t] # "disconnect"
    BY <1>1, <1>3, <2>3 DEF SvcTypeOK, RunReturn
  <2>5. \A t \in Services : Lent(t) => hpc'[t] \notin {"freeing", "destroy"}
    BY <1>1, <2>2 DEF TypeOK, Lent
  <2> QED BY <1>3, <2>1, <2>4, <2>5, KeptFrame
<1>7. CASE FreeService(s)
  <2>1. PICK c \in Ports : c = called[s]
    BY <1>1, <1>7, KnownOf DEF ThreadAt, FreeService, HandlerAt
  <2>2. service[c] = s
    BY <1>1, <1>3, <1>7, <2>1, KnownOf DEF ThreadAt, FreeService, HandlerAt
  <2>3. /\ UNCHANGED <<first, pool, asvc, apc, conn, hup, client, rpc>>
        /\ hpc' = [hpc EXCEPT ![s] = "freeing"] /\ arg' = [arg EXCEPT ![s] = s]
    BY <1>7, <2>1, <2>2 DEF FreeService, HandlerAt, Pool!FreeCall, svcVars, list, loop, array, accVars, netVars
  <2>4. ASSUME NEW t \in Services PROVE Kept(t)'
    <3>1. CASE t = s
      <4>1. arg'[s] = s
        BY <1>1, <1>2, <2>3 DEF PoolTypes
      <4> QED BY <3>1, <4>1 DEF Kept
    <3>2. CASE t # s
      BY <1>1, <1>2, <1>3, <2>3, <3>2 DEF Kept, Lent, PoolTypes, TypeOK
    <3> QED BY <3>1, <3>2
  <2> QED BY <1>3, <2>3, <2>4 DEF KeptInv
<1>8. CASE InFreeService(s)
  <2>1. Moved(s)
    BY <1>1, <1>2, <1>8, PoolMoves DEF InFreeService
  <2>2. hpc[s] = "freeing" /\ pc[s] \in Pool!FreeLabels
    BY <1>1, <1>8, <2>1 DEF InFreeService, Types, Running, Moved
  <2>3. /\ UNCHANGED <<first, asvc, apc, conn, hup, client, rpc>>
        /\ \A t \in Services \ {s} : hpc'[t] = hpc[t] /\ arg'[t] = arg[t]
        /\ arg'[Acceptor] = arg[Acceptor]
    BY <1>1, <1>2, <1>8, <2>1 DEF InFreeService, Moved, TypeOK, svcVars, list, loop, array, accVars, netVars
  <2>4. /\ pool' = pool /\ arg'[s] = arg[s]
        \/ pool' = Append(pool, arg[s])
    BY <2>1, <2>2 DEF Moved, Pool!FreeLabels
  <2>5. /\ \A t \in Services : t \in Range(pool) => t \in Range(pool')
        /\ arg[s] = s => arg'[s] = s \/ s \in Range(pool')
    <3>1. CASE pool' = pool /\ arg'[s] = arg[s]
      BY <3>1
    <3>2. CASE pool' = Append(pool, arg[s])
      <4> DEFINE S == Services \cup {Null}
      <4>1. pool \in Seq(S) /\ arg[s] \in S
        BY <1>1, <1>2 DEF PoolTypes
      <4> HIDE DEF S
      <4>2. \A x : x \in Range(Append(pool, arg[s])) <=> x \in Range(pool) \/ x = arg[s]
        BY <4>1, QueueRange
      <4> QED BY <3>2, <4>2
    <3> QED BY <2>4, <3>1, <3>2
  <2>6. ASSUME NEW t \in Services PROVE Kept(t)'
    <3>1. Kept(t)
      BY <1>3
    <3>2. CASE t = s
      BY <1>3, <2>2, <2>3, <2>5, <3>1, <3>2 DEF Kept, Lent
    <3>3. CASE t # s
      BY <2>3, <2>5, <3>1, <3>3 DEF Kept, Lent
    <3> QED BY <3>2, <3>3
  <2> QED BY <1>3, <2>3, <2>6 DEF KeptInv
<1>9. CASE DestroyBase(s)
  <2>1. hpc[s] = "destroy" /\ hpc' = [hpc EXCEPT ![s] = "idle"]
        /\ UNCHANGED <<pool, arg, asvc, apc, conn, hup, client>> /\ RunReturn(s)
    BY <1>9 DEF DestroyBase, HandlerAt, array, poolVars, accVars, netVars
  <2>2. PICK c \in Ports : c = called[s]
    BY <1>1, <2>1, KnownOf DEF ThreadAt
  <2>3. c = first[s] /\ c # Null /\ service[c] = s
    BY <1>1, <1>3, <2>1, <2>2, KnownOf, NullIsNone DEF ThreadAt
  <2>4. \A t \in Services \ {s} : first'[t] = first[t] /\ hpc'[t] = hpc[t]
    <3>1. Unlink(s, c)
      BY <1>9, <2>2, <2>3, NullIsNone DEF DestroyBase, Destroy
    <3>2. \E x : first' = first \/ first' = [first EXCEPT ![s] = x]
      BY <3>1 DEF Unlink
    <3> QED BY <1>1, <2>1, <3>2 DEF SvcTypeOK, TypeOK
  <2>5. \A t \in Services : rpc'[t] # "disconnect"
    BY <1>1, <1>3, <2>1 DEF RunReturn, SvcTypeOK
  <2>6. apc \in Attached => asvc # s
    BY <1>1, <2>1 DEF TokenAt
  <2>7. ASSUME NEW t \in Services PROVE Kept(t)'
    <3>1. Kept(t)
      BY <1>3
    <3>2. CASE t = s
      BY <2>1, <3>1, <3>2 DEF Kept, Lent
    <3>3. CASE t # s
      BY <2>1, <2>4, <3>1, <3>3 DEF Kept, Lent
    <3> QED BY <3>2, <3>3
  <2>8. asvc # Null => asvc \in Services
    BY <1>1 DEF TypeOK
  <2>9. apc' \in Attached /\ asvc' # Null => first'[asvc'] = conn'
    BY <1>3, <2>1, <2>4, <2>6, <2>8
  <2> QED BY <1>3, <2>1, <2>5, <2>7, <2>9 DEF KeptInv
<1>10. \/ Serving(s) \/ UnbuiltCallback(s) \/ ReadFreed(s) \/ FreeService(s) \/ InFreeService(s)
       \/ DestroyBase(s) \/ ((RunStep(s) \/ RunPoll(s, Readable, Reset)) /\ Quiet)
  BY DEF ServiceStep, SessionStep, Serving, Quiet
<1>11. UnbuiltCallback(s) \/ ReadFreed(s) => UNCHANGED <<svcVars, poolVars, accVars, hpc, client>>
  BY DEF UnbuiltCallback, ReadFreed, netVars
<1> QED BY <1>4, <1>5, <1>6, <1>7, <1>8, <1>9, <1>10, <1>11

\* Popping takes the head of the queue and leaves everybody else in it.
LEMMA TailKeeps ==
  ASSUME NEW S, NEW q \in Seq(S), q # <<>>, NEW t \in Range(q)
  PROVE  t \in Range(Tail(q)) \/ t = Head(q)
<1>1. PICK i \in DOMAIN q : q[i] = t
  BY DEF Range
<1>2. Len(q) \in Nat /\ DOMAIN q = 1 .. Len(q) /\ Tail(q) \in Seq(S) /\ Head(q) = q[1]
  OBVIOUS
<1>3. CASE i = 1
  BY <1>1, <1>2, <1>3
<1>4. CASE i # 1
  <2>1. i - 1 \in 1 .. Len(q) - 1 /\ Len(Tail(q)) = Len(q) - 1
    BY <1>1, <1>2, <1>4
  <2>2. DOMAIN Tail(q) = 1 .. Len(q) - 1
    BY <1>2, <2>1
  <2>3. Tail(q)[i - 1] = q[(i - 1) + 1] /\ (i - 1) + 1 = i
    BY <1>1, <1>2, <2>1
  <2> QED BY <1>1, <2>1, <2>2, <2>3 DEF Range
<1> QED BY <1>3, <1>4

(* The acceptor takes a service, and hands it to the session it attaches.       *)
LEMMA KeptAcceptor ==
    ASSUME ServerInv, ServerInv', KeptInv, AcceptorStep \/ InGetServiceSpurious
    PROVE  KeptInv'
<1>1. /\ Types /\ TypeOK /\ SvcTypeOK /\ PoolTypes /\ Pool!MutexHeld /\ AcceptorInv
  BY DEF ServerInv, Types, TypeOK
<1>2. Acceptor \in Pool!Threads /\ \A t \in Services : t \in Pool!Threads /\ t # Acceptor
  BY ThreadsDiffer DEF Pool!Threads
<1>3. /\ \A c \in Ports : client[c] # "reset"
      /\ \A t \in Services : hup[t] = {} /\ rpc[t] # "disconnect" /\ Kept(t)
      /\ apc \in Attached /\ asvc # Null => first[asvc] = conn
  BY DEF KeptInv
<1>4. CASE GetService \/ AcceptFails
  <2>1. UNCHANGED <<first, pool, arg, asvc, conn, hup, client, rpc, hpc>> /\ apc' \notin Attached
    BY <1>4 DEF GetService, AcceptFails, AcceptorAt, Pool!GetCall, poolVars, svcVars, list, loop, array,
       netVars, Attached
  <2> QED BY <1>3, <2>1, KeptFrame DEF Lent
<1>5. CASE InGetService \/ InGetServiceSpurious
  <2>1. Moved(Acceptor)
    BY <1>1, <1>2, <1>5, PoolMoves DEF InGetService, InGetServiceSpurious
  <2>2. apc = "get" /\ asvc = Null
        /\ UNCHANGED <<first, conn, hup, client, rpc, hpc>> /\ apc' \notin Attached
    BY <1>1, <1>5 DEF InGetService, InGetServiceSpurious, AcceptorInv, accVars, svcVars, list, loop, array,
       netVars, Attached
  <2>3. \A t \in Services : arg'[t] = arg[t]
    BY <1>2, <2>1 DEF Moved
  <2>4. asvc' = IF pc[Acceptor] = "get.leave" THEN arg[Acceptor] ELSE asvc
    BY <1>1, <1>2, <1>5 DEF InGetService, InGetServiceSpurious, accVars, Pool!SpuriousWakeup
  <2>5. pc[Acceptor] # "free.push"
    BY <1>1 DEF Types, Getting, Pool!GetLabels, Pool!WaitLabels
  <2>6. ASSUME NEW t \in Services PROVE Kept(t)'
    <3>1. Kept(t) /\ t # Null
      BY <1>3, NullIsNone
    <3>2. t \in Range(pool) => t \in Range(pool') \/ t = arg'[Acceptor]
      <4>1. CASE pool' = pool
        BY <4>1
      <4>2. CASE pool # <<>> /\ pool' = Tail(pool) /\ arg'[Acceptor] = Head(pool)
        BY <1>1, <4>2, TailKeeps DEF PoolTypes
      <4> QED BY <2>1, <2>5, <4>1, <4>2 DEF Moved
    <3>3. arg[Acceptor] = t => arg'[Acceptor] = t \/ asvc' = t
      <4>1. arg[Acceptor] = t => pc[Acceptor] = "get.leave"
        BY <1>1, <3>1 DEF AcceptorInv
      <4> QED BY <2>4, <4>1
    <3> QED BY <2>2, <2>3, <3>1, <3>2, <3>3 DEF Kept, Lent
  <2> QED BY <1>3, <2>2, <2>6 DEF KeptInv
<1>6. CASE \E c \in Ports : Accept(c)
  <2>1. PICK c \in Ports : Accept(c)
    BY <1>6
  <2>2. UNCHANGED <<first, pool, arg, asvc, hup, client, rpc, hpc>>
        /\ (apc' \in Attached => asvc = Null)
    BY <2>1 DEF Accept, AcceptorAt, poolVars, list, loop, array, netVars, Attached
  <2> QED BY <1>3, <2>2, KeptFrame DEF Lent
<1>7. CASE AttachSession
  <2>1. PICK s \in Services : s = asvc
    BY <1>1, <1>7 DEF TypeOK, AcceptorInv, AttachSession, AcceptorAt
  <2>2. UNCHANGED <<pool, arg, asvc, conn, hup, client, rpc, hpc>> /\ Link(s, conn) /\ ~locked[s]
        /\ apc = "attach"
    BY <1>7, <2>1 DEF AttachSession, AcceptorAt, poolVars, loop, netVars
  <2>3. ThreadAt(s) /\ TokenAt(s) /\ ThreadAt(s)
    BY KnownOf
  <2>4. first[s] = Null
    BY <2>1, <2>2, <2>3 DEF ThreadAt, TokenAt, Lent, Attached
  <2>5. first' = [first EXCEPT ![s] = conn]
    BY <2>2, <2>4 DEF Link
  <2>6. first'[s] = conn /\ \A t \in Services \ {s} : first'[t] = first[t]
    BY <1>1, <2>5 DEF SvcTypeOK
  <2>7. ASSUME NEW t \in Services PROVE Kept(t)'
    <3>1. Kept(t)
      BY <1>3
    <3> QED BY <2>1, <2>2, <2>6, <3>1 DEF Kept, Lent
  <2> QED BY <1>3, <2>1, <2>2, <2>6, <2>7 DEF KeptInv
<1>8. CASE StartService \/ UpdateService
  <2>1. UNCHANGED <<first, pool, arg, asvc, conn, hup, client, hpc>> /\ apc \in Attached
    BY <1>8 DEF StartService, UpdateService, AcceptorAt, poolVars, list, array, netVars, Attached
  <2>2. rpc' = rpc \/ rpc' = [rpc EXCEPT ![asvc] = "init"]
    BY <1>8 DEF StartService, UpdateService, StartThread, loop
  <2>3. \A t \in Services : rpc'[t] # "disconnect"
    BY <1>1, <1>3, <2>2 DEF SvcTypeOK
  <2> QED BY <1>3, <2>1, <2>3, KeptFrame DEF Lent
<1>9. CASE BecomeSession \/ ConstructMembers
  <2>1. UNCHANGED <<first, pool, arg, asvc, conn, hup, client, rpc, hpc>> /\ apc \in Attached
    BY <1>9 DEF BecomeSession, ConstructMembers, AcceptorAt, poolVars, svcVars, list, loop, array, netVars,
       Attached
  <2> QED BY <1>3, <2>1, KeptFrame DEF Lent
<1>10. CASE ConstructorBody
  <2>1. UNCHANGED <<first, pool, arg, hup, client, rpc, hpc>> /\ apc = "body" /\ apc' = "run"
    BY <1>10 DEF ConstructorBody, AcceptorAt, poolVars, svcVars, list, loop, array, netVars
  <2>2. conn # Null /\ (asvc # Null => first[asvc] = conn)
    BY <1>1, <1>3, <2>1 DEF AcceptorInv, Attached
  <2>3. ASSUME NEW t \in Services PROVE Kept(t)'
    <3>1. Kept(t) /\ TokenAt(t) /\ t # Null
      BY <1>3, KnownOf, NullIsNone
    <3>2. asvc = t => Lent(t)
      BY <2>1, <2>2, <3>1 DEF TokenAt, Lent, Attached
    <3> QED BY <2>1, <3>1, <3>2 DEF Kept, Lent
  <2> QED BY <1>3, <2>1, <2>3 DEF KeptInv, Attached
<1> QED BY <1>4, <1>5, <1>6, <1>7, <1>8, <1>9, <1>10 DEF AcceptorStep

(* Every step of the server keeps KeptInv.                                      *)
LEMMA KeptStep ==
    ASSUME "reset" \notin Hangups
    PROVE  ServerInv /\ ServerInv' /\ KeptInv /\ [Next]_vars => KeptInv'
<1> SUFFICES ASSUME ServerInv, ServerInv', KeptInv, [Next]_vars PROVE KeptInv'
  OBVIOUS
<1>1. CASE UNCHANGED vars
  <2>1. UNCHANGED <<first, pool, arg, asvc, apc, conn, hup, client, rpc, hpc>>
    BY <1>1 DEF vars, svcVars, list, loop, array, poolVars, accVars, netVars
  <2> QED BY <2>1, KeptFrame DEF KeptInv, Lent
<1>2. ASSUME NEW c \in Ports, ClientStep(c) PROVE KeptInv'
  <2>1. UNCHANGED <<first, pool, arg, asvc, apc, conn, hup, rpc, hpc>>
    BY <1>2 DEF ClientStep, Connect, Send, Leave, svcVars, list, loop, array, poolVars, accVars
  <2>2. client' = client \/ \E x : client' = [client EXCEPT ![c] = x] /\ x # "reset"
    BY <1>2 DEF ClientStep, Connect, Send, Leave
  <2>3. \A d \in Ports : client'[d] # "reset"
    BY <2>2 DEF KeptInv, ServerInv, Types, TypeOK
  <2> QED BY <2>1, <2>3, KeptFrame DEF KeptInv, Lent
<1> QED BY <1>1, <1>2, KeptAcceptor, KeptService DEF Next

(* A service is always with somebody: unless a client resets its connection,    *)
(* the destructor of every session finds the service to give back.              *)
THEOREM ServicesKept ==
    ASSUME "reset" \notin Hangups
    PROVE  Spec => []ServicesConserved
<1>1. Init => KeptInv
  <2> SUFFICES ASSUME Init PROVE KeptInv
    OBVIOUS
  <2>1. Pool!Range(pool) = Range(pool)
    BY DEF Range, Pool!Range
  <2> QED BY <2>1 DEF Init, SvcInit, Pool!Init, KeptInv, Kept, Attached
<1>2. ServerInv /\ ServerInv' /\ KeptInv /\ [Next]_vars => KeptInv'
  BY KeptStep
<1>3. ServerInv /\ KeptInv => ServicesConserved
  <2> SUFFICES ASSUME ServerInv, KeptInv, NEW s \in Services
               PROVE  \/ s \in Range(pool) \cup Range(arg) \cup {asvc}
                      \/ \E c \in Ports : life[c] = "live" /\ service[c] = s
    BY DEF ServicesConserved
  <2>1. Kept(s)
    BY DEF KeptInv
  <2>2. arg[Acceptor] \in Range(arg) /\ arg[s] \in Range(arg)
    BY DEF ServerInv, Types, PoolTypes, Range, Pool!Threads
  <2>3. Lent(s) => \E c \in Ports : life[c] = "live" /\ service[c] = s
    BY KnownOf DEF Lent
  <2> QED BY <2>1, <2>2, <2>3 DEF Kept
<1> QED BY <1>1, <1>2, <1>3, ServerInvariant, PTL DEF Spec
--------------------------------------------------------------------------------
(* If no client resets its connection the server uses its pool as the pool      *)
(* wants to be used, and every session has a service.                           *)

(* The service is with a session, or with the acceptor that has not attached   *)
(* a session to it yet.                                                         *)
InHand(s) == Lent(s) \/ (asvc = s /\ apc \notin Attached)

(* What is given back was lent, and it is no NULL: neither is what is lent     *)
(* next, and so the next session is attached.                                   *)
HandedInv ==
    /\ \A s \in Services : InHand(s) => s \in out
    /\ Null \notin Range(pool)
    /\ \A s \in Services : pc[s] \in {"free.enter", "free.push"} => arg[s] # Null
    /\ pc[Acceptor] = "get.leave" => arg[Acceptor] # Null
    /\ apc \in {"accept", "attach"} => asvc # Null
    /\ \A c \in Ports : life[c] = "live" => service[c] # Null \/ (apc = "attach" /\ conn = c)

(* A step that changes neither the pool nor who has a service.                  *)
LEMMA HandedFrame ==
    ASSUME HandedInv, UNCHANGED <<first, pool, pc, arg, out, asvc, conn, apc, life, service>>,
           \A s \in Services : hpc'[s] \in {"freeing", "destroy"} \/ hpc[s] \notin {"freeing", "destroy"}
    PROVE  HandedInv'
<1>1. \A s \in Services : InHand(s)' => InHand(s)
  BY DEF InHand, Lent
<1>2. \A s \in Services : InHand(s)' => s \in out
  BY <1>1 DEF HandedInv
<1> QED BY <1>2 DEF HandedInv

(* The service threads hand back what was lent.                                 *)
LEMMA HandedService ==
    ASSUME ServerInv, KeptInv, HandedInv, NEW s \in Services, ServiceStep(s) \/ ReadFreed(s)
    PROVE  HandedInv' /\ [Pool!Next]_(Pool!vars)
<1>1. /\ Types /\ TypeOK /\ SvcTypeOK /\ ThreadAt(s) /\ TokenAt(s) /\ PoolTypes /\ Pool!MutexHeld
  BY KnownOf DEF ServerInv, Types, TypeOK
<1>2. s \in Pool!Threads /\ Acceptor \in Pool!Threads /\ s # Acceptor /\ s # Null
      /\ \A t \in Services : t \in Pool!Threads
  BY ThreadsDiffer, NullIsNone DEF Pool!Threads
<1>3. /\ \A t \in Services : InHand(t) => t \in out
      /\ Null \notin Range(pool)
      /\ \A t \in Services : pc[t] \in {"free.enter", "free.push"} => arg[t] # Null
      /\ pc[Acceptor] = "get.leave" => arg[Acceptor] # Null
      /\ apc \in {"accept", "attach"} => asvc # Null
      /\ \A c \in Ports : life[c] = "live" => service[c] # Null \/ (apc = "attach" /\ conn = c)
  BY DEF HandedInv
<1>4. rpc[s] # "disconnect" /\ hup[s] = {}
  BY DEF KeptInv
<1>5. CASE UNCHANGED <<first, poolVars, accVars, life, service, hpc>>
  <2>1. UNCHANGED <<first, pool, pc, arg, out, asvc, conn, apc, life, service, hpc>>
    BY <1>5 DEF poolVars, accVars
  <2>2. UNCHANGED Pool!vars
    BY <1>5 DEF poolVars, Pool!vars
  <2> QED BY <2>1, <2>2, HandedFrame
<1>6. CASE (RunStep(s) \/ RunPoll(s, Readable, Reset)) /\ Quiet
  <2>1. ~RunHup(s)
    <3>1. ASSUME cur[s] # Null PROVE ~HasHup(s)
      <4>1. cur[s] \in Ports /\ (ufd[cur[s]] # Null => ufd[cur[s]] \in Services)
        BY <1>1, <3>1 DEF SvcTypeOK
      <4> QED BY <4>1 DEF HasHup, KeptInv
    <3> QED BY <3>1 DEF RunHup
  <2>2. Looping(s)
    BY <1>6, <2>1, RunKinds
  <2>3. UNCHANGED <<first, service, life>>
    BY <1>6, <2>2, LoopTypes DEF list
  <2> QED BY <1>5, <1>6, <2>3 DEF Quiet
<1>7. CASE Serving(s)
  <2>1. UNCHANGED <<first, service, life, poolVars, accVars>>
    BY <1>7, ServingTypes DEF list
  <2>2. hpc' = hpc \/ \E l \in {"idle", "read", "process", "delete"} : hpc' = [hpc EXCEPT ![s] = l]
    BY <1>7 DEF Serving, BaseCallback, Pending, ReadNothing, ReadHeadLine, ParseOk, ParseThrows,
       Process, Disconnect, HandlerAt
  <2>3. hpc[s] \notin {"freeing", "destroy"}
    BY <1>7 DEF Serving, BaseCallback, Pending, ReadNothing, ReadHeadLine, ParseOk, ParseThrows,
       Process, Disconnect, HandlerAt
  <2>4. \A t \in Services \ {s} : hpc'[t] = hpc[t]
    BY <1>1, <2>2 DEF TypeOK
  <2>5. UNCHANGED <<first, pool, pc, arg, out, asvc, conn, apc, life, service>>
    BY <2>1 DEF poolVars, accVars
  <2>6. UNCHANGED Pool!vars
    BY <2>1 DEF poolVars, Pool!vars
  <2> QED BY <2>3, <2>4, <2>5, <2>6, HandedFrame
<1>8. CASE FreeService(s)
  <2>1. hpc[s] = "delete" /\ hpc' = [hpc EXCEPT ![s] = "freeing"] /\ Pool!FreeCall(s, service[called[s]])
        /\ UNCHANGED <<svcVars, accVars>>
    BY <1>8 DEF FreeService, HandlerAt
  <2>2. rpc[s] = "pending" /\ called[s] = first[s] /\ first[s] # Null
    BY <1>1, <1>4, <2>1 DEF ThreadAt
  <2>3. service[called[s]] = s /\ s \in out
    BY <1>3, <2>1, <2>2, KnownOf DEF InHand, Lent
  <2>4. pc' = [pc EXCEPT ![s] = "free.enter"] /\ arg' = [arg EXCEPT ![s] = s] /\ out' = out \ {s}
        /\ pool' = pool /\ UNCHANGED <<first, life, service, apc, asvc, conn>>
    BY <2>1, <2>3 DEF Pool!FreeCall, Pool!Go, svcVars, list, accVars
  <2>5. Pool!Next
    BY <2>1, <2>3 DEF Pool!Next
  <2>6. ASSUME NEW t \in Services, InHand(t)' PROVE t \in out'
    <3>1. CASE t = s
      <4>1. hpc'[s] = "freeing"
        BY <1>1, <2>1 DEF TypeOK
      <4>2. asvc = s /\ apc \notin Attached
        BY <2>4, <2>6, <3>1, <4>1 DEF InHand, Lent
      <4>3. Lent(s)
        BY <2>1, <2>2 DEF Lent
      <4> QED BY <1>1, <4>2, <4>3 DEF TokenAt
    <3>2. CASE t # s
      <4>1. hpc'[t] = hpc[t]
        BY <1>1, <2>1, <3>2 DEF TypeOK
      <4>2. InHand(t)
        BY <2>4, <2>6, <4>1 DEF InHand, Lent
      <4> QED BY <1>3, <2>4, <3>2, <4>2
    <3> QED BY <3>1, <3>2
  <2>7. \A t \in Services : pc'[t] \in {"free.enter", "free.push"} => arg'[t] # Null
    BY <1>1, <1>2, <1>3, <2>4 DEF PoolTypes
  <2>8. pc'[Acceptor] = pc[Acceptor] /\ arg'[Acceptor] = arg[Acceptor]
    BY <1>1, <1>2, <2>4 DEF PoolTypes
  <2> QED BY <1>3, <2>4, <2>5, <2>6, <2>7, <2>8 DEF HandedInv
<1>9. CASE InFreeService(s)
  <2>1. Moved(s)
    BY <1>1, <1>2, <1>9, PoolMoves DEF InFreeService
  <2>2. hpc[s] = "freeing" /\ pc[s] \in Pool!FreeLabels
    BY <1>1, <1>9, <2>1 DEF InFreeService, Types, Running, Moved
  <2>3. Pool!Step(s) /\ UNCHANGED <<svcVars, accVars>>
        /\ (hpc' = hpc \/ hpc' = [hpc EXCEPT ![s] = "destroy"])
    BY <1>9 DEF InFreeService
  <2>4. Pool!Next
    BY <1>2, <2>3 DEF Pool!Next
  <2>5. UNCHANGED <<first, life, service, apc, asvc, conn>>
    BY <2>3 DEF svcVars, list, accVars
  <2>6. out' = out
    BY <2>2, <2>3 DEF Pool!Step, Pool!EnterMutex, Pool!LeaveMutex, Pool!TestEmpty, Pool!Pop, Pool!Block,
       Pool!Push, Pool!Signal, Pool!FreeLabels
  <2>7. \A t \in Services : hpc'[t] \in {"freeing", "destroy"} \/ hpc[t] \notin {"freeing", "destroy"}
    BY <1>1, <2>3 DEF TypeOK
  <2>8. \A t \in Services : InHand(t)' => InHand(t)
    BY <2>5, <2>7 DEF InHand, Lent
  <2>9. \/ /\ pool' = pool /\ arg'[s] = arg[s] /\ pc[s] # "free.push"
           /\ pc[s] = "free.enter" => pc'[s] = "free.push"
        \/ pc[s] = "free.push" /\ pool' = Append(pool, arg[s])
    <3>1. pc[s] # "get.test" /\ pc[s] # "get.leave"
      BY <2>2 DEF Pool!FreeLabels
    <3> QED BY <2>1, <3>1 DEF Moved
  <2>10. Null \notin Range(pool')
    <3>1. CASE pool' = pool
      BY <1>3, <3>1
    <3>2. CASE pc[s] = "free.push" /\ pool' = Append(pool, arg[s])
      <4> DEFINE S == Services \cup {Null}
      <4>1. pool \in Seq(S) /\ arg[s] \in S /\ arg[s] # Null
        BY <1>1, <1>2, <1>3, <3>2 DEF PoolTypes
      <4> HIDE DEF S
      <4>2. \A x : x \in Range(Append(pool, arg[s])) <=> x \in Range(pool) \/ x = arg[s]
        BY <4>1, QueueRange
      <4> QED BY <1>3, <3>2, <4>1, <4>2
    <3> QED BY <2>9, <3>1, <3>2
  <2>11. pc'[s] \in {"free.enter", "free.push"} => pc[s] = "free.enter" /\ arg'[s] = arg[s]
    <3>1. \/ pc'[s] = Pool!AfterEnter[pc[s]] /\ pc[s] = "free.enter" /\ arg' = arg
          \/ pc'[s] \in {"free.signal", "free.leave", "idle"}
      <4>1. pc \in [Pool!Threads -> Pool!Labels]
        BY <1>1 DEF PoolTypes
      <4>2. CASE Pool!EnterMutex(s)
        BY <1>2, <2>2, <4>1, <4>2, EnterLeads DEF Pool!EnterMutex, Pool!Go, Pool!FreeLabels
      <4>3. CASE Pool!LeaveMutex(s) \/ Pool!Push(s)
        BY <1>2, <2>2, <4>1, <4>3 DEF Pool!LeaveMutex, Pool!Push, Pool!Go, Pool!FreeLabels
      <4>4. CASE Pool!Signal(s)
        <5>1. Pool!Go(s, "free.leave") \/ \E w \in Pool!Threads :
                  pc[w] = "wait.sleep" /\ pc' = [pc EXCEPT ![s] = "free.leave", ![w] = "wait.wake"]
          BY <4>4 DEF Pool!Signal
        <5>2. pc[s] = "free.signal"
          BY <4>4 DEF Pool!Signal
        <5> QED BY <1>2, <4>1, <5>1, <5>2 DEF Pool!Go
      <4> QED BY <2>2, <2>3, <4>2, <4>3, <4>4 DEF Pool!Step, Pool!TestEmpty, Pool!Pop, Pool!Block, Pool!FreeLabels
    <3> QED BY <3>1, EnterLeads
  <2>12. \A t \in Services : pc'[t] \in {"free.enter", "free.push"} => arg'[t] # Null
    <3> TAKE t \in Services
    <3>1. CASE t = s
      BY <1>3, <2>11, <3>1
    <3>2. CASE t # s
      BY <1>2, <1>3, <2>1, <3>2 DEF Moved
    <3> QED BY <3>1, <3>2
  <2>13. pc'[Acceptor] = "get.leave" => pc[Acceptor] = "get.leave" /\ arg'[Acceptor] = arg[Acceptor]
    BY <1>2, <2>1 DEF Moved
  <2> QED BY <1>3, <2>4, <2>5, <2>6, <2>8, <2>10, <2>12, <2>13 DEF HandedInv
<1>10. CASE DestroyBase(s)
  <2>1. hpc[s] = "destroy" /\ hpc' = [hpc EXCEPT ![s] = "idle"]
        /\ UNCHANGED <<poolVars, accVars>> /\ Destroy(s, called[s])
    BY <1>10 DEF DestroyBase, HandlerAt
  <2>2. PICK c \in Ports : c = called[s]
    BY <1>1, <2>1, KnownOf DEF ThreadAt
  <2>3. c = first[s] /\ c # Null /\ service[c] = s
    BY <1>1, <1>4, <2>1, <2>2, KnownOf, NullIsNone DEF ThreadAt
  <2>4. Unlink(s, c) /\ life' = [life EXCEPT ![c] = "freed"]
    BY <2>1, <2>2, <2>3, <1>2 DEF Destroy
  <2>5. first'[s] = Null /\ (\A t \in Services \ {s} : first'[t] = first[t])
        /\ (\A d \in Ports \ {c} : service'[d] = service[d] /\ life'[d] = life[d])
    <3>1. \A d \in Ports \ {c} : life'[d] = life[d]
      BY <1>1, <2>4 DEF SvcTypeOK
    <3> QED BY <2>3, <2>4, <3>1, UnlinkOne
  <2>6. life'[c] = "freed"
    BY <1>1, <2>4 DEF SvcTypeOK
  <2>7. UNCHANGED <<pool, pc, arg, out, asvc, conn, apc>>
    BY <2>1 DEF poolVars, accVars
  <2>8. ASSUME NEW t \in Services, InHand(t)' PROVE InHand(t)
    <3>1. t # s => first'[t] = first[t] /\ hpc'[t] = hpc[t]
      BY <1>1, <2>1, <2>5 DEF TypeOK
    <3> QED BY <2>5, <2>7, <2>8, <3>1 DEF InHand, Lent
  <2>9. ASSUME NEW d \in Ports, life'[d] = "live"
        PROVE  service'[d] # Null \/ (apc' = "attach" /\ conn' = d)
    BY <1>3, <2>5, <2>6, <2>7, <2>9
  <2>10. UNCHANGED Pool!vars
    BY <2>1 DEF poolVars, Pool!vars
  <2>11. \A t \in Services : InHand(t)' => t \in out'
    BY <1>3, <2>7, <2>8
  <2> QED BY <1>3, <2>7, <2>9, <2>10, <2>11 DEF HandedInv
<1>11. \/ Serving(s) \/ UnbuiltCallback(s) \/ ReadFreed(s) \/ FreeService(s) \/ InFreeService(s)
       \/ DestroyBase(s) \/ ((RunStep(s) \/ RunPoll(s, Readable, Reset)) /\ Quiet)
  BY DEF ServiceStep, SessionStep, Serving, Quiet
<1>12. UnbuiltCallback(s) \/ ReadFreed(s) => UNCHANGED <<first, poolVars, accVars, life, service, hpc>>
  BY DEF UnbuiltCallback, ReadFreed, svcVars, list
<1> QED BY <1>5, <1>6, <1>7, <1>8, <1>9, <1>10, <1>11, <1>12

(* The acceptor attaches a session to what it gets.                             *)
LEMMA HandedAcceptor ==
    ASSUME ServerInv, HandedInv, AcceptorStep \/ InGetServiceSpurious
    PROVE  HandedInv' /\ [Pool!Next]_(Pool!vars)
<1>1. /\ Types /\ TypeOK /\ SvcTypeOK /\ PoolTypes /\ Pool!MutexHeld /\ AcceptorInv
  BY DEF ServerInv, Types, TypeOK
<1>2. Acceptor \in Pool!Threads /\ \A t \in Services : t \in Pool!Threads /\ t # Acceptor /\ t # Null
  BY ThreadsDiffer, NullIsNone DEF Pool!Threads
<1>3. /\ \A t \in Services : InHand(t) => t \in out
      /\ Null \notin Range(pool)
      /\ \A t \in Services : pc[t] \in {"free.enter", "free.push"} => arg[t] # Null
      /\ pc[Acceptor] = "get.leave" => arg[Acceptor] # Null
      /\ apc \in {"accept", "attach"} => asvc # Null
      /\ \A c \in Ports : life[c] = "live" => service[c] # Null \/ (apc = "attach" /\ conn = c)
  BY DEF HandedInv
<1>4. ASSUME UNCHANGED <<poolVars, first, hpc, life, service>>, apc # "attach",
             apc' \notin {"accept", "attach"}, asvc' \in {asvc, Null},
             \A t \in Services : asvc' = t /\ apc' \notin Attached => apc \notin Attached
      PROVE  HandedInv' /\ [Pool!Next]_(Pool!vars)
  <2>1. UNCHANGED <<pool, pc, arg, out>> /\ UNCHANGED Pool!vars
    BY <1>4 DEF poolVars, Pool!vars
  <2>2. \A t \in Services : InHand(t)' => InHand(t)
    BY <1>2, <1>4 DEF InHand, Lent
  <2> QED BY <1>3, <1>4, <2>1, <2>2 DEF HandedInv
<1>5. CASE GetService
  <2>1. apc = "run" /\ apc' = "get" /\ Pool!GetCall(Acceptor)
        /\ UNCHANGED <<first, hpc, life, service, asvc, conn>>
    BY <1>5 DEF GetService, AcceptorAt, svcVars, list
  <2>2. Pool!Next
    BY <2>1 DEF Pool!Next
  <2>3. UNCHANGED <<pool, arg, out>> /\ pc'[Acceptor] = "get.enter"
        /\ \A t \in Services : pc'[t] = pc[t]
    BY <1>1, <1>2, <2>1 DEF Pool!GetCall, Pool!Go, PoolTypes
  <2>4. \A t \in Services : InHand(t)' => InHand(t)
    BY <2>1 DEF InHand, Lent, Attached
  <2> QED BY <1>3, <2>1, <2>2, <2>3, <2>4 DEF HandedInv
<1>6. CASE InGetService \/ InGetServiceSpurious
  <2>1. Moved(Acceptor)
    BY <1>1, <1>2, <1>6, PoolMoves DEF InGetService, InGetServiceSpurious
  <2>2. apc = "get" /\ asvc = Null /\ apc' \in {"get", "accept"}
        /\ UNCHANGED <<first, conn, hpc, life, service>>
    BY <1>1, <1>6 DEF InGetService, InGetServiceSpurious, AcceptorInv, accVars, svcVars, list
  <2>3. Pool!Step(Acceptor) \/ Pool!SpuriousWakeup(Acceptor)
    BY <1>6 DEF InGetService, InGetServiceSpurious
  <2>4. Pool!Next
    BY <1>2, <2>3 DEF Pool!Next
  <2>5. IF pc[Acceptor] = "get.leave" THEN apc' = "accept" /\ asvc' = arg[Acceptor]
                                      ELSE apc' = "get" /\ asvc' = Null
    BY <1>6, <2>2 DEF InGetService, InGetServiceSpurious, accVars, Pool!SpuriousWakeup
  <2>6. IF pc[Acceptor] = "get.leave" THEN out' = out \cup {arg[Acceptor]} ELSE out' = out
    <3>1. CASE Pool!LeaveMutex(Acceptor)
      BY <3>1 DEF Pool!LeaveMutex
    <3>2. CASE Pool!EnterMutex(Acceptor)
      BY <3>2, EnterLeads DEF Pool!EnterMutex
    <3>3. CASE Pool!TestEmpty(Acceptor) \/ Pool!Pop(Acceptor) \/ Pool!Block(Acceptor)
      BY <3>3 DEF Pool!TestEmpty, Pool!Pop, Pool!Block
    <3>4. CASE Pool!Push(Acceptor) \/ Pool!Signal(Acceptor) \/ Pool!SpuriousWakeup(Acceptor)
      BY <3>4 DEF Pool!Push, Pool!Signal, Pool!SpuriousWakeup
    <3> QED BY <2>3, <3>1, <3>2, <3>3, <3>4 DEF Pool!Step
  <2>7. pc[Acceptor] # "free.push" /\ pc[Acceptor] \notin Pool!FreeLabels
    BY <1>1 DEF Types, Getting, Pool!GetLabels, Pool!WaitLabels, Pool!FreeLabels
  <2>8. pool' = pool \/ (pool # <<>> /\ pool' = Tail(pool))
    BY <2>1, <2>7 DEF Moved
  <2>9. Null \notin Range(pool')
    <3>1. pool \in Seq(Services \cup {Null})
      BY <1>1 DEF PoolTypes
    <3> QED BY <1>3, <2>8, <3>1, QueueRange
  <2>10. pc'[Acceptor] = "get.leave" => arg'[Acceptor] # Null
    <3> SUFFICES ASSUME pc'[Acceptor] = "get.leave" PROVE arg'[Acceptor] # Null
      OBVIOUS
    <3>1. Pool!Pop(Acceptor)
      <4>1. pc \in [Pool!Threads -> Pool!Labels]
        BY <1>1 DEF PoolTypes
      <4>2. CASE Pool!EnterMutex(Acceptor)
        BY <1>2, <4>1, <4>2, EnterLeads DEF Pool!EnterMutex, Pool!Go
      <4>3. CASE Pool!Signal(Acceptor) \/ Pool!Push(Acceptor)
        BY <2>7, <4>3 DEF Pool!Signal, Pool!Push, Pool!FreeLabels
      <4> QED BY <1>2, <2>3, <4>1, <4>2, <4>3 DEF Pool!Step, Pool!LeaveMutex, Pool!TestEmpty, Pool!Block,
              Pool!SpuriousWakeup, Pool!Go
    <3>2. pool # <<>> /\ arg'[Acceptor] = Head(pool)
      BY <1>1, <1>2, <3>1 DEF Pool!Pop, PoolTypes
    <3>3. pool \in Seq(Services \cup {Null})
      BY <1>1 DEF PoolTypes
    <3>4. Head(pool) \in Range(pool)
      BY <3>2, <3>3, QueueRange
    <3> QED BY <1>3, <3>2, <3>4
  <2>11. \A t \in Services : pc'[t] \in {"free.enter", "free.push"} => arg'[t] # Null
    BY <1>2, <1>3, <2>1 DEF Moved
  <2>12. ASSUME NEW t \in Services, InHand(t)' PROVE t \in out'
    <3>1. CASE Lent(t)'
      <4>1. Lent(t)
        BY <2>2, <3>1 DEF Lent
      <4> QED BY <1>3, <2>6, <4>1 DEF InHand
    <3>2. CASE asvc' = t
      BY <1>2, <2>5, <2>6, <3>2
    <3> QED BY <2>12, <3>1, <3>2 DEF InHand
  <2>13. apc' \in {"accept", "attach"} => asvc' # Null
    BY <1>3, <2>5
  <2>14. \A c \in Ports : life'[c] = "live" => service'[c] # Null
    BY <1>3, <2>2
  <2> QED BY <2>4, <2>9, <2>10, <2>11, <2>12, <2>13, <2>14 DEF HandedInv
<1>7. CASE \E c \in Ports : Accept(c)
  <2>1. PICK c \in Ports : Accept(c)
    BY <1>7
  <2>2. apc = "accept" /\ asvc # Null
    BY <1>3, <2>1 DEF Accept, AcceptorAt
  <2>3. apc' = "attach" /\ asvc' = asvc /\ conn' = c /\ life' = [life EXCEPT ![c] = "live"]
        /\ UNCHANGED <<poolVars, first, service, hpc>>
    BY <2>1, <2>2 DEF Accept, AcceptorAt, list
  <2>4. UNCHANGED <<pool, pc, arg, out>> /\ UNCHANGED Pool!vars
    BY <2>3 DEF poolVars, Pool!vars
  <2>5. \A t \in Services : InHand(t)' => InHand(t)
    BY <2>2, <2>3 DEF InHand, Lent, Attached
  <2>6. \A d \in Ports : life'[d] = "live" => service'[d] # Null \/ conn' = d
    BY <1>1, <1>3, <2>2, <2>3 DEF SvcTypeOK
  <2> QED BY <1>3, <2>2, <2>3, <2>4, <2>5, <2>6 DEF HandedInv
<1>8. CASE AcceptFails
  <2>1. apc = "accept" /\ apc' = "exited" /\ asvc' = asvc
        /\ UNCHANGED <<poolVars, first, hpc, life, service>>
    BY <1>8 DEF AcceptFails, AcceptorAt, svcVars, list
  <2> QED BY <1>4, <2>1 DEF Attached
<1>9. CASE AttachSession
  <2>1. PICK s \in Services : s = asvc
    BY <1>1, <1>9 DEF TypeOK, AcceptorInv, AttachSession, AcceptorAt
  <2>2. UNCHANGED <<poolVars, asvc, conn, hpc, life>> /\ Link(s, conn)
        /\ apc = "attach" /\ apc' \in Attached /\ apc' # "attach"
    BY <1>9, <2>1 DEF AttachSession, AcceptorAt, Attached
  <2>3. conn \in Ports
    BY <1>1, <2>2 DEF AcceptorInv, TypeOK
  <2>4. service' = [service EXCEPT ![conn] = s] /\ \E x : first' = first \/ first' = [first EXCEPT ![s] = x]
    BY <2>2 DEF Link
  <2>5. service'[conn] = s /\ \A d \in Ports \ {conn} : service'[d] = service[d]
    BY <1>1, <2>3, <2>4 DEF SvcTypeOK
  <2>6. \A t \in Services \ {s} : first'[t] = first[t]
    BY <1>1, <2>4 DEF SvcTypeOK
  <2>7. UNCHANGED <<pool, pc, arg, out>> /\ UNCHANGED Pool!vars
    BY <2>2 DEF poolVars, Pool!vars
  <2>8. ASSUME NEW t \in Services, InHand(t)' PROVE InHand(t)
    <3>1. CASE t = s
      BY <2>1, <2>2, <3>1 DEF InHand, Attached
    <3>2. CASE t # s
      BY <2>2, <2>6, <2>8, <3>2 DEF InHand, Lent
    <3> QED BY <3>1, <3>2
  <2>9. ASSUME NEW d \in Ports, life'[d] = "live" PROVE service'[d] # Null
    BY <1>2, <1>3, <2>2, <2>5, <2>9
  <2>10. apc' \notin {"accept", "attach"}
    BY <2>2 DEF Attached
  <2> QED BY <1>3, <2>2, <2>7, <2>8, <2>9, <2>10 DEF HandedInv
<1>10. CASE StartService \/ UpdateService \/ BecomeSession \/ ConstructMembers
  <2>1. UNCHANGED <<poolVars, first, hpc, life, service, asvc>> /\ apc \in Attached /\ apc' \in Attached
        /\ apc # "attach"
    BY <1>10 DEF StartService, UpdateService, BecomeSession, ConstructMembers, AcceptorAt, svcVars, list,
       Attached
  <2>2. apc' \notin {"accept", "attach"}
    BY <2>1 DEF Attached
  <2> QED BY <1>4, <2>1, <2>2
<1>11. CASE ConstructorBody
  <2>1. UNCHANGED <<poolVars, first, hpc, life, service>> /\ apc = "body" /\ apc' = "run" /\ asvc' = Null
    BY <1>11 DEF ConstructorBody, AcceptorAt, svcVars, list
  <2> QED BY <1>2, <1>4, <2>1
<1> QED BY <1>5, <1>6, <1>7, <1>8, <1>9, <1>10, <1>11 DEF AcceptorStep

(* What the server is from its start, if no client resets its connection.       *)
LEMMA HandedStart == Init => KeptInv /\ HandedInv
<1> SUFFICES ASSUME Init PROVE KeptInv /\ HandedInv
  OBVIOUS
<1>1. Pool!Range(pool) = Range(pool)
  BY DEF Range, Pool!Range
<1>2. KeptInv
  BY <1>1 DEF Init, SvcInit, Pool!Init, KeptInv, Kept, Attached
<1>3. Null \notin Range(pool)
  BY <1>1, NullIsNone DEF Init, Pool!Init
<1>4. \A s \in Services : ~InHand(s)
  BY NullIsNone DEF Init, SvcInit, InHand, Lent
<1>5. /\ \A s \in Services : pc[s] = "idle"
      /\ pc[Acceptor] = "idle" /\ apc = "run" /\ \A c \in Ports : life[c] = "none"
  BY DEF Init, SvcInit, Pool!Init, Pool!Threads
<1> QED BY <1>2, <1>3, <1>4, <1>5 DEF HandedInv

\* Every step of the server keeps HandedInv, and is a step of the pool or none.
LEMMA HandedStep ==
    ASSUME "reset" \notin Hangups, ServerInv, KeptInv, HandedInv, [Next]_vars
    PROVE  HandedInv' /\ [Pool!Next]_(Pool!vars)
<1>1. CASE UNCHANGED vars
  <2>1. UNCHANGED <<first, pool, owner, pc, arg, out, asvc, conn, apc, life, service, hpc>>
    BY <1>1 DEF vars, svcVars, list, poolVars, accVars
  <2> QED BY <2>1, HandedFrame DEF Pool!vars
<1>2. ASSUME NEW c \in Ports, ClientStep(c) PROVE HandedInv' /\ UNCHANGED Pool!vars
  <2>1. UNCHANGED <<first, pool, owner, pc, arg, out, asvc, conn, apc, life, service, hpc>>
    BY <1>2 DEF ClientStep, Connect, Send, Leave, svcVars, list, poolVars, accVars
  <2> QED BY <2>1, HandedFrame DEF Pool!vars
<1> QED BY <1>1, <1>2, HandedAcceptor, HandedService DEF Next

(* The server uses its pool as ServicePool says that it is used: a service is   *)
(* given back only by who has it, once for each time it was lent, and never as *)
(* NULL (httpservice.cpp 14).  What is true of the pool with any callers is    *)
(* true of the pool of this server.                                             *)
THEOREM ServerUsesPool ==
    ASSUME "reset" \notin Hangups
    PROVE  Spec => Pool!Spec
<1>1. Init => KeptInv /\ HandedInv /\ Pool!Init
  BY HandedStart DEF Init
<1>2. ServerInv /\ ServerInv' /\ KeptInv /\ [Next]_vars => KeptInv'
  BY KeptStep
<1>3. ServerInv /\ KeptInv /\ HandedInv /\ [Next]_vars => HandedInv' /\ [Pool!Next]_(Pool!vars)
  BY HandedStep
<1> QED BY <1>1, <1>2, <1>3, ServerInvariant, PTL DEF Spec, Pool!Spec

(* A session that a client can still talk to is attached to a service: what a   *)
(* reset takes away (Http_unserved) nothing else does.                          *)
THEOREM SessionsServed ==
    ASSUME "reset" \notin Hangups
    PROVE  Spec => []SessionIsServed
<1>1. Init => KeptInv /\ HandedInv
  BY HandedStart
<1>2. ServerInv /\ ServerInv' /\ KeptInv /\ [Next]_vars => KeptInv'
  BY KeptStep
<1>3. ServerInv /\ KeptInv /\ HandedInv /\ [Next]_vars => HandedInv'
  BY HandedStep
<1>4. ServerInv /\ HandedInv => SessionIsServed
  <2> SUFFICES ASSUME ServerInv, HandedInv, NEW c \in Ports, phase[c] = "built", life[c] = "live"
               PROVE  service[c] # Null
    BY DEF SessionIsServed
  <2>1. apc = "attach" /\ conn = c => phase[c] = "base"
    BY DEF ServerInv, Sessions, Fresh
  <2> QED BY <2>1 DEF HandedInv
<1> QED BY <1>1, <1>2, <1>3, <1>4, ServerInvariant, PTL DEF Spec

(* What is proved of the pool, for the pool of the server.                      *)
PoolTheorems == INSTANCE ServicePool_proofs WITH
    Getters <- {Acceptor},
    Freers <- Services,
    NoService <- Null

(* What ServicePool and its theorems assume is so in the server.                *)
LEMMA PoolAssumptions ==
    /\ PoolTheorems!IsFiniteSet(Services)
    /\ NoThread \notin PoolTheorems!Threads
    /\ Null \notin Services
    /\ WaitLocked \in BOOLEAN
    /\ PoolTheorems!IsFiniteSet(PoolTheorems!Threads)
<1>1. IsFiniteSet(PoolTheorems!Threads)
  BY ServicesFinite, FS_Union, FS_Singleton DEF PoolTheorems!Threads
<1>2. PoolTheorems!IsFiniteSet(Services)
  BY ServicesFinite DEF IsFiniteSet, PoolTheorems!IsFiniteSet
<1>3. PoolTheorems!IsFiniteSet(PoolTheorems!Threads)
  BY <1>1 DEF IsFiniteSet, PoolTheorems!IsFiniteSet
<1> QED
  BY <1>2, <1>3, ThreadsDiffer, WaitLockedBoolean, NullIsNone DEF PoolTheorems!Threads

(* The pool that those theorems are about is the pool of the server.            *)
LEMMA SamePool == Pool!Spec => PoolTheorems!Spec
<1>1. Pool!Init => PoolTheorems!Init
  BY DEF Pool!Init, PoolTheorems!Init, Pool!Threads, PoolTheorems!Threads, Pool!Range,
     PoolTheorems!Range, Pool!IsInjective, PoolTheorems!IsInjective, Pool!Cardinality,
     PoolTheorems!Cardinality
<1>2. [Pool!Next]_(Pool!vars) => [PoolTheorems!Next]_(PoolTheorems!vars)
  BY DEF Pool!Next, PoolTheorems!Next, Pool!vars, PoolTheorems!vars, Pool!Threads,
     PoolTheorems!Threads, Pool!Go, PoolTheorems!Go, Pool!AfterEnter, PoolTheorems!AfterEnter,
     Pool!GetCall, PoolTheorems!GetCall, Pool!FreeCall, PoolTheorems!FreeCall, Pool!Step,
     PoolTheorems!Step, Pool!EnterMutex, PoolTheorems!EnterMutex, Pool!LeaveMutex,
     PoolTheorems!LeaveMutex, Pool!TestEmpty, PoolTheorems!TestEmpty, Pool!Pop, PoolTheorems!Pop,
     Pool!Block, PoolTheorems!Block, Pool!Push, PoolTheorems!Push, Pool!Signal,
     PoolTheorems!Signal, Pool!SpuriousWakeup, PoolTheorems!SpuriousWakeup
<1> QED BY <1>1, <1>2, PTL DEF Pool!Spec, PoolTheorems!Spec

(* No service of the server is lost between the queue, the accept loop and the  *)
(* sessions, and none is there twice (servicepool.cpp 15-32): no session is     *)
(* given a service that another one, or the queue, still has.                   *)
THEOREM ServerAccounting ==
    ASSUME "reset" \notin Hangups
    PROVE  Spec => []Pool!Accounting
<1>1. PoolTheorems!Spec => []PoolTheorems!Accounting
  BY PoolAssumptions, PoolTheorems!AccountingCorrect
<1>2. PoolTheorems!Accounting => Pool!Accounting
  BY DEF Pool!Accounting, PoolTheorems!Accounting, Pool!Threads, PoolTheorems!Threads,
     Pool!Carried, PoolTheorems!Carried, Pool!Range, PoolTheorems!Range, Pool!IsInjective,
     PoolTheorems!IsInjective
<1> QED BY <1>1, <1>2, ServerUsesPool, SamePool, PTL

(* The accept loop never sleeps in getService over a queue that has a service   *)
(* that no signal speaks for (servicepool.cpp 18-19, 29-30), with the sessions  *)
(* giving their services back at any time.                                      *)
THEOREM ServerWakeups ==
    ASSUME "reset" \notin Hangups
    PROVE  Spec => []Pool!NoLostWakeup
<1>1. PoolTheorems!Spec => []PoolTheorems!NoLostWakeup
  BY PoolAssumptions, PoolTheorems!WakeupsCorrect
<1>2. PoolTheorems!NoLostWakeup => Pool!NoLostWakeup
  BY DEF Pool!NoLostWakeup, PoolTheorems!NoLostWakeup, Pool!Threads, PoolTheorems!Threads,
     Pool!Cardinality, PoolTheorems!Cardinality
<1> QED BY <1>1, <1>2, ServerUsesPool, SamePool, PTL

(* The server's pool is the abstract store: an accept loop and sessions that    *)
(* end, seen through the queue, are Acquire and Release of AbstractPool.        *)
THEOREM ServerImplementsStore ==
    ASSUME "reset" \notin Hangups
    PROVE  Spec => Pool!ImplementsPool
<1>1. PoolTheorems!Spec => PoolTheorems!ImplementsPool
  BY PoolAssumptions, PoolTheorems!Implementation
<1>2. PoolTheorems!Abstract!Init => Pool!Abstract!Init
  BY DEF Pool!Abstract!Init, PoolTheorems!Abstract!Init, Pool!Abstract!Range,
     PoolTheorems!Abstract!Range, Pool!Abstract!IsInjective, PoolTheorems!Abstract!IsInjective,
     Pool!Range, PoolTheorems!Range
<1>3. [PoolTheorems!Abstract!Next]_(PoolTheorems!Abstract!vars)
      => [Pool!Abstract!Next]_(Pool!Abstract!vars)
  BY DEF Pool!Abstract!Next, PoolTheorems!Abstract!Next, Pool!Abstract!vars,
     PoolTheorems!Abstract!vars, Pool!Abstract!Acquire, PoolTheorems!Abstract!Acquire,
     Pool!Abstract!Release, PoolTheorems!Abstract!Release, Pool!Range, PoolTheorems!Range
<1> QED
  BY <1>1, <1>2, <1>3, ServerUsesPool, SamePool, PTL
  DEF Pool!ImplementsPool, PoolTheorems!ImplementsPool, Pool!Abstract!Spec,
      PoolTheorems!Abstract!Spec
================================================================================
