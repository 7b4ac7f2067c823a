---------------------------- MODULE MCPthread_proofs ----------------------------
(* What the alarm program and the lockers with back-off guarantee for any    *)
(* number of alarms, any delays and any number of mutexes, and that the      *)
(* composition behaves like each of its parts.                               *)
EXTENDS MCPthread, RWLock_proofs, TimerPort_proofs, Sequences, WellFoundedInduction

--------------------------------------------------------------------------------
(* How far a locker has come: it has no other mutexes than those it came by. *)
(* Releasing what is another's can only take away from these.                *)
Passed(t) == IF bpc[t] = "lock" THEN 0 .. i[t] - 1 ELSE 0 .. i[t]

(* &mutex[k] for either thread. *)
MutexAt(t, k) == IF t = "forward" THEN k ELSE Last - k

BackoffInv ==
    /\ BO!TypeOK
    /\ \A t \in BO!Lockers : mine[t] \subseteq {MutexAt(t, k) : k \in Passed(t)}
    /\ \A m \in busy : \E t \in BO!Lockers : m \in mine[t]

\* A locker names one of the program's mutexes.
LEMMA MutexInRange ==
    ASSUME BO!TypeOK, NEW t \in BO!Lockers
    PROVE  BO!Mutex(t) \in 0 .. Last /\ BO!Mutex(t) = MutexAt(t, i[t])
BY LastNat DEF BO!TypeOK, BO!Mutex, MutexAt

(* Whoever owned a mutex still does after a locking. *)
LEMMA LockOwned ==
    ASSUME BackoffInv, NEW t \in BO!Lockers, BO!Lock(t)
    PROVE  /\ busy' \in SUBSET (0 .. Last)
           /\ mine' \in [BO!Lockers -> SUBSET (0 .. Last)]
           /\ \A m \in busy' : \E u \in BO!Lockers : m \in mine'[u]
           /\ mine'[t] = mine[t] \cup {MutexAt(t, i[t])}
           /\ \A u \in BO!Lockers : u # t => mine'[u] = mine[u]
<1> USE DEF BackoffInv, BO!TypeOK, BO!Lock
<1>1. BO!Mutex(t) \in 0 .. Last /\ BO!Mutex(t) = MutexAt(t, i[t])
  BY MutexInRange
<1>2. mine'[t] = mine[t] \cup {MutexAt(t, i[t])}
  BY <1>1
<1>3. \A u \in BO!Lockers : mine[u] \subseteq mine'[u]
  OBVIOUS
<1> QED BY <1>1, <1>2, <1>3

(* Whatever is locked after an unlocking belongs to somebody. *)
LEMMA UnlockOwned ==
    ASSUME BackoffInv, NEW t \in BO!Lockers, BO!Unlock(t)
    PROVE  /\ busy' \in SUBSET (0 .. Last)
           /\ mine' \in [BO!Lockers -> SUBSET (0 .. Last)]
           /\ \A m \in busy' : \E u \in BO!Lockers : m \in mine'[u]
           /\ mine'[t] = mine[t] \ {MutexAt(t, i[t])}
           /\ \A u \in BO!Lockers : u # t => mine'[u] = mine[u]
<1> USE DEF BackoffInv, BO!TypeOK, BO!Unlock
<1>1. BO!Mutex(t) \in 0 .. Last /\ BO!Mutex(t) = MutexAt(t, i[t])
  BY MutexInRange
<1>2. mine'[t] = mine[t] \ {MutexAt(t, i[t])}
  BY <1>1
<1>3. \A u \in BO!Lockers : mine[u] \ {BO!Mutex(t)} \subseteq mine'[u]
  OBVIOUS
<1> QED BY <1>1, <1>2, <1>3

\* Nobody holds anything at the start.
LEMMA BackoffInit == BO!Init => BackoffInv
BY LastNat DEF BO!Init, BackoffInv, BO!TypeOK, Passed

\* lock_forward and lock_backward keep BackoffInv, step by step.
LEMMA BackoffStep ==
    ASSUME BackoffInv, [BO!Next]_boVars
    PROVE  BackoffInv'
<1> USE DEF BackoffInv, BO!TypeOK
<1> SUFFICES ASSUME NEW t \in BO!Lockers, BO!Step(t)
             PROVE  BackoffInv'
  BY DEF BO!Next, boVars, Passed, MutexAt, BO!Lockers
<1>0. t \in BO!Lockers /\ i[t] \in 0 .. Last /\ Last \in Nat \ {0}
  BY LastNat
<1>a. SUFFICES /\ BO!TypeOK' /\ \A m \in busy' : \E u \in BO!Lockers : m \in mine'[u]
               /\ mine'[t] \subseteq {MutexAt(t, k) : k \in Passed(t)'}
               /\ \A u \in BO!Lockers : u # t => /\ mine'[u] = mine[u]
                                                   /\ i'[u] = i[u] /\ bpc'[u] = bpc[u]
  <2>1. \A u \in BO!Lockers : u # t => Passed(u)' = Passed(u)
    BY <1>a DEF Passed
  <2>2. \A u \in BO!Lockers : mine'[u] \subseteq {MutexAt(u, k) : k \in Passed(u)'}
    BY <1>a, <2>1
  <2> QED BY <1>a, <2>2 DEF MutexAt
<1>1. CASE BO!LockFirst(t)
  BY <1>0, <1>1, LockOwned DEF BO!LockFirst, Passed
<1>2. CASE BO!TryLock(t)
  <2>1. \A k \in 0 .. i[t] - 1 : k \in Passed(t)'
    BY <1>0, <1>2 DEF BO!TryLock, Passed
  <2>2. i[t] \in Passed(t)'
    BY <1>0, <1>2 DEF BO!TryLock, Passed
  <2>3. mine[t] \subseteq {MutexAt(t, k) : k \in 0 .. i[t] - 1}
    BY <1>2 DEF BO!TryLock, Passed
  <2>4. mine'[t] \subseteq {MutexAt(t, k) : k \in Passed(t)'}
    BY <1>2, <2>1, <2>2, <2>3, LockOwned DEF BO!TryLock
  <2> QED BY <1>0, <1>2, <2>4, LockOwned DEF BO!TryLock
<1>3. CASE BO!Busy(t)
  <2>1. \A k \in Passed(t) : k \in Passed(t)'
    BY <1>0, <1>3 DEF BO!Busy, Passed
  <2> QED BY <1>0, <1>3, <2>1 DEF BO!Busy
<1>4. CASE BO!Release(t)
  <2>1. mine[t] \subseteq {MutexAt(t, k) : k \in 0 .. i[t]}
    BY <1>4 DEF BO!Release, Passed
  <2>2. \A k \in 0 .. i[t] : k = i[t] \/ k \in Passed(t)'
    BY <1>0, <1>4 DEF BO!Release, Passed
  <2>3. mine'[t] \subseteq {MutexAt(t, k) : k \in Passed(t)'}
    BY <1>4, <2>1, <2>2, UnlockOwned DEF BO!Release
  <2>4. BO!Unlock(t)
    BY <1>4 DEF BO!Release
  <2>5. /\ i' \in [BO!Lockers -> 0 .. Last] /\ bpc' \in [BO!Lockers -> {"lock", "back", "got"}]
        /\ \A u \in BO!Lockers : u # t => i'[u] = i[u] /\ bpc'[u] = bpc[u]
    <3>1. CASE i[t] > 0
      BY <1>0, <1>4, <3>1 DEF BO!Release
    <3>2. CASE ~(i[t] > 0)
      BY <1>0, <1>4, <3>2 DEF BO!Release
    <3> QED BY <3>1, <3>2
  <2> QED BY <2>3, <2>4, <2>5, UnlockOwned
<1> QED BY <1>1, <1>2, <1>3, <1>4 DEF BO!Step

(* backoff.c cannot deadlock, for any number of mutexes: a thread that waits   *)
(* for its first mutex has none, and whatever is locked belongs to a thread    *)
(* that has not given it up, although each way back begins with unlocking a    *)
(* mutex of the other thread.                                                  *)
THEOREM BackoffCorrect == BO!Spec => []WaitsEmptyHanded
<1>1. BO!Init => BackoffInv
  BY BackoffInit
<1>2. BackoffInv /\ [BO!Next]_(BO!vars) => BackoffInv'
  BY BackoffStep DEF BO!vars, boVars
<1>3. BackoffInv => WaitsEmptyHanded
  <2> SUFFICES ASSUME BackoffInv PROVE WaitsEmptyHanded
    OBVIOUS
  <2>1. \A t \in BO!Lockers : bpc[t] = "lock" /\ i[t] = 0 => Passed(t) = {}
    BY DEF Passed
  <2> QED BY <2>1 DEF BackoffInv, WaitsEmptyHanded, BO!WaitsEmptyHanded
<1> QED BY <1>1, <1>2, <1>3, PTL DEF BO!Spec
--------------------------------------------------------------------------------
(* The alarms of a list L come in the order of their times tm. *)
InOrder(L, tm) == \A j, k \in 1 .. Len(L) : j <= k => tm[L[j]] <= tm[L[k]]

(* No alarm of the list is earlier than t. *)
NoneBefore(t) == \A j \in 1 .. Len(alarm_list) : t <= time[alarm_list[j]]

(* Only alarms that were set in the past are. *)
NoneOverdue(t) ==
    \A j \in 1 .. Len(alarm_list) : t <= time[alarm_list[j]] \/ alarm_list[j] \in past

(* What the alarm thread knows where it is: it sleeps without a timeout on an *)
(* empty list, and has taken the earliest alarm when it sleeps with one; a    *)
(* wakeup that finds current_alarm unchanged has nothing earlier to look for. *)
AlarmInv ==
    /\ AL!TypeOK
    /\ InOrder(alarm_list, time)
    /\ tpc = "wait" => alarm_list = <<>>
    /\ tpc \in {"wait", "woken"} /\ alarm_list = <<>> => current_alarm = AL!NoAlarm
    /\ tpc = "first" => alarm_list # <<>>
    /\ tpc \in {"twait", "twoken", "tout", "put", "ring"} => alarm # AL!NoAlarm
    /\ tpc = "twait" => current_alarm = time[alarm]
    /\ tpc = "twoken" => current_alarm \in 1 .. time[alarm] /\ NoneBefore(current_alarm)
    /\ tpc = "twait" => NoneBefore(time[alarm])
    /\ tpc \in {"tout", "ring"} => NoneOverdue(time[alarm])
    /\ tpc \in {"tout", "ring"} => time[alarm] <= now

\* A set of numbers that is not empty has a smallest one.
LEMMA Smallest ==
    ASSUME NEW I \in SUBSET Nat, I # {}
    PROVE  AL!Min(I) \in I /\ \A j \in I : AL!Min(I) <= j
<1> DEFINE R == OpToRel(<, Nat)
<1>1. \A j, k \in Nat : j < k => <<j, k>> \in R
  BY DEF OpToRel
<1>2. IsWellFoundedOn(R, Nat)
  BY NatLessThanWellFounded
<1> HIDE DEF R
<1>3. PICK n \in I : \A j \in I : <<j, n>> \notin R
  BY <1>2, WFMin
<1>4. ASSUME NEW j \in I PROVE n <= j
  <2>1. j \in Nat /\ n \in Nat /\ ~(j < n)
    BY <1>1, <1>3
  <2> QED BY <2>1
<1> QED BY <1>4 DEF AL!Min

\* A sequence over S is one over every larger set.
LEMMA SeqGrows ==
    ASSUME NEW S, NEW T, S \subseteq T, NEW L \in Seq(S)
    PROVE  L \in Seq(T)
OBVIOUS

\* What the elements of a concatenation are.
LEMMA Concatenated ==
    ASSUME NEW S, NEW L \in Seq(S), NEW M \in Seq(S)
    PROVE  /\ L \o M \in Seq(S) /\ Len(L \o M) = Len(L) + Len(M)
           /\ \A j \in 1 .. Len(L) : (L \o M)[j] = L[j]
           /\ \A j \in Len(L) + 1 .. Len(L) + Len(M) : (L \o M)[j] = M[j - Len(L)]
OBVIOUS

(* The elements of a list with a put before position n. *)
LEMMA Inserted ==
    ASSUME NEW S, NEW L \in Seq(S), NEW a \in S, NEW n \in 1 .. Len(L)
    PROVE  /\ AL!InsertAt(L, n, a) \in Seq(S)
           /\ Len(AL!InsertAt(L, n, a)) = Len(L) + 1
           /\ AL!InsertAt(L, n, a)[n] = a
           /\ \A j \in 1 .. n - 1 : AL!InsertAt(L, n, a)[j] = L[j]
           /\ \A j \in n + 1 .. Len(L) + 1 : AL!InsertAt(L, n, a)[j] = L[j - 1]
<1> DEFINE before == SubSeq(L, 1, n - 1)
           after == SubSeq(L, n, Len(L))
<1>1. /\ before \in Seq(S) /\ Len(before) = n - 1
      /\ \A j \in 1 .. n - 1 : before[j] = L[j]
  OBVIOUS
<1>2. /\ after \in Seq(S) /\ Len(after) = Len(L) - n + 1
      /\ \A j \in 1 .. Len(L) - n + 1 : after[j] = L[n + j - 1]
  OBVIOUS
<1>3. AL!InsertAt(L, n, a) = before \o <<a>> \o after
  BY DEF AL!InsertAt
<1> HIDE DEF before, after
<1>4. /\ before \o <<a>> \in Seq(S) /\ Len(before \o <<a>>) = n
      /\ (before \o <<a>>)[n] = a
      /\ \A j \in 1 .. n - 1 : (before \o <<a>>)[j] = L[j]
  BY <1>1
<1> DEFINE upto == before \o <<a>>
<1> HIDE DEF upto
<1>5. /\ upto \in Seq(S) /\ Len(upto) = n /\ upto[n] = a
      /\ \A j \in 1 .. n - 1 : upto[j] = L[j]
  BY <1>4 DEF upto
<1>6. AL!InsertAt(L, n, a) = upto \o after
  BY <1>3 DEF upto
<1>7. /\ upto \o after \in Seq(S) /\ Len(upto \o after) = Len(L) + 1
      /\ \A j \in 1 .. n : (upto \o after)[j] = upto[j]
      /\ \A j \in n + 1 .. Len(L) + 1 : (upto \o after)[j] = after[j - n]
  <2>1. Len(L) \in Nat /\ n + (Len(L) - n + 1) = Len(L) + 1
    OBVIOUS
  <2>2. /\ upto \o after \in Seq(S) /\ Len(upto \o after) = Len(upto) + Len(after)
        /\ \A j \in 1 .. Len(upto) : (upto \o after)[j] = upto[j]
        /\ \A j \in Len(upto) + 1 .. Len(upto) + Len(after) :
              (upto \o after)[j] = after[j - Len(upto)]
    <3>1. upto \in Seq(S) /\ after \in Seq(S)
      BY <1>2, <1>5
    <3> QED BY <3>1, Concatenated
  <2>3. Len(upto) = n /\ Len(upto) + Len(after) = Len(L) + 1
    BY <1>2, <1>5, <2>1
  <2> QED BY <2>2, <2>3
<1>8. \A j \in n + 1 .. Len(L) + 1 : after[j - n] = L[j - 1]
  <2> TAKE j \in n + 1 .. Len(L) + 1
  <2>1. j - n \in 1 .. Len(L) - n + 1 /\ n + (j - n) - 1 = j - 1
    OBVIOUS
  <2> QED BY <1>2, <2>1
<1> QED BY <1>5, <1>6, <1>7, <1>8

(* The values of a sequence over a set are in the set. *)
LEMMA ValuesIn ==
    ASSUME NEW S, NEW q \in Seq(S)
    PROVE  Len(q) \in Nat /\ \A j \in 1 .. Len(q) : q[j] \in S
OBVIOUS

(* The times of the alarms entered are seconds after the Epoch. *)
LEMMA TimesAre ==
    ASSUME AL!TypeOK
    PROVE  /\ MaxTime \in Nat \ {0} /\ MaxAlarms \in Nat \ {0} /\ Len(time) \in Nat
           /\ \A b \in AL!Entered : time[b] \in 1 .. MaxTime /\ time[b] \in Nat
           /\ \A j \in 1 .. Len(alarm_list) : alarm_list[j] \in AL!Entered
           /\ \A j \in 1 .. Len(alarm_list) : time[alarm_list[j]] \in Nat
<1>1. MaxTime \in Nat \ {0} /\ MaxAlarms \in Nat \ {0}
  BY BoundsNat
<1>2. time \in Seq(1 .. MaxTime)
  BY DEF AL!TypeOK
<1>3. alarm_list \in Seq(AL!Entered)
  BY DEF AL!TypeOK
<1>4. Len(time) \in Nat /\ \A b \in 1 .. Len(time) : time[b] \in 1 .. MaxTime
  BY <1>2, ValuesIn
<1>5. \A b \in 1 .. MaxTime : b \in Nat
  OBVIOUS
<1>6. \A b \in AL!Entered : time[b] \in 1 .. MaxTime /\ time[b] \in Nat
  BY <1>4, <1>5 DEF AL!Entered
<1>7. \A j \in 1 .. Len(alarm_list) : alarm_list[j] \in AL!Entered
  BY <1>3, ValuesIn
<1> QED BY <1>1, <1>4, <1>6, <1>7

(* alarm_insert finds the first position whose alarm is not earlier. *)
LEMMA SortedIs ==
    ASSUME AL!TypeOK, NEW a, NEW t \in Nat
    PROVE  \/ /\ \A j \in 1 .. Len(alarm_list) : time[alarm_list[j]] < t
              /\ AL!Sorted(a, t) = Append(alarm_list, a)
           \/ \E n \in 1 .. Len(alarm_list) :
                 /\ \A j \in 1 .. n - 1 : time[alarm_list[j]] < t
                 /\ time[alarm_list[n]] >= t
                 /\ AL!Sorted(a, t) = AL!InsertAt(alarm_list, n, a)
<1> DEFINE I == {j \in 1 .. Len(alarm_list) : time[alarm_list[j]] >= t}
           next == IF I # {} THEN AL!Min(I) ELSE 0
<1>1. AL!Sorted(a, t) = IF next = 0 THEN Append(alarm_list, a)
                                     ELSE AL!InsertAt(alarm_list, next, a)
  BY DEF AL!Sorted, AL!SelectInSeq
<1>2. \A j \in 1 .. Len(alarm_list) : time[alarm_list[j]] \in Nat
  BY TimesAre
<1>3. CASE I = {}
  BY <1>1, <1>2, <1>3
<1>4. CASE I # {}
  <2>1. I \in SUBSET Nat
    OBVIOUS
  <2> HIDE DEF I
  <2>2. next \in I /\ \A j \in I : next <= j
    BY <1>4, <2>1, Smallest
  <2> USE DEF I
  <2> HIDE DEF next
  <2>3. \A j \in 1 .. next - 1 : j \notin I
    BY <2>2
  <2>4. next \in 1 .. Len(alarm_list) /\ next # 0 /\ time[alarm_list[next]] >= t
    BY <2>2
  <2>5. \A j \in 1 .. next - 1 : j \in 1 .. Len(alarm_list)
    BY <2>4
  <2>6. \A j \in 1 .. next - 1 : time[alarm_list[j]] < t
    <3> TAKE j \in 1 .. next - 1
    <3>1. ~(time[alarm_list[j]] >= t)
      BY <2>3, <2>5
    <3>2. time[alarm_list[j]] \in Nat
      BY <1>2, <2>5
    <3> QED BY <3>1, <3>2
  <2>7. AL!Sorted(a, t) = AL!InsertAt(alarm_list, next, a)
    BY <1>1, <2>4
  <2> QED BY <2>4, <2>6, <2>7
<1> QED BY <1>3, <1>4

(* alarm_insert keeps the list in order and adds the one alarm a. *)
LEMMA SortedKeeps ==
    ASSUME AL!TypeOK, InOrder(alarm_list, time), NEW S, NEW a \in S, NEW t \in Nat,
           AL!Entered \subseteq S,
           NEW tm, tm[a] = t, \A b \in AL!Entered : tm[b] = time[b] /\ time[b] \in Nat
    PROVE  /\ AL!Sorted(a, t) \in Seq(S) /\ AL!Sorted(a, t) # <<>>
           /\ InOrder(AL!Sorted(a, t), tm)
           /\ \A j \in 1 .. Len(AL!Sorted(a, t)) :
                 \/ AL!Sorted(a, t)[j] = a
                 \/ \E k \in 1 .. Len(alarm_list) : AL!Sorted(a, t)[j] = alarm_list[k]
<1> DEFINE L == alarm_list
           N == AL!Sorted(a, t)
<1>1. L \in Seq(S) /\ L \in Seq(AL!Entered) /\ Len(L) \in Nat
  BY DEF AL!TypeOK
<1>2. \A j \in 1 .. Len(L) : L[j] \in AL!Entered /\ tm[L[j]] = time[L[j]] /\ tm[L[j]] \in Nat
  BY <1>1
<1>a. \A j, k \in 1 .. Len(L) : j <= k => tm[L[j]] <= tm[L[k]]
  BY <1>2 DEF InOrder
<1>3. CASE /\ \A j \in 1 .. Len(L) : time[L[j]] < t
           /\ N = Append(L, a)
  <2>1. /\ N \in Seq(S) /\ Len(N) = Len(L) + 1 /\ N[Len(L) + 1] = a
        /\ \A j \in 1 .. Len(L) : N[j] = L[j]
    BY <1>1, <1>3
  <2> HIDE DEF N
  <2>2. \A j \in 1 .. Len(L) + 1 : j = Len(L) + 1 \/ j \in 1 .. Len(L)
    BY <1>1
  <2>3. InOrder(N, tm)
    BY <1>1, <1>2, <1>3, <2>1, <2>2 DEF InOrder
  <2>4. N # <<>>
    BY <1>1, <2>1
  <2> QED BY <1>1, <2>1, <2>2, <2>3, <2>4 DEF N
<1>4. ASSUME NEW n \in 1 .. Len(L),
             \A j \in 1 .. n - 1 : time[L[j]] < t,
             time[L[n]] >= t,
             N = AL!InsertAt(L, n, a)
      PROVE  /\ N \in Seq(S) /\ N # <<>> /\ InOrder(N, tm)
             /\ \A j \in 1 .. Len(N) : N[j] = a \/ \E k \in 1 .. Len(L) : N[j] = L[k]
  <2>1. /\ N \in Seq(S) /\ Len(N) = Len(L) + 1 /\ N[n] = a
        /\ \A j \in 1 .. n - 1 : N[j] = L[j]
        /\ \A j \in n + 1 .. Len(L) + 1 : N[j] = L[j - 1]
    BY <1>1, <1>4, Inserted
  <2> HIDE DEF N
  <2>2. /\ \A j \in 1 .. Len(N) : j > n => j - 1 \in 1 .. Len(L) /\ n <= j - 1 /\ N[j] = L[j - 1]
        /\ \A j \in 1 .. Len(N) : j < n => j \in 1 .. Len(L) /\ N[j] = L[j] /\ time[L[j]] < t
    <3>1. ASSUME NEW j \in 1 .. Len(N), j > n
          PROVE  j - 1 \in 1 .. Len(L) /\ n <= j - 1 /\ N[j] = L[j - 1]
      <4>1. j \in n + 1 .. Len(L) + 1
        BY <1>1, <2>1, <3>1
      <4> QED BY <1>1, <2>1, <4>1
    <3>2. ASSUME NEW j \in 1 .. Len(N), j < n
          PROVE  j \in 1 .. Len(L) /\ N[j] = L[j] /\ time[L[j]] < t
      <4>1. j \in 1 .. n - 1
        BY <1>1, <2>1, <3>2
      <4> QED BY <1>1, <1>4, <2>1, <4>1
    <3> QED BY <3>1, <3>2
  <2>3. ASSUME NEW j \in 1 .. Len(N), NEW k \in 1 .. Len(N), j <= k
        PROVE  tm[N[j]] <= tm[N[k]]
    <3>1. CASE j = n /\ k = n
      BY <2>1, <3>1
    <3>2. CASE j = n /\ k > n
      <4>1. time[L[n]] <= time[L[k - 1]]
        BY <2>2, <3>2 DEF InOrder
      <4>2. tm[N[j]] = t /\ tm[N[k]] = time[L[k - 1]] /\ time[L[n]] \in Nat /\ time[L[k - 1]] \in Nat
        BY <1>2, <2>1, <2>2, <3>2
      <4> QED BY <1>4, <4>1, <4>2
    <3>3. CASE j < n /\ k = n
      BY <1>2, <2>1, <2>2, <3>3
    <3>4. CASE j < n /\ k < n
      BY <1>2, <2>2, <2>3, <3>4 DEF InOrder
    <3>5. CASE j < n /\ k > n
      <4>1. j <= k - 1
        BY <2>2, <3>5
      <4>2. tm[L[j]] <= tm[L[k - 1]]
        BY <1>a, <2>2, <3>5, <4>1
      <4> QED BY <2>2, <3>5, <4>2
    <3>6. CASE j > n /\ k > n
      <4>1. j - 1 <= k - 1
        BY <2>3
      <4>2. tm[L[j - 1]] <= tm[L[k - 1]]
        BY <1>a, <2>2, <3>6, <4>1
      <4> QED BY <2>2, <3>6, <4>2
    <3> QED BY <2>1, <2>3, <3>1, <3>2, <3>3, <3>4, <3>5, <3>6
  <2>4. InOrder(N, tm)
    BY <2>3 DEF InOrder
  <2>5. N # <<>>
    BY <1>1, <2>1
  <2>6. \A j \in 1 .. Len(N) : N[j] = a \/ \E k \in 1 .. Len(L) : N[j] = L[k]
    <3>1. \A j \in 1 .. Len(N) : j < n \/ j = n \/ j > n
      BY <2>1
    <3> QED BY <2>1, <2>2, <3>1
  <2> QED BY <2>1, <2>4, <2>5, <2>6
<1> QED BY <1>3, <1>4, SortedIs

(* main enters an alarm: wherever the alarm thread is without the mutex, what *)
(* it knows stays true, or it is woken.                                       *)
LEMMA EnterKeeps == ASSUME AlarmInv, AL!Enter PROVE AlarmInv'
<1>1. PICK a \in AL!Alarms, d \in Delays :
          /\ a = Len(time) + 1
          /\ now + d \in 1 .. MaxTime
          /\ time' = Append(time, now + d)
          /\ past' = IF d < 0 THEN past \cup {a} ELSE past
          /\ alarm_list' = AL!Sorted(a, now + d)
          /\ IF AL!Wakes(now + d)
             THEN /\ current_alarm' = now + d
                  /\ tpc' = CASE tpc = "wait" -> "woken"
                              [] tpc = "twait" -> "twoken"
                              [] OTHER -> tpc
             ELSE UNCHANGED <<current_alarm, tpc>>
  BY DEF AL!Enter
<1>2. AL!TypeOK /\ InOrder(alarm_list, time) /\ UNCHANGED <<now, alarm, rung>>
  BY DEF AlarmInv, AL!Enter
<1>3. PICK t \in Nat : t = now + d /\ t \in 1 .. MaxTime /\ now \in 1 .. MaxTime
  BY <1>1, <1>2, BoundsNat DEF AL!TypeOK
<1>b. past \subseteq past' /\ (now <= t \/ a \in past') /\ past' \subseteq past \cup {a}
  BY <1>1, <1>3, DelaysInt
<1>4. /\ time' \in Seq(1 .. MaxTime) /\ Len(time') = Len(time) + 1 /\ time'[a] = t
      /\ \A b \in AL!Entered : time'[b] = time[b] /\ time[b] \in Nat
      /\ AL!Entered' = 1 .. Len(time) + 1 /\ AL!Entered \subseteq AL!Entered' /\ a \in AL!Entered'
  BY <1>1, <1>2, <1>3, TimesAre DEF AL!TypeOK, AL!Entered
<1>5. /\ alarm_list' \in Seq(AL!Entered') /\ alarm_list' # <<>>
      /\ InOrder(alarm_list', time')
      /\ \A j \in 1 .. Len(alarm_list') :
            \/ alarm_list'[j] = a
            \/ \E k \in 1 .. Len(alarm_list) : alarm_list'[j] = alarm_list[k]
  <2>1. alarm_list' = AL!Sorted(a, t)
    BY <1>1, <1>3
  <2> DEFINE S == AL!Entered'
             tm == time'
  <2>2. /\ a \in S /\ AL!Entered \subseteq S
        /\ tm[a] = t /\ \A b \in AL!Entered : tm[b] = time[b] /\ time[b] \in Nat
    BY <1>4
  <2> HIDE DEF S, tm
  <2>3. /\ AL!Sorted(a, t) \in Seq(S) /\ AL!Sorted(a, t) # <<>>
        /\ InOrder(AL!Sorted(a, t), tm)
        /\ \A j \in 1 .. Len(AL!Sorted(a, t)) :
              \/ AL!Sorted(a, t)[j] = a
              \/ \E k \in 1 .. Len(alarm_list) : AL!Sorted(a, t)[j] = alarm_list[k]
    BY <1>2, <2>2, SortedKeeps
  <2> QED BY <2>1, <2>3 DEF S, tm
<1>6. AL!TypeOK'
  <2>1. AL!Entered' \subseteq AL!Alarms
    BY <1>1, <1>2, <1>4, TimesAre DEF AL!Alarms
  <2>2. current_alarm' \in 0 .. MaxTime
    BY <1>1, <1>2, <1>3 DEF AL!TypeOK
  <2>3. tpc' \in {"begin", "loop", "first", "put", "ring", "wait", "twait", "woken", "twoken", "tout"}
    BY <1>1, <1>2 DEF AL!TypeOK
  <2>4. rung' \in Seq(AL!Entered') /\ alarm' \in AL!Entered' \cup {AL!NoAlarm}
    <3>1. rung \in Seq(AL!Entered) /\ alarm \in AL!Entered \cup {AL!NoAlarm}
      BY <1>2 DEF AL!TypeOK
    <3>2. rung \in Seq(AL!Entered')
      BY <1>4, <3>1, SeqGrows
    <3> QED BY <1>2, <1>4, <3>1, <3>2
  <2>5. past' \subseteq AL!Entered'
    BY <1>2, <1>4, <1>b DEF AL!TypeOK
  <2> QED BY <1>2, <1>4, <1>5, <2>1, <2>2, <2>3, <2>4, <2>5 DEF AL!TypeOK
<1>7. ASSUME NEW s \in Nat, NoneBefore(s), s <= t
      PROVE  NoneBefore(s)'
  <2>1. \A j \in 1 .. Len(alarm_list) : alarm_list[j] \in AL!Entered
    BY <1>2, TimesAre
  <2>2. \A j \in 1 .. Len(alarm_list) : s <= time'[alarm_list[j]]
    BY <1>4, <1>7, <2>1 DEF NoneBefore
  <2>3. s <= time'[a]
    BY <1>4, <1>7
  <2>4. \A j \in 1 .. Len(alarm_list') : s <= time'[alarm_list'[j]]
    BY <1>5, <2>2, <2>3
  <2> QED BY <2>4 DEF NoneBefore
<1>8. ASSUME NoneBefore(current_alarm), current_alarm # 0, AL!Wakes(t)
      PROVE  NoneBefore(t)'
  <2>1. current_alarm \in Nat /\ t < current_alarm
    BY <1>2, <1>8 DEF AL!TypeOK, AL!Wakes, AL!NoAlarm
  <2>2. NoneBefore(t)
    BY <1>2, <1>8, <2>1, TimesAre DEF NoneBefore
  <2> QED BY <1>7, <2>2
<1>9. alarm # AL!NoAlarm => alarm' = alarm /\ time'[alarm] = time[alarm] /\ time[alarm] \in 1 .. MaxTime
  BY <1>2, <1>4, TimesAre DEF AL!TypeOK
<1>10. AL!Unlocked
  BY DEF AL!Enter
<1>11. CASE AL!Wakes(t) /\ tpc # "tout"
  <2>1. current_alarm' = t
    BY <1>1, <1>3, <1>11
  <2>2. CASE tpc = "wait"
    <3>1. tpc' = "woken"
      BY <1>1, <1>3, <1>11, <2>2
    <3> QED BY <1>5, <1>6, <3>1 DEF AlarmInv
  <2>3. CASE tpc \in {"twait", "twoken"}
    <3>1. tpc' = "twoken"
      BY <1>1, <1>3, <1>11, <2>3
    <3>2. alarm # AL!NoAlarm /\ current_alarm \in 1 .. time[alarm] /\ NoneBefore(current_alarm)
      BY <1>9, <2>3 DEF AlarmInv
    <3>3. NoneBefore(t)'
      BY <1>8, <1>11, <3>2
    <3>4. t \in 1 .. time[alarm]
      BY <1>3, <1>9, <1>11, <3>2 DEF AL!Wakes, AL!NoAlarm
    <3>5. NoneBefore(current_alarm)' /\ current_alarm' \in 1 .. time'[alarm']
      BY <1>9, <2>1, <3>2, <3>3, <3>4 DEF NoneBefore
    <3> QED BY <1>2, <1>5, <1>6, <3>1, <3>2, <3>5 DEF AlarmInv
  <2>4. CASE tpc \in {"begin", "woken"}
    <3>1. tpc' = tpc
      BY <1>1, <1>3, <1>11, <2>4
    <3> QED BY <1>5, <1>6, <2>4, <3>1 DEF AlarmInv
  <2> QED BY <1>10, <1>11, <2>2, <2>3, <2>4 DEF AL!Unlocked
<1>12. CASE ~AL!Wakes(t) /\ tpc # "tout"
  <2>1. current_alarm' = current_alarm /\ tpc' = tpc /\ current_alarm # 0 /\ current_alarm <= t
    BY <1>1, <1>2, <1>3, <1>12 DEF AL!Wakes, AL!NoAlarm, AL!TypeOK
  <2>2. \A s \in Nat : NoneBefore(s) /\ s <= t => NoneBefore(s)'
    BY <1>7
  <2>3. tpc # "wait"
    BY <2>1 DEF AlarmInv, AL!NoAlarm
  <2>4. CASE tpc \in {"begin", "woken"}
    BY <1>5, <1>6, <2>1, <2>4 DEF AlarmInv
  <2>5. CASE tpc = "twoken"
    <3>1. /\ alarm # AL!NoAlarm /\ current_alarm \in Nat /\ NoneBefore(current_alarm)
          /\ current_alarm \in 1 .. time[alarm]
      BY <1>9, <2>5 DEF AlarmInv
    <3>2. NoneBefore(current_alarm)'
      <4>1. \E s \in Nat : s = current_alarm /\ NoneBefore(s)'
        BY <2>1, <2>2, <3>1
      <4> QED BY <2>1, <4>1 DEF NoneBefore
    <3> QED BY <1>5, <1>6, <1>9, <2>1, <2>5, <3>1, <3>2 DEF AlarmInv
  <2>6. CASE tpc = "twait"
    <3>1. /\ alarm # AL!NoAlarm /\ NoneBefore(time[alarm]) /\ time[alarm] \in Nat
          /\ time[alarm] <= t
      BY <1>3, <1>9, <2>1, <2>6 DEF AlarmInv
    <3>2. NoneBefore(time[alarm])'
      BY <1>9, <2>2, <3>1 DEF NoneBefore
    <3> QED BY <1>2, <1>5, <1>6, <1>9, <2>1, <2>6, <3>1, <3>2 DEF AlarmInv
  <2> QED BY <1>10, <1>12, <2>3, <2>4, <2>5, <2>6 DEF AL!Unlocked
<1>13. CASE tpc = "tout"
  <2>1. tpc' = tpc
    BY <1>1, <1>3, <1>13
  <2>2. /\ alarm # AL!NoAlarm /\ alarm' = alarm /\ time'[alarm] = time[alarm]
        /\ time[alarm] \in Nat /\ time[alarm] <= now /\ NoneOverdue(time[alarm])
    BY <1>9, <1>13 DEF AlarmInv
  <2>3. time[alarm] <= t \/ a \in past'
    BY <1>3, <1>b, <2>2
  <2>4. \A j \in 1 .. Len(alarm_list) :
           time'[alarm_list[j]] = time[alarm_list[j]] /\ alarm_list[j] \in AL!Entered
    BY <1>2, <1>4, TimesAre
  <2>5. ASSUME NEW j \in 1 .. Len(alarm_list')
        PROVE  time[alarm] <= time'[alarm_list'[j]] \/ alarm_list'[j] \in past'
    <3>1. CASE alarm_list'[j] = a
      BY <1>4, <2>3, <3>1
    <3>2. ASSUME NEW k \in 1 .. Len(alarm_list), alarm_list'[j] = alarm_list[k]
          PROVE  time[alarm] <= time'[alarm_list'[j]] \/ alarm_list'[j] \in past'
      BY <1>b, <2>2, <2>4, <3>2 DEF NoneOverdue
    <3> QED BY <1>5, <3>1, <3>2
  <2>6. NoneOverdue(time[alarm])'
    BY <2>2, <2>5 DEF NoneOverdue
  <2> QED BY <1>2, <1>5, <1>6, <1>9, <1>13, <2>1, <2>2, <2>6 DEF AlarmInv
<1> QED BY <1>11, <1>12, <1>13

(* The alarm thread puts back the alarm it waited for. *)
LEMMA PutBackKeeps == ASSUME AlarmInv, AL!PutBack PROVE AlarmInv'
<1>1. AL!TypeOK /\ InOrder(alarm_list, time) /\ alarm \in AL!Entered
  BY DEF AlarmInv, AL!PutBack, AL!TypeOK
<1>2. time[alarm] \in 1 .. MaxTime /\ time[alarm] \in Nat
  BY <1>1, TimesAre
<1>3. alarm_list' \in Seq(AL!Entered) /\ InOrder(alarm_list', time)
  <2> DEFINE S == AL!Entered
  <2>1. alarm_list' = AL!Sorted(alarm, time[alarm])
    BY DEF AL!PutBack
  <2>2. \A b \in AL!Entered : time[b] \in Nat
    BY <1>1, TimesAre
  <2> QED BY <1>1, <1>2, <2>1, <2>2, SortedKeeps
<1>4. /\ UNCHANGED <<now, time, past, rung>> /\ AL!Entered' = AL!Entered
      /\ alarm' = AL!NoAlarm /\ tpc' = "loop"
      /\ current_alarm' \in 0 .. MaxTime
  BY <1>1, <1>2 DEF AL!PutBack, AL!Entered, AL!TypeOK
<1> QED BY <1>1, <1>3, <1>4 DEF AlarmInv, AL!TypeOK

(* The first alarm of the list is its earliest. *)
LEMMA TakeFirstKeeps == ASSUME AlarmInv, AL!TakeFirst PROVE AlarmInv'
<1>1. AL!TypeOK /\ InOrder(alarm_list, time) /\ alarm_list # <<>>
  BY DEF AlarmInv, AL!TakeFirst
<1>2. /\ alarm' = alarm_list[1] /\ alarm' \in AL!Entered
      /\ alarm_list' \in Seq(AL!Entered) /\ Len(alarm_list) \in Nat \ {0}
      /\ Len(alarm_list') = Len(alarm_list) - 1
      /\ \A j \in 1 .. Len(alarm_list') : alarm_list'[j] = alarm_list[j + 1] /\ j + 1 \in 1 .. Len(alarm_list)
  BY <1>1 DEF AL!TakeFirst, AL!TypeOK
<1>3. UNCHANGED <<now, time, past, rung>> /\ AL!Entered' = AL!Entered
  BY DEF AL!TakeFirst, AL!Entered
<1>4. time[alarm'] \in 1 .. MaxTime /\ alarm' # AL!NoAlarm /\ time[alarm'] \in Nat /\ now \in Nat
  <2>1. time[alarm'] \in 1 .. MaxTime /\ time[alarm'] \in Nat
    BY <1>1, <1>2, TimesAre
  <2>2. alarm' # AL!NoAlarm /\ now \in Nat
    BY <1>1, <1>2, BoundsNat DEF AL!Entered, AL!NoAlarm, AL!TypeOK
  <2> QED BY <2>1, <2>2
<1>5. InOrder(alarm_list', time')
  BY <1>1, <1>2, <1>3 DEF InOrder
<1>6. NoneBefore(time[alarm])' /\ NoneOverdue(time[alarm])'
  BY <1>1, <1>2, <1>3 DEF InOrder, NoneBefore, NoneOverdue
<1>7. \/ current_alarm' = time[alarm'] /\ tpc' = "twait"
      \/ current_alarm' = current_alarm /\ tpc' = "ring" /\ time[alarm'] <= now
  BY <1>4 DEF AL!TakeFirst
<1>8. AL!TypeOK'
  BY <1>1, <1>2, <1>3, <1>4, <1>7 DEF AL!TypeOK
<1> QED BY <1>3, <1>4, <1>5, <1>6, <1>7, <1>8 DEF AlarmInv

\* No alarms, nobody waiting.
LEMMA AlarmInit == AL!Init => AlarmInv
BY BoundsNat DEF AL!Init, AlarmInv, AL!TypeOK, AL!Entered, AL!Alarms, AL!NoAlarm, InOrder

\* main and the alarm thread keep AlarmInv.
LEMMA AlarmStep ==
    ASSUME AlarmInv, [AL!Next]_alVars
    PROVE  AlarmInv'
<1> USE DEF AlarmInv
<1>0. alarm_list' = alarm_list /\ time' = time /\ past' = past =>
         /\ InOrder(alarm_list, time) => InOrder(alarm_list', time')
         /\ \A s : NoneBefore(s) => NoneBefore(s)'
         /\ \A s : NoneOverdue(s) => NoneOverdue(s)'
  BY DEF InOrder, NoneBefore, NoneOverdue
<1>1. CASE AL!Enter
  BY <1>1, EnterKeeps
<1>2. CASE AL!PutBack
  BY <1>2, PutBackKeeps
<1>3. CASE AL!TakeFirst
  BY <1>3, TakeFirstKeeps
<1>4. CASE AL!Loop
  BY <1>0, <1>4, BoundsNat DEF AL!Loop, AL!TypeOK, AL!Entered, AL!NoAlarm
<1>5. CASE AL!Woken
  BY <1>0, <1>5 DEF AL!Woken, AL!TypeOK, AL!Entered
<1>6. CASE AL!TimedWoken
  BY <1>0, <1>6 DEF AL!TimedWoken, AL!TypeOK, AL!Entered, NoneBefore
<1>7. CASE AL!TimedOut
  BY <1>0, <1>7 DEF AL!TimedOut, AL!TypeOK, AL!Entered, NoneOverdue
<1>8. CASE AL!Ring
  BY <1>0, <1>8 DEF AL!Ring, AL!TypeOK, AL!Entered
<1>9. CASE AL!SpuriousWakeup
  <2>1. /\ tpc \in {"wait", "twait"}
        /\ tpc' = IF tpc = "wait" THEN "woken" ELSE "twoken"
        /\ UNCHANGED <<now, time, past, alarm_list, current_alarm, alarm, rung>>
    BY <1>9 DEF AL!SpuriousWakeup, AL!Asleep
  <2>2. AL!TypeOK'
    BY <2>1 DEF AL!TypeOK, AL!Entered
  <2>3. CASE tpc = "wait"
    BY <1>0, <2>1, <2>2, <2>3
  <2>4. CASE tpc = "twait"
    <3>1. alarm # AL!NoAlarm /\ current_alarm = time[alarm] /\ NoneBefore(time[alarm])
      BY <2>4
    <3>2. alarm \in AL!Entered
      BY <3>1 DEF AL!TypeOK
    <3>3. current_alarm \in 1 .. time[alarm] /\ NoneBefore(current_alarm)
      BY <3>1, <3>2, TimesAre
    <3> QED BY <1>0, <2>1, <2>2, <2>4, <3>1, <3>3 DEF NoneBefore
  <2> QED BY <2>1, <2>3, <2>4
<1>10. CASE AL!Timeout
  BY <1>0, <1>10 DEF AL!Timeout, AL!TypeOK, AL!Entered, NoneBefore, NoneOverdue
<1>11. CASE AL!Tick
  <2>1. AL!TypeOK' /\ now' = now + 1 /\ now \in Nat /\ NoneBefore(time[alarm])' = NoneBefore(time[alarm])
        /\ NoneOverdue(time[alarm])' = NoneOverdue(time[alarm])
    BY <1>11, BoundsNat DEF AL!Tick, AL!TypeOK, AL!Entered, NoneBefore, NoneOverdue
  <2>2. alarm # AL!NoAlarm => time[alarm] \in Nat
    BY TimesAre DEF AL!TypeOK
  <2> QED BY <1>0, <1>11, <2>1, <2>2 DEF AL!Tick
<1>12. CASE UNCHANGED alVars
  BY <1>0, <1>12 DEF alVars, AL!TypeOK, AL!Entered, NoneBefore, NoneOverdue
<1> QED BY <1>1, <1>2, <1>3, <1>4, <1>5, <1>6, <1>7, <1>8, <1>9, <1>10, <1>11, <1>12
        DEF AL!Next, AL!AlarmThread

(* The alarm thread never sleeps past an alarm, for any number of alarms with  *)
(* any delays, whatever comes in while it waits or between its wakeup and the  *)
(* mutex (alarm_cond.c 79-84, 144).                                            *)
THEOREM NoOversleepCorrect == AL!Spec => []NoOversleep
<1>1. AL!Init => AlarmInv
  BY AlarmInit
<1>2. AlarmInv /\ [AL!Next]_(AL!vars) => AlarmInv'
  BY AlarmStep DEF AL!vars, alVars
<1>3. AlarmInv => NoOversleep
  <2> SUFFICES ASSUME AlarmInv, tpc = "twait"
               PROVE  \A b \in AL!ToSet(alarm_list) : time[alarm] <= time[b]
    BY DEF AlarmInv, NoOversleep, AL!NoOversleep
  <2>1. NoneBefore(time[alarm])
    BY DEF AlarmInv
  <2>2. \A b \in AL!ToSet(alarm_list) : \E j \in 1 .. Len(alarm_list) : b = alarm_list[j]
    BY DEF AlarmInv, AL!TypeOK, AL!ToSet
  <2> QED BY <2>1, <2>2 DEF NoneBefore
<1> QED BY <1>1, <1>2, <1>3, PTL DEF AL!Spec

(* An alarm is printed when its time has come, and before every alarm of a     *)
(* later time, for any delays, negative ones too: only an alarm that was set   *)
(* in the past can be in the list when a later one is printed.                 *)
THEOREM RingsCorrect == AL!Spec => RingsInOrder
<1>1. AL!Init => AlarmInv
  BY AlarmInit
<1>2. AlarmInv /\ [AL!Next]_(AL!vars) => AlarmInv'
  BY AlarmStep DEF AL!vars, alVars
<1> DEFINE InItsTime ==
              rung' # rung => LET a == AL!Last(rung')
                              IN  /\ time[a] <= now
                                  /\ \A b \in AL!ToSet(alarm_list) : time[b] < time[a] => b \in past
<1>3. AlarmInv /\ [AL!Next]_(AL!vars) => [InItsTime]_(AL!vars)
  <2> SUFFICES ASSUME AlarmInv, AL!Next, rung' # rung
               PROVE  /\ time[AL!Last(rung')] <= now
                      /\ \A b \in AL!ToSet(alarm_list) : time[b] < time[AL!Last(rung')] => b \in past
    OBVIOUS
  <2>1. AL!Ring
    BY DEF AL!Next, AL!AlarmThread, AL!Enter, AL!Loop, AL!Woken, AL!TakeFirst, AL!TimedWoken,
           AL!TimedOut, AL!PutBack, AL!SpuriousWakeup, AL!Timeout, AL!Tick
  <2>2. AL!Last(rung') = alarm
    BY <2>1 DEF AlarmInv, AL!TypeOK, AL!Ring, AL!Last
  <2>3. NoneOverdue(time[alarm]) /\ time[alarm] <= now
    BY <2>1 DEF AlarmInv, AL!Ring
  <2>4. \A b \in AL!ToSet(alarm_list) : \E j \in 1 .. Len(alarm_list) : b = alarm_list[j]
    BY DEF AlarmInv, AL!TypeOK, AL!ToSet
  <2>5. AL!TypeOK /\ alarm \in AL!Entered
    BY <2>1 DEF AlarmInv, AL!Ring, AL!TypeOK
  <2>6. /\ \A j \in 1 .. Len(alarm_list) : time[alarm_list[j]] \in Nat
        /\ time[alarm] \in Nat
    BY <2>5, TimesAre
  <2> QED BY <2>2, <2>3, <2>4, <2>6 DEF NoneOverdue
<1> QED BY <1>1, <1>2, <1>3, PTL DEF AL!Spec, RingsInOrder, AL!RingsInOrder
--------------------------------------------------------------------------------
(* The programs share nothing: a step of one leaves the others where they are. *)
AllInv == IInv /\ AlarmInv /\ BackoffInv /\ Stands

\* One program runs, the others stay: the three invariants together are kept.
LEMMA AllStep == AllInv /\ [MCNext]_allVars => AllInv'
<1> SUFFICES ASSUME AllInv, [MCNext]_allVars PROVE AllInv'
  OBVIOUS
<1>1. /\ [Next]_vars /\ [AL!Next]_alVars
      /\ [BO!Next]_boVars /\ [TimerNext]_timerVars
  BY Zenon DEF MCNext, allVars, Rwlock, Alarm, BackingOff, Timer
<1>2. IInv'
  BY <1>1, StepInv DEF AllInv
<1>3. AlarmInv'
  BY <1>1, AlarmStep DEF AllInv
<1>4. BackoffInv'
  BY <1>1, BackoffStep DEF AllInv
<1>5. Stands'
  BY <1>1, StepStands DEF AllInv
<1> QED BY <1>2, <1>3, <1>4, <1>5 DEF AllInv

(* Every variable keeps its type in each of the programs, for all values of    *)
(* the constants; and what is proved of a program alone holds where TLC checks *)
(* it, in the choice of one of them.                                           *)
THEOREM AllTypesCorrect == MCSpec => []AllTypesOK
<1>1. MCInit => AllInv
  BY InitInv, AlarmInit, BackoffInit, InitStands DEF MCInit, AllInv
<1>2. AllInv => AllTypesOK
  BY DEF AllInv, IInv, AlarmInv, BackoffInv, Stands, AllTypesOK, TimerTypeOK
<1> QED BY <1>1, <1>2, AllStep, PTL DEF MCSpec

(* The specification the runs check is one of the four programs. *)
LEMMA PthreadParts == MCSpec => Spec /\ AL!Spec /\ BO!Spec /\ TimerSpec
<1>1. MCInit => Init /\ AL!Init /\ BO!Init /\ TimerInit
  BY DEF MCInit
<1>2. [MCNext]_allVars => /\ [Next]_vars /\ [AL!Next]_(AL!vars)
                          /\ [BO!Next]_(BO!vars) /\ [TimerNext]_timerVars
  <2>1. UNCHANGED alVars => UNCHANGED AL!vars
    BY DEF alVars, AL!vars
  <2>2. UNCHANGED boVars => UNCHANGED BO!vars
    BY DEF boVars, BO!vars
  <2> QED BY <2>1, <2>2 DEF MCNext, Rwlock, Alarm, BackingOff, Timer, allVars
<1> QED BY <1>1, <1>2, PTL DEF MCSpec, Spec, AL!Spec, BO!Spec, TimerSpec

(* So the safety properties of the lock, of the alarms, of the back-off and of *)
(* the timer hold of the specification the runs check.                         *)
THEOREM PthreadCorrect ==
    MCSpec => /\ [](CountersExact /\ Exclusion /\ NoLostWakeup)
              /\ [](NoOversleep /\ WaitsEmptyHanded /\ ExactToTheMillisecond)
              /\ RingsInOrder /\ ImplementsRWLock
BY PthreadParts, CountersCorrect, ExclusionCorrect, WakeupsCorrect, Implementation,
   NoOversleepCorrect, BackoffCorrect, ExactnessCorrect, RingsCorrect, PTL
================================================================================
