----------------------------- MODULE RWLock_proofs -----------------------------
(* What the read-write lock guarantees for any number of threads and for     *)
(* cancellation of any of them: its counters are exact, a writer is alone,   *)
(* and it implements AbstractRWLock.  The argument rests on the inductive    *)
(* invariant IInv.                                                           *)
EXTENDS RWLock, FiniteSetTheorems, TLAPS

(* A thread inside a function has what the function expects it to have: only *)
(* the two unlock functions are called with the lock held.                   *)
LabelsFit ==
    \A t \in Threads :
        /\ pc[t] = "readunlock" => held[t] = "read"
        /\ pc[t] = "writeunlock" => held[t] = "write"
        /\ pc[t] \notin {"idle", "readunlock", "writeunlock"} => held[t] = "no"

IInv ==
    /\ TypeOK
    /\ CountersExact
    /\ LabelsFit
    /\ w_active = 1 => r_active = 0

(* The threads whose value of f is in M. *)
Who(f, M) == {t \in Threads : f[t] \in M}
--------------------------------------------------------------------------------
(* A count of a set that has a member is positive. *)
LEMMA CountPositive ==
    ASSUME NEW f, NEW t \in Threads, NEW M, f[t] \in M
    PROVE  Cardinality(Who(f, M)) >= 1
<1>1. IsFiniteSet(Who(f, M)) /\ Cardinality(Who(f, M)) \in Nat
  BY ThreadsFinite, FS_Subset, FS_CardinalityType DEF Who
<1>2. t \in Who(f, M)
  BY DEF Who
<1> QED BY <1>1, <1>2, FS_EmptySet

(* What a thread with value v adds to the count of M. *)
Bit(v, M) == IF v \in M THEN 1 ELSE 0

(* A count when a thread joins the set or leaves it. *)
LEMMA Joined ==
    ASSUME NEW S \in SUBSET Threads, NEW t \in Threads, t \notin S
    PROVE  Cardinality(S \cup {t}) = Cardinality(S) + 1
BY ThreadsFinite, FS_Subset, FS_AddElement

\* A set is smaller by one without one of its members.
LEMMA Left ==
    ASSUME NEW S \in SUBSET Threads, NEW t \in S
    PROVE  Cardinality(S \ {t}) = Cardinality(S) - 1
BY ThreadsFinite, FS_Subset, FS_RemoveElement

(* A count does not change when nobody enters or leaves the set. *)
LEMMA CountSame ==
    ASSUME NEW f, NEW g, NEW M, \A t \in Threads : g[t] \in M <=> f[t] \in M
    PROVE  Cardinality(Who(g, M)) = Cardinality(Who(f, M))
<1>1. Who(g, M) = Who(f, M)
  BY DEF Who
<1> QED BY <1>1

(* The counters in terms of Who. *)
LEMMA CountersAreCounts ==
    /\ CountersExact <=>
         /\ r_active = Cardinality(Who(held, {"read"}))
         /\ w_active = Cardinality(Who(held, {"write"}))
         /\ r_wait = Cardinality(Who(pc, ReadWaits))
         /\ w_wait = Cardinality(Who(pc, WriteWaits))
    /\ CountersExact' <=>
         /\ r_active' = Cardinality(Who(held', {"read"}))
         /\ w_active' = Cardinality(Who(held', {"write"}))
         /\ r_wait' = Cardinality(Who(pc', ReadWaits))
         /\ w_wait' = Cardinality(Who(pc', WriteWaits))
<1>1. \A mode : Holders(mode) = Who(held, {mode}) /\ Holders(mode)' = Who(held', {mode})
  BY DEF Holders, Who
<1> QED BY <1>1 DEF CountersExact, Who, Holders

(* Whoever holds the lock is counted. *)
LEMMA HoldersCounted ==
    ASSUME IInv
    PROVE  /\ \A t \in Threads : held[t] = "read" => r_active >= 1
           /\ \A t \in Threads : held[t] = "write" => w_active = 1
           /\ \A t \in Threads : pc[t] \in ReadWaits => r_wait >= 1
           /\ \A t \in Threads : pc[t] \in WriteWaits => w_wait >= 1
<1>1. TypeOK /\ CountersExact
  BY DEF IInv
<1> SUFFICES ASSUME NEW t \in Threads
             PROVE  /\ held[t] = "read" => r_active >= 1
                    /\ held[t] = "write" => w_active = 1
                    /\ pc[t] \in ReadWaits => r_wait >= 1
                    /\ pc[t] \in WriteWaits => w_wait >= 1
  OBVIOUS
<1>2. held[t] = "read" => r_active >= 1
  BY <1>1, CountPositive, CountersAreCounts
<1>3. held[t] = "write" => w_active >= 1
  BY <1>1, CountPositive, CountersAreCounts
<1>4. pc[t] \in ReadWaits => r_wait >= 1
  BY <1>1, CountPositive, CountersAreCounts
<1>5. pc[t] \in WriteWaits => w_wait >= 1
  BY <1>1, CountPositive, CountersAreCounts
<1> QED BY <1>1, <1>2, <1>3, <1>4, <1>5 DEF TypeOK

(* What Go and Hold do to the four counts. *)
LEMMA GoCounts ==
    ASSUME TypeOK, NEW t \in Threads, NEW label, Go(t, label), NEW M
    PROVE  Cardinality(Who(pc', M)) = Cardinality(Who(pc, M)) - Bit(pc[t], M) + Bit(label, M)
<1> DEFINE S == Who(pc, M)
<1>1. pc \in [Threads -> Labels] /\ pc' = [pc EXCEPT ![t] = label]
  BY DEF TypeOK, Go
<1>2. S \in SUBSET Threads /\ Cardinality(S) \in Nat
  BY ThreadsFinite, FS_Subset, FS_CardinalityType DEF Who
<1>3. CASE pc[t] \in M /\ label \in M
  <2>1. Who(pc', M) = S
    BY <1>1, <1>3 DEF Who
  <2> QED BY <1>2, <1>3, <2>1 DEF Bit
<1>4. CASE pc[t] \in M /\ label \notin M
  <2>1. Who(pc', M) = S \ {t} /\ t \in S
    BY <1>1, <1>4 DEF Who
  <2>2. Cardinality(S \ {t}) = Cardinality(S) - 1
    BY <1>2, <2>1, Left
  <2> QED BY <1>2, <1>4, <2>1, <2>2 DEF Bit
<1>5. CASE pc[t] \notin M /\ label \in M
  <2>1. Who(pc', M) = S \cup {t} /\ t \notin S
    BY <1>1, <1>5 DEF Who
  <2>2. Cardinality(S \cup {t}) = Cardinality(S) + 1
    BY <1>2, <2>1, Joined
  <2> QED BY <1>2, <1>5, <2>1, <2>2 DEF Bit
<1>6. CASE pc[t] \notin M /\ label \notin M
  <2>1. Who(pc', M) = S
    BY <1>1, <1>6 DEF Who
  <2> QED BY <1>2, <1>6, <2>1 DEF Bit
<1> QED BY <1>3, <1>4, <1>5, <1>6

\* Taking or giving back changes the number of holders by one thread.
LEMMA HoldCounts ==
    ASSUME TypeOK, NEW t \in Threads, NEW mode, Hold(t, mode), NEW M
    PROVE  Cardinality(Who(held', M)) = Cardinality(Who(held, M)) - Bit(held[t], M) + Bit(mode, M)
<1> DEFINE S == Who(held, M)
<1>1. held \in [Threads -> {"no", "read", "write"}] /\ held' = [held EXCEPT ![t] = mode]
  BY DEF TypeOK, Hold
<1>2. S \in SUBSET Threads /\ Cardinality(S) \in Nat
  BY ThreadsFinite, FS_Subset, FS_CardinalityType DEF Who
<1>3. CASE held[t] \in M /\ mode \in M
  <2>1. Who(held', M) = S
    BY <1>1, <1>3 DEF Who
  <2> QED BY <1>2, <1>3, <2>1 DEF Bit
<1>4. CASE held[t] \in M /\ mode \notin M
  <2>1. Who(held', M) = S \ {t} /\ t \in S
    BY <1>1, <1>4 DEF Who
  <2>2. Cardinality(S \ {t}) = Cardinality(S) - 1
    BY <1>2, <2>1, Left
  <2> QED BY <1>2, <1>4, <2>1, <2>2 DEF Bit
<1>5. CASE held[t] \notin M /\ mode \in M
  <2>1. Who(held', M) = S \cup {t} /\ t \notin S
    BY <1>1, <1>5 DEF Who
  <2>2. Cardinality(S \cup {t}) = Cardinality(S) + 1
    BY <1>2, <2>1, Joined
  <2> QED BY <1>2, <1>5, <2>1, <2>2 DEF Bit
<1>6. CASE held[t] \notin M /\ mode \notin M
  <2>1. Who(held', M) = S
    BY <1>1, <1>6 DEF Who
  <2> QED BY <1>2, <1>6, <2>1 DEF Bit
<1> QED BY <1>3, <1>4, <1>5, <1>6

(* A broadcast or a signal moves sleepers to where they are woken, and the   *)
(* caller to the end of its function: nobody starts or ceases to wait.       *)
LEMMA WakingCounts ==
    ASSUME TypeOK, CountersExact, NEW t \in Threads, pc[t] \in Calls,
           \/ SignalWrite(t)
           \/ pc' = [u \in Threads |-> IF u = t THEN "idle"
                                       ELSE IF pc[u] = "r.sleep" THEN "r.woken" ELSE pc[u]]
           \/ Go(t, "idle")
    PROVE  /\ pc' \in [Threads -> Labels]
           /\ Cardinality(Who(pc', ReadWaits)) = r_wait
           /\ Cardinality(Who(pc', WriteWaits)) = w_wait
           /\ \A u \in Threads : pc'[u] # pc[u] =>
                 \/ u = t /\ pc'[u] = "idle"
                 \/ pc[u] = "r.sleep" /\ pc'[u] = "r.woken"
                 \/ pc[u] = "w.sleep" /\ pc'[u] = "w.woken"
<1>1. pc \in [Threads -> Labels]
  BY DEF TypeOK
<1>2. /\ pc' \in [Threads -> Labels]
      /\ \A u \in Threads : pc'[u] # pc[u] =>
            \/ u = t /\ pc'[u] = "idle"
            \/ pc[u] = "r.sleep" /\ pc'[u] = "r.woken"
            \/ pc[u] = "w.sleep" /\ pc'[u] = "w.woken"
  <2>1. CASE Go(t, "idle")
    BY <1>1, <2>1 DEF Go, Labels
  <2>2. CASE SignalWrite(t)
    BY <1>1, <2>2 DEF SignalWrite, At, Go, Labels, WriteWaits
  <2>3. CASE pc' = [u \in Threads |-> IF u = t THEN "idle"
                                     ELSE IF pc[u] = "r.sleep" THEN "r.woken" ELSE pc[u]]
    BY <1>1, <2>3 DEF Labels, ReadWaits
  <2> QED BY <2>1, <2>2, <2>3
<1>3. \A u \in Threads : /\ pc'[u] \in ReadWaits <=> pc[u] \in ReadWaits
                         /\ pc'[u] \in WriteWaits <=> pc[u] \in WriteWaits
  BY <1>2 DEF Calls, ReadWaits, WriteWaits
<1>4. /\ Cardinality(Who(pc', ReadWaits)) = Cardinality(Who(pc, ReadWaits))
      /\ Cardinality(Who(pc', WriteWaits)) = Cardinality(Who(pc, WriteWaits))
  BY <1>3, CountSame
<1> QED BY <1>2, <1>4, CountersAreCounts

(* GoCounts and HoldCounts for the four counters. *)
LEMMA WaitsAfterGo ==
    ASSUME IInv, NEW t \in Threads, NEW label, Go(t, label)
    PROVE  /\ Cardinality(Who(pc', ReadWaits))
                = r_wait - Bit(pc[t], ReadWaits) + Bit(label, ReadWaits)
           /\ Cardinality(Who(pc', WriteWaits))
                = w_wait - Bit(pc[t], WriteWaits) + Bit(label, WriteWaits)
BY GoCounts, CountersAreCounts DEF IInv

\* The same for the two kinds of holders, told by the counters.
LEMMA ActivesAfterHold ==
    ASSUME IInv, NEW t \in Threads, NEW mode, Hold(t, mode)
    PROVE  /\ Cardinality(Who(held', {"read"}))
                = r_active - Bit(held[t], {"read"}) + Bit(mode, {"read"})
           /\ Cardinality(Who(held', {"write"}))
                = w_active - Bit(held[t], {"write"}) + Bit(mode, {"write"})
BY HoldCounts, CountersAreCounts DEF IInv

\* Who keeps what it holds keeps the numbers of holders.
LEMMA ActivesAsBefore ==
    ASSUME IInv, UNCHANGED held
    PROVE  /\ Cardinality(Who(held', {"read"})) = r_active
           /\ Cardinality(Who(held', {"write"})) = w_active
BY CountersAreCounts DEF IInv

(* What is left to show of a step: types, labels and the four counts. *)
LEMMA InvFromCounts ==
    ASSUME TypeOK', LabelsFit', w_active' = 1 => r_active' = 0,
           Cardinality(Who(held', {"read"})) = r_active',
           Cardinality(Who(held', {"write"})) = w_active',
           Cardinality(Who(pc', ReadWaits)) = r_wait',
           Cardinality(Who(pc', WriteWaits)) = w_wait'
    PROVE  IInv'
BY CountersAreCounts DEF IInv

\* A thread calls one of the functions.
LEMMA CallKeeps ==
    ASSUME IInv, NEW t \in Threads, Call(t)
    PROVE  IInv'
<1>1. PICK fun \in MayCall(t) : Go(t, fun)
  BY DEF Call
<1>2. pc[t] = "idle" /\ UNCHANGED <<r_active, w_active, r_wait, w_wait, valid, held>>
  BY DEF Call
<1>3. /\ fun \in Calls
      /\ fun = "readunlock" => held[t] = "read"
      /\ fun = "writeunlock" => held[t] = "write"
      /\ fun \notin {"readunlock", "writeunlock"} => held[t] = "no"
  BY DEF MayCall, Calls, IInv, TypeOK
<1>4. TypeOK' /\ LabelsFit'
  BY <1>1, <1>2, <1>3 DEF IInv, TypeOK, LabelsFit, Go, Labels, Calls
<1>5. /\ Cardinality(Who(pc', ReadWaits)) = r_wait
      /\ Cardinality(Who(pc', WriteWaits)) = w_wait
  BY <1>1, <1>2, <1>3, WaitsAfterGo DEF Bit, Calls, ReadWaits, WriteWaits, IInv, TypeOK
<1> QED BY <1>2, <1>4, <1>5, ActivesAsBefore, InvFromCounts DEF IInv

(* The steps in which a thread begins to wait, waits on, or stops waiting by  *)
(* cancellation: what is held does not change.                                *)
LEMMA WaitingKeeps ==
    ASSUME IInv, NEW t \in Threads, NEW label, Go(t, label),
           label \in {"idle", "r.gone", "w.gone"} \cup ReadWaits \cup WriteWaits,
           held[t] = "no",
           UNCHANGED <<r_active, w_active, held>>, valid' \in BOOLEAN,
           r_wait' = r_wait - Bit(pc[t], ReadWaits) + Bit(label, ReadWaits),
           w_wait' = w_wait - Bit(pc[t], WriteWaits) + Bit(label, WriteWaits)
    PROVE  IInv'
<1>1. r_wait' \in Nat /\ w_wait' \in Nat
  BY HoldersCounted DEF Bit, IInv, TypeOK
<1>2. label \in Labels
  BY DEF Labels
<1>3. TypeOK'
  BY <1>1, <1>2 DEF IInv, TypeOK, Go
<1>4. LabelsFit'
  BY DEF IInv, LabelsFit, TypeOK, Go, ReadWaits, WriteWaits
<1>5. w_active' = 1 => r_active' = 0
  BY DEF IInv
<1>6. /\ Cardinality(Who(held', {"read"})) = r_active'
      /\ Cardinality(Who(held', {"write"})) = w_active'
  BY ActivesAsBefore
<1>7. /\ Cardinality(Who(pc', ReadWaits)) = r_wait'
      /\ Cardinality(Who(pc', WriteWaits)) = w_wait'
  BY WaitsAfterGo
<1> QED BY <1>3, <1>4, <1>5, <1>6, <1>7, InvFromCounts

(* The steps in which a thread gets the lock. *)
LEMMA AcquiringKeeps ==
    ASSUME IInv, NEW t \in Threads, NEW mode \in {"read", "write"},
           Go(t, "idle"), Hold(t, mode), held[t] = "no",
           w_active = 0, mode = "write" => r_active = 0,
           UNCHANGED valid,
           r_active' = r_active + Bit(mode, {"read"}),
           w_active' = w_active + Bit(mode, {"write"}),
           r_wait' = r_wait - Bit(pc[t], ReadWaits),
           w_wait' = w_wait - Bit(pc[t], WriteWaits)
    PROVE  IInv'
<1>1. r_wait' \in Nat /\ w_wait' \in Nat
  BY HoldersCounted DEF Bit, IInv, TypeOK
<1>2. /\ r_active' \in Nat /\ w_active' \in {0, 1}
      /\ w_active' = 1 => r_active' = 0
  BY DEF Bit, IInv, TypeOK
<1>3. TypeOK'
  BY <1>1, <1>2 DEF IInv, TypeOK, Go, Hold, Labels
<1>4. LabelsFit'
  BY DEF IInv, LabelsFit, TypeOK, Go, Hold
<1>5. /\ Cardinality(Who(held', {"read"})) = r_active'
      /\ Cardinality(Who(held', {"write"})) = w_active'
  BY ActivesAfterHold DEF Bit, IInv, TypeOK
<1>6. /\ Cardinality(Who(pc', ReadWaits)) = r_wait'
      /\ Cardinality(Who(pc', WriteWaits)) = w_wait'
  BY WaitsAfterGo DEF Bit, ReadWaits, WriteWaits, IInv, TypeOK
<1> QED BY <1>2, <1>3, <1>4, <1>5, <1>6, InvFromCounts

(* The steps in which a thread gives the lock back and wakes others. *)
LEMMA ReleasingKeeps ==
    ASSUME IInv, NEW t \in Threads, NEW mode \in {"read", "write"},
           pc[t] \in {"readunlock", "writeunlock"}, held[t] = mode, Hold(t, "no"),
           \/ SignalWrite(t)
           \/ pc' = [u \in Threads |-> IF u = t THEN "idle"
                                       ELSE IF pc[u] = "r.sleep" THEN "r.woken" ELSE pc[u]]
           \/ Go(t, "idle"),
           UNCHANGED <<r_wait, w_wait, valid>>,
           r_active' = r_active - Bit(mode, {"read"}),
           w_active' = w_active - Bit(mode, {"write"})
    PROVE  IInv'
<1>1. /\ pc' \in [Threads -> Labels]
      /\ Cardinality(Who(pc', ReadWaits)) = r_wait
      /\ Cardinality(Who(pc', WriteWaits)) = w_wait
      /\ \A u \in Threads : pc'[u] # pc[u] =>
            \/ u = t /\ pc'[u] = "idle"
            \/ pc[u] = "r.sleep" /\ pc'[u] = "r.woken"
            \/ pc[u] = "w.sleep" /\ pc'[u] = "w.woken"
  BY WakingCounts DEF IInv, Calls
<1>2. pc'[t] = "idle"
  BY DEF SignalWrite, Go, At, IInv, TypeOK
<1>3. /\ r_active' \in Nat /\ w_active' \in {0, 1}
      /\ w_active' = 1 => r_active' = 0
  BY HoldersCounted DEF Bit, IInv, TypeOK
<1>4. TypeOK'
  BY <1>1, <1>3 DEF IInv, TypeOK, Hold
<1>5. LabelsFit'
  BY <1>1, <1>2 DEF IInv, LabelsFit, TypeOK, Hold
<1>6. /\ Cardinality(Who(held', {"read"})) = r_active'
      /\ Cardinality(Who(held', {"write"})) = w_active'
  BY ActivesAfterHold DEF Bit, IInv, TypeOK
<1> QED BY <1>1, <1>3, <1>4, <1>5, <1>6, InvFromCounts
--------------------------------------------------------------------------------
\* The initial state satisfies the strengthening.
THEOREM InitInv == Init => IInv
<1> SUFFICES ASSUME Init PROVE IInv
  OBVIOUS
<1>1. TypeOK /\ LabelsFit
  BY DEF Init, TypeOK, LabelsFit, Labels
<1>2. /\ Who(held, {"read"}) = {} /\ Who(held, {"write"}) = {}
      /\ Who(pc, ReadWaits) = {} /\ Who(pc, WriteWaits) = {}
  BY DEF Init, Who, ReadWaits, WriteWaits
<1>3. CountersExact
  BY <1>2, FS_EmptySet, CountersAreCounts DEF Init
<1> QED BY <1>1, <1>3 DEF IInv, Init

(* Every step keeps the invariant: one case per action. *)
THEOREM StepInv == IInv /\ [Next]_vars => IInv'
<1> SUFFICES ASSUME IInv, [Next]_vars PROVE IInv'
  OBVIOUS
<1>1. TypeOK /\ LabelsFit
  BY DEF IInv
<1>2. CASE UNCHANGED vars
  <2>1. IInv' = IInv
    BY <1>2 DEF vars, IInv, TypeOK, CountersExact, LabelsFit, Holders
  <2> QED BY <2>1
<1>3. ASSUME NEW t \in Threads, Call(t) \/ Step(t) \/ SpuriousWakeup(t) \/ Cancel(t)
      PROVE  IInv'
  <2>1. CASE Call(t)
    BY <2>1, CallKeeps
  <2>2. CASE ReadLock(t)
    <3>1. pc[t] = "readlock" /\ held[t] = "no" /\ UNCHANGED <<w_active, w_wait, valid>>
      BY <1>1, <2>2 DEF ReadLock, LabelsFit
    <3>2. CASE /\ r_wait' = r_wait + 1
               /\ Go(t, "r.sleep")
               /\ UNCHANGED <<r_active, held>>
      BY <1>1, <3>1, <3>2, WaitingKeeps DEF Bit, ReadWaits, WriteWaits, TypeOK
    <3>3. CASE /\ w_active = 0 /\ r_active' = r_active + 1
               /\ Hold(t, "read") /\ Go(t, "idle")
               /\ UNCHANGED r_wait
      BY <1>1, <3>1, <3>3, AcquiringKeeps DEF Bit, ReadWaits, WriteWaits, TypeOK
    <3> QED BY <2>2, <3>2, <3>3 DEF ReadLock
  <2>3. CASE ReadWake(t)
    <3>1. pc[t] = "r.woken" /\ held[t] = "no" /\ UNCHANGED <<w_active, w_wait, valid>>
      BY <1>1, <2>3 DEF ReadWake, LabelsFit
    <3>2. CASE Go(t, "r.sleep") /\ UNCHANGED <<r_active, r_wait, held>>
      BY <1>1, <3>1, <3>2, WaitingKeeps DEF Bit, ReadWaits, WriteWaits, TypeOK
    <3>3. CASE /\ w_active = 0 /\ r_wait' = r_wait - 1 /\ r_active' = r_active + 1
               /\ Hold(t, "read") /\ Go(t, "idle")
      BY <1>1, <3>1, <3>3, AcquiringKeeps DEF Bit, ReadWaits, WriteWaits, TypeOK
    <3> QED BY <2>3, <3>2, <3>3 DEF ReadWake
  <2>4. CASE ReadTryLock(t)
    <3>1. /\ pc[t] = "readtrylock" /\ held[t] = "no" /\ Go(t, "idle")
          /\ UNCHANGED <<w_active, r_wait, w_wait, valid>>
      BY <1>1, <2>4 DEF ReadTryLock, LabelsFit
    <3>2. CASE UNCHANGED <<r_active, held>>
      BY <1>1, <3>1, <3>2, WaitingKeeps DEF Bit, ReadWaits, WriteWaits, TypeOK
    <3>3. CASE w_active = 0 /\ r_active' = r_active + 1 /\ Hold(t, "read")
      BY <1>1, <3>1, <3>3, AcquiringKeeps DEF Bit, ReadWaits, WriteWaits, TypeOK
    <3> QED BY <1>1, <2>4, <3>2, <3>3 DEF ReadTryLock, TypeOK
  <2>5. CASE ReadUnlock(t)
    <3>1. /\ pc[t] = "readunlock" /\ held[t] = "read" /\ Hold(t, "no")
          /\ r_active' = r_active - 1
          /\ SignalWrite(t) \/ Go(t, "idle")
          /\ UNCHANGED <<w_active, r_wait, w_wait, valid>>
      BY <1>1, <2>5 DEF ReadUnlock, LabelsFit
    <3> QED BY <1>1, <3>1, ReleasingKeeps DEF Bit, TypeOK
  <2>6. CASE WriteLock(t)
    <3>1. pc[t] = "writelock" /\ held[t] = "no" /\ UNCHANGED <<r_active, r_wait, valid>>
      BY <1>1, <2>6 DEF WriteLock, LabelsFit
    <3>2. CASE /\ w_wait' = w_wait + 1
               /\ Go(t, "w.sleep")
               /\ UNCHANGED <<w_active, held>>
      BY <1>1, <3>1, <3>2, WaitingKeeps DEF Bit, ReadWaits, WriteWaits, TypeOK
    <3>3. CASE /\ w_active = 0 /\ r_active = 0 /\ w_active' = 1
               /\ Hold(t, "write") /\ Go(t, "idle")
               /\ UNCHANGED w_wait
      BY <1>1, <3>1, <3>3, AcquiringKeeps DEF Bit, ReadWaits, WriteWaits, TypeOK
    <3> QED BY <2>6, <3>2, <3>3 DEF WriteLock
  <2>7. CASE WriteWake(t)
    <3>1. pc[t] = "w.woken" /\ held[t] = "no" /\ UNCHANGED <<r_active, r_wait, valid>>
      BY <1>1, <2>7 DEF WriteWake, LabelsFit
    <3>2. CASE Go(t, "w.sleep") /\ UNCHANGED <<w_active, w_wait, held>>
      BY <1>1, <3>1, <3>2, WaitingKeeps DEF Bit, ReadWaits, WriteWaits, TypeOK
    <3>3. CASE /\ w_active = 0 /\ r_active = 0 /\ w_wait' = w_wait - 1 /\ w_active' = 1
               /\ Hold(t, "write") /\ Go(t, "idle")
      BY <1>1, <3>1, <3>3, AcquiringKeeps DEF Bit, ReadWaits, WriteWaits, TypeOK
    <3> QED BY <2>7, <3>2, <3>3 DEF WriteWake
  <2>8. CASE WriteTryLock(t)
    <3>1. /\ pc[t] = "writetrylock" /\ held[t] = "no" /\ Go(t, "idle")
          /\ UNCHANGED <<r_active, r_wait, w_wait, valid>>
      BY <1>1, <2>8 DEF WriteTryLock, LabelsFit
    <3>2. CASE UNCHANGED <<w_active, held>>
      BY <1>1, <3>1, <3>2, WaitingKeeps DEF Bit, ReadWaits, WriteWaits, TypeOK
    <3>3. CASE w_active = 0 /\ r_active = 0 /\ w_active' = 1 /\ Hold(t, "write")
      BY <1>1, <3>1, <3>3, AcquiringKeeps DEF Bit, ReadWaits, WriteWaits, TypeOK
    <3> QED BY <1>1, <2>8, <3>2, <3>3 DEF WriteTryLock, TypeOK
  <2>9. CASE WriteUnlock(t)
    <3>1. /\ pc[t] = "writeunlock" /\ held[t] = "write" /\ Hold(t, "no")
          /\ w_active = 1 /\ w_active' = w_active - 1
          /\ \/ SignalWrite(t)
             \/ pc' = [u \in Threads |-> IF u = t THEN "idle"
                                         ELSE IF pc[u] = "r.sleep" THEN "r.woken" ELSE pc[u]]
             \/ Go(t, "idle")
          /\ UNCHANGED <<r_active, r_wait, w_wait, valid>>
      BY <1>1, <2>9, HoldersCounted DEF WriteUnlock, LabelsFit
    <3> QED BY <1>1, <3>1, ReleasingKeeps DEF Bit, TypeOK
  <2>10. CASE ReadCleanup(t)
    <3>1. held[t] = "no"
      BY <1>1, <2>10 DEF ReadCleanup, LabelsFit
    <3> QED BY <1>1, <2>10, <3>1, WaitingKeeps DEF ReadCleanup, Bit, ReadWaits, WriteWaits, TypeOK
  <2>11. CASE WriteCleanup(t)
    <3>1. held[t] = "no"
      BY <1>1, <2>11 DEF WriteCleanup, LabelsFit
    <3> QED BY <1>1, <2>11, <3>1, WaitingKeeps DEF WriteCleanup, Bit, ReadWaits, WriteWaits, TypeOK
  <2>12. CASE Destroy(t)
    <3>1. held[t] = "no"
      BY <1>1, <2>12 DEF Destroy, LabelsFit
    <3> QED BY <1>1, <2>12, <3>1, WaitingKeeps DEF Destroy, Bit, ReadWaits, WriteWaits, TypeOK
  <2>13. CASE SpuriousWakeup(t)
    <3>1. held[t] = "no"
      BY <1>1, <2>13 DEF SpuriousWakeup, LabelsFit
    <3> QED BY <1>1, <2>13, <3>1, WaitingKeeps DEF SpuriousWakeup, Bit, ReadWaits, WriteWaits, TypeOK
  <2>14. CASE Cancel(t)
    <3>1. held[t] = "no"
      BY <1>1, <2>14 DEF Cancel, LabelsFit
    <3> QED BY <1>1, <2>14, <3>1, WaitingKeeps DEF Cancel, Bit, ReadWaits, WriteWaits, TypeOK
  <2> QED BY <1>3, <2>1, <2>2, <2>3, <2>4, <2>5, <2>6, <2>7, <2>8, <2>9, <2>10, <2>11,
             <2>12, <2>13, <2>14 DEF Step
<1> QED BY <1>2, <1>3 DEF Next

\* IInv, on which the other theorems rest, holds in every state of rwlock.c.
THEOREM InductiveInvariant == Spec => []IInv
BY InitInv, StepInv, PTL DEF Spec

(* The counters, labels and what threads hold keep their types. *)
THEOREM TypeCorrect == Spec => []TypeOK
BY InductiveInvariant, PTL DEF IInv

(* The four counters count the threads that hold the lock or wait for it,    *)
(* also while cancelled ones are on their way out.                           *)
THEOREM CountersCorrect == Spec => []CountersExact
BY InductiveInvariant, PTL DEF IInv

(* A thread with the lock for writing is alone with it. *)
LEMMA InvExclusion == IInv => Exclusion
<1> SUFFICES ASSUME IInv, NEW t \in Threads, NEW u \in Threads, held[t] = "write", t /= u
             PROVE  held[u] = "no"
  BY DEF Exclusion
<1>1. w_active = 1 /\ r_active = 0 /\ held[u] \in {"no", "read", "write"}
  BY HoldersCounted DEF IInv, TypeOK
<1>2. held[u] /= "read"
  BY <1>1, HoldersCounted
<1>3. held[u] /= "write"
  <2> SUFFICES ASSUME held[u] = "write" PROVE FALSE
    OBVIOUS
  <2> DEFINE S == Who(held, {"write"})
  <2>1. Cardinality(S) = 1 /\ S \in SUBSET Threads
    BY <1>1, CountersAreCounts DEF IInv, Who
  <2>2. t \in S /\ u \in S \ {t}
    BY DEF Who
  <2>3. IsFiniteSet(S)
    BY <2>1, ThreadsFinite, FS_Subset
  <2> HIDE DEF S
  <2>4. \E x : S = {x}
    BY <2>1, <2>3, FS_Singleton
  <2> QED BY <2>2, <2>4
<1> QED BY <1>1, <1>2, <1>3

\* While a writer has the lock nobody else has it (rwlock.c): w_active and
\* r_active exclude each other, and the counters are exact.
THEOREM ExclusionCorrect == Spec => []Exclusion
BY InductiveInvariant, InvExclusion, PTL

(* While somebody may read or write, the counters show what nobody holds. *)
LEMMA NobodyHolds ==
    ASSUME IInv
    PROVE  /\ w_active = 0 => \A t \in Threads : held[t] /= "write"
           /\ w_active = 0 /\ r_active = 0 => \A t \in Threads : held[t] = "no"
BY HoldersCounted DEF IInv, TypeOK

(* Every step of the lock is a step of the abstract lock or changes nothing  *)
(* of what threads hold.                                                     *)
LEMMA StepImplements ==
    ASSUME IInv, [Next]_vars
    PROVE  [A!Next]_held
<1>1. TypeOK /\ LabelsFit
  BY DEF IInv
<1>2. CASE UNCHANGED vars
  BY <1>2 DEF vars
<1>3. ASSUME NEW t \in Threads, Call(t) \/ Step(t) \/ SpuriousWakeup(t) \/ Cancel(t),
             held' /= held
      PROVE  A!AcquireRead(t) \/ A!AcquireWrite(t) \/ A!Release(t)
  <2>1. CASE ReadLock(t)
    BY <1>1, <1>3, <2>1, NobodyHolds DEF ReadLock, LabelsFit, Hold, A!AcquireRead
  <2>2. CASE ReadWake(t)
    BY <1>1, <1>3, <2>2, NobodyHolds DEF ReadWake, LabelsFit, Hold, A!AcquireRead
  <2>3. CASE ReadTryLock(t)
    BY <1>1, <1>3, <2>3, NobodyHolds DEF ReadTryLock, LabelsFit, TypeOK, Hold, A!AcquireRead
  <2>4. CASE ReadUnlock(t)
    BY <1>1, <1>3, <2>4 DEF ReadUnlock, LabelsFit, Hold, A!Release
  <2>5. CASE WriteLock(t)
    BY <1>1, <1>3, <2>5, NobodyHolds DEF WriteLock, Hold, A!AcquireWrite
  <2>6. CASE WriteWake(t)
    BY <1>1, <1>3, <2>6, NobodyHolds DEF WriteWake, Hold, A!AcquireWrite
  <2>7. CASE WriteTryLock(t)
    BY <1>1, <1>3, <2>7, NobodyHolds DEF WriteTryLock, TypeOK, Hold, A!AcquireWrite
  <2>8. CASE WriteUnlock(t)
    BY <1>1, <1>3, <2>8 DEF WriteUnlock, LabelsFit, Hold, A!Release
  <2> QED
    BY <1>3, <2>1, <2>2, <2>3, <2>4, <2>5, <2>6, <2>7, <2>8
    DEF Step, Call, ReadCleanup, WriteCleanup, Destroy, SpuriousWakeup, Cancel
<1> QED BY <1>2, <1>3 DEF Next, A!Next

(* The read-write lock implements AbstractRWLock. *)
THEOREM Implementation == Spec => ImplementsRWLock
<1>1. Init => A!Init
  BY DEF Init, A!Init
<1>2. IInv /\ [Next]_vars => [A!Next]_held
  BY StepImplements
<1> QED BY <1>1, <1>2, InductiveInvariant, PTL DEF Spec, A!Spec, ImplementsRWLock
--------------------------------------------------------------------------------
(* The wait counters also say that somebody is there to be woken. *)
LEMMA WaitersThere ==
    ASSUME IInv
    PROVE  /\ r_wait > 0 <=> \E t \in Threads : pc[t] \in ReadWaits
           /\ w_wait > 0 <=> \E t \in Threads : pc[t] \in WriteWaits
<1>1. /\ r_wait = Cardinality(Who(pc, ReadWaits)) /\ r_wait \in Nat
      /\ w_wait = Cardinality(Who(pc, WriteWaits)) /\ w_wait \in Nat
  BY CountersAreCounts DEF IInv, TypeOK
<1>2. IsFiniteSet(Who(pc, ReadWaits)) /\ IsFiniteSet(Who(pc, WriteWaits))
  BY ThreadsFinite, FS_Subset DEF Who
<1>3. /\ r_wait = 0 <=> Who(pc, ReadWaits) = {}
      /\ w_wait = 0 <=> Who(pc, WriteWaits) = {}
  BY <1>1, <1>2, FS_EmptySet
<1> QED BY <1>1, <1>3 DEF Who

(* NoLostWakeup is inductive together with IInv: the lock becomes free only   *)
(* in the two unlock functions, and they wake somebody who waits, unless all *)
(* that waits are readers on their way out.                                  *)
LEMMA StepWakes ==
    ASSUME IInv, NoLostWakeup, [Next]_vars
    PROVE  NoLostWakeup'
<1> USE DEF NoLostWakeup, ReaderWasCancelled, At
<1>1. TypeOK /\ TypeOK'
  BY StepInv DEF IInv
<1>2. CASE UNCHANGED vars
  BY <1>2 DEF vars
<1>3. ASSUME NEW t \in Threads, Call(t) \/ Step(t) \/ SpuriousWakeup(t) \/ Cancel(t)
      PROVE  NoLostWakeup'
  <2>1. CASE Call(t)
    BY <1>1, <2>1 DEF Call, MayCall, Calls, Go, TypeOK
  <2>2. CASE ReadLock(t)
    BY <1>1, <2>2 DEF ReadLock, Go, TypeOK
  <2>3. CASE ReadWake(t)
    BY <1>1, <2>3 DEF ReadWake, Go, TypeOK
  <2>4. CASE ReadTryLock(t)
    BY <1>1, <2>4 DEF ReadTryLock, Go, TypeOK
  <2>5. CASE ReadUnlock(t)
    BY <1>1, <2>5, WaitersThere DEF ReadUnlock, SignalWrite, Go, TypeOK, WriteWaits
  <2>6. CASE WriteLock(t)
    BY <1>1, <2>6 DEF WriteLock, Go, TypeOK
  <2>7. CASE WriteWake(t)
    BY <1>1, <2>7 DEF WriteWake, Go, TypeOK
  <2>8. CASE WriteTryLock(t)
    BY <1>1, <2>8 DEF WriteTryLock, Go, TypeOK
  <2>9. CASE WriteUnlock(t)
    BY <1>1, <2>9, WaitersThere DEF WriteUnlock, SignalWrite, Go, TypeOK, ReadWaits, WriteWaits
  <2>10. CASE ReadCleanup(t)
    BY <1>1, <2>10 DEF ReadCleanup, Go, TypeOK
  <2>11. CASE WriteCleanup(t)
    BY <1>1, <2>11 DEF WriteCleanup, Go, TypeOK
  <2>12. CASE Destroy(t)
    BY <1>1, <2>12 DEF Destroy, Go, TypeOK
  <2>13. CASE SpuriousWakeup(t)
    BY <1>1, <2>13 DEF SpuriousWakeup, Go, TypeOK
  <2>14. CASE Cancel(t)
    BY <1>1, <2>14 DEF Cancel, Go, TypeOK
  <2> QED BY <1>3, <2>1, <2>2, <2>3, <2>4, <2>5, <2>6, <2>7, <2>8, <2>9, <2>10, <2>11,
             <2>12, <2>13, <2>14 DEF Step
<1> QED BY <1>2, <1>3 DEF Next

(* Nobody sleeps without somebody who will wake it. *)
THEOREM WakeupsCorrect == Spec => []NoLostWakeup
<1>1. Init => NoLostWakeup
  BY DEF Init, NoLostWakeup, At
<1>2. IInv /\ NoLostWakeup /\ [Next]_vars => NoLostWakeup'
  BY StepWakes
<1> QED BY <1>1, <1>2, InductiveInvariant, PTL DEF Spec
================================================================================
