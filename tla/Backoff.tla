-------------------------------- MODULE Backoff --------------------------------
(* s7/mt/backoff.c: two threads lock the same mutexes in opposite orders.    *)
(* Each locks its first mutex and tries the others; when it finds one busy   *)
(* it unlocks on the way back and starts again.                              *)
(*                                                                           *)
(* The way back begins at the mutex that was busy, which the thread does not *)
(* hold.  Unlocking a mutex of another thread is undefined; a default mutex  *)
(* on Linux is then simply free, and that is what Unlock does.               *)
EXTENDS Integers, FiniteSets

CONSTANTS Last          \* the mutexes are 0 .. Last

Lockers == {"forward", "backward"}

VARIABLES busy,     \* the mutexes that are locked
          i,        \* the loop variable of each thread, as a distance from its first mutex
          mine,     \* the mutexes each thread locked and has not unlocked since
          pc        \* "lock", "back" (backing off) or "got" (has got them all)

vars == <<busy, i, mine, pc>>

(* &mutex[i] for each of the two threads. *)
Mutex(t) == IF t = "forward" THEN i[t] ELSE Last - i[t]

Lock(t) ==
    /\ busy' = busy \cup {Mutex(t)}
    /\ mine' = [mine EXCEPT ![t] = @ \cup {Mutex(t)}]

Unlock(t) ==
    /\ busy' = busy \ {Mutex(t)}
    /\ mine' = [mine EXCEPT ![t] = @ \ {Mutex(t)}]
--------------------------------------------------------------------------------
Init ==
    /\ busy = {}
    /\ i = [t \in Lockers |-> 0]
    /\ mine = [t \in Lockers |-> {}]
    /\ pc = [t \in Lockers |-> "lock"]

LockFirst(t) ==
    /\ pc[t] = "lock" /\ i[t] = 0
    /\ Mutex(t) \notin busy
    /\ Lock(t)
    /\ i' = [i EXCEPT ![t] = 1]
    /\ UNCHANGED pc

(* The mutex is locked, and with the last one the thread has got them all. *)
TryLock(t) ==
    /\ pc[t] = "lock" /\ i[t] > 0
    /\ Mutex(t) \notin busy
    /\ Lock(t)
    /\ IF i[t] < Last
       THEN i' = [i EXCEPT ![t] = @ + 1] /\ UNCHANGED pc
       ELSE pc' = [pc EXCEPT ![t] = "got"] /\ UNCHANGED i

Busy(t) ==
    /\ pc[t] = "lock" /\ i[t] > 0
    /\ Mutex(t) \in busy
    /\ pc' = [pc EXCEPT ![t] = "back"]
    /\ UNCHANGED <<busy, i, mine>>

(* A mutant of Release: the loop that unlocks ends before the first mutex. *)
MReleaseNotFirst(t) ==
    /\ pc[t] \in {"back", "got"}
    /\ Unlock(t)
    /\ IF i[t] > 1
       THEN i' = [i EXCEPT ![t] = @ - 1] /\ UNCHANGED pc
       ELSE i' = [i EXCEPT ![t] = 0] /\ pc' = [pc EXCEPT ![t] = "lock"]

(* One step back, from a busy mutex or after all were got.  The loop leaves i *)
(* one before the first mutex, and the outer loop goes on from there.         *)
Release(t) ==
    /\ pc[t] \in {"back", "got"}
    /\ Unlock(t)
    /\ IF i[t] > 0
       THEN i' = [i EXCEPT ![t] = @ - 1] /\ pc' = [pc EXCEPT ![t] = "back"]
       ELSE pc' = [pc EXCEPT ![t] = "lock"] /\ UNCHANGED i

Step(t) == LockFirst(t) \/ TryLock(t) \/ Busy(t) \/ Release(t)

Next == \E t \in Lockers : Step(t)

Spec == Init /\ [][Next]_vars
--------------------------------------------------------------------------------
TypeOK ==
    /\ busy \subseteq 0..Last
    /\ i \in [Lockers -> 0..Last]
    /\ mine \in [Lockers -> SUBSET (0..Last)]
    /\ pc \in [Lockers -> {"lock", "back", "got"}]

(* A thread waits for a mutex only when it has none itself, and no mutex stays  *)
(* locked with nobody to unlock it, in spite of the unlocking of mutexes that  *)
(* are not one's own (backoff.c 45, 56): hence there is no deadlock.           *)
WaitsEmptyHanded ==
    /\ \A t \in Lockers : pc[t] = "lock" /\ i[t] = 0 => mine[t] = {}
    /\ busy \subseteq UNION {mine[t] : t \in Lockers}

================================================================================
