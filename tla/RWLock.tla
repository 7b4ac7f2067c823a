-------------------------------- MODULE RWLock --------------------------------
(* The read-write lock of s7/mt/rwlock.c, with every function of it and with *)
(* cancellation of threads that wait inside it.                              *)
(*                                                                           *)
(* All fields but "valid" are only touched with the mutex of the lock held,  *)
(* and the mutex is given up only in pthread_cond_wait, so a function is one *)
(* step from pthread_mutex_lock to the wait or to the unlock.  The labels of *)
(* pc are the points where other threads get in between:                     *)
(*   readlock ... destroy    past the test of "valid", at the mutex          *)
(*   r.sleep, w.sleep        in pthread_cond_wait                            *)
(*   r.woken, w.woken        woken, at the mutex again                       *)
(*   r.cancel, w.cancel      cancelled, at the mutex, cleanup handler next   *)
(*   r.gone, w.gone          the thread has ended by its cancellation        *)
(* pthread calls are taken to succeed: their error paths leave the function  *)
(* with the status and have no other effect on the lock.                     *)
EXTENDS Integers, FiniteSets

CONSTANTS Threads,
          Cancellable   \* the threads that some other thread may cancel

ASSUME ThreadsFinite == IsFiniteSet(Threads)
ASSUME CancellableThreads == Cancellable \subseteq Threads

VARIABLES r_active, w_active, r_wait, w_wait, valid,
          pc,
          held      \* what the caller holds, by the return values it got

vars == <<r_active, w_active, r_wait, w_wait, valid, pc, held>>

Calls == {"readlock", "readtrylock", "readunlock", "writelock",
          "writetrylock", "writeunlock", "destroy"}
ReadWaits == {"r.sleep", "r.woken", "r.cancel"}
WriteWaits == {"w.sleep", "w.woken", "w.cancel"}
Labels == {"idle", "r.gone", "w.gone"} \cup Calls \cup ReadWaits \cup WriteWaits

At(label) == {t \in Threads : pc[t] = label}
Holders(mode) == {t \in Threads : held[t] = mode}

Go(t, label) == pc' = [pc EXCEPT ![t] = label]
Hold(t, mode) == held' = [held EXCEPT ![t] = mode]
-------------------------------------------------------------------------------
(* rwl_init *)
Init ==
    /\ r_active = 0 /\ w_active = 0
    /\ r_wait = 0 /\ w_wait = 0
    /\ valid = TRUE
    /\ pc = [t \in Threads |-> "idle"]
    /\ held = [t \in Threads |-> "no"]

(* What a thread may call: it unlocks what it holds, and asks for a lock only *)
(* when it has none.                                                          *)
MayCall(t) ==
    CASE held[t] = "read" -> {"readunlock"}
      [] held[t] = "write" -> {"writeunlock"}
      [] OTHER -> Calls \ {"readunlock", "writeunlock"}

(* The first lines of each function: a lock that is not valid gives EINVAL    *)
(* and nothing happens.  Nobody begins a call while the lock is being         *)
(* destroyed, nor destroys it while a call is at the mutex for the first      *)
(* time: the mutex goes with the lock.                                        *)
Call(t) ==
    /\ pc[t] = "idle"
    /\ valid
    /\ At("destroy") = {}
    /\ \E fun \in MayCall(t) :
          /\ fun = "destroy" => \A u \in Threads : pc[u] \notin Calls
          /\ Go(t, fun)
    /\ UNCHANGED <<r_active, w_active, r_wait, w_wait, valid, held>>

ReadLock(t) ==
    /\ pc[t] = "readlock"
    /\ \/ /\ w_active > 0
          /\ r_wait' = r_wait + 1
          /\ Go(t, "r.sleep")
          /\ UNCHANGED <<r_active, held>>
       \/ /\ w_active = 0
          /\ r_active' = r_active + 1
          /\ Hold(t, "read")
          /\ Go(t, "idle")
          /\ UNCHANGED r_wait
    /\ UNCHANGED <<w_active, w_wait, valid>>

(* A mutant of ReadWake: r_wait-- has moved into the loop. *)
MReadWakeCounts(t) ==
    /\ pc[t] = "r.woken"
    /\ r_wait' = r_wait - 1
    /\ \/ /\ w_active > 0
          /\ Go(t, "r.sleep")
          /\ UNCHANGED <<r_active, held>>
       \/ /\ w_active = 0
          /\ r_active' = r_active + 1
          /\ Hold(t, "read")
          /\ Go(t, "idle")
    /\ UNCHANGED <<w_active, w_wait, valid>>

(* The loop around the wait on the condition "read". *)
ReadWake(t) ==
    /\ pc[t] = "r.woken"
    /\ \/ /\ w_active > 0
          /\ Go(t, "r.sleep")
          /\ UNCHANGED <<r_active, r_wait, held>>
       \/ /\ w_active = 0
          /\ r_wait' = r_wait - 1
          /\ r_active' = r_active + 1
          /\ Hold(t, "read")
          /\ Go(t, "idle")
    /\ UNCHANGED <<w_active, w_wait, valid>>

(* A mutant of ReadTryLock: it looks for readers where it should for a writer. *)
MReadTryLockReaders(t) ==
    /\ pc[t] = "readtrylock"
    /\ Go(t, "idle")
    /\ IF r_active > 0 THEN UNCHANGED <<r_active, held>>
       ELSE r_active' = r_active + 1 /\ Hold(t, "read")
    /\ UNCHANGED <<w_active, r_wait, w_wait, valid>>

ReadTryLock(t) ==
    /\ pc[t] = "readtrylock"
    /\ Go(t, "idle")
    /\ IF w_active > 0 THEN UNCHANGED <<r_active, held>>
       ELSE r_active' = r_active + 1 /\ Hold(t, "read")
    /\ UNCHANGED <<w_active, r_wait, w_wait, valid>>

(* pthread_cond_signal(&write) wakes one of the writers that sleep, if any. *)
SignalWrite(t) ==
    IF At("w.sleep") = {} THEN Go(t, "idle")
    ELSE \E u \in At("w.sleep") : pc' = [pc EXCEPT ![t] = "idle", ![u] = "w.woken"]

(* A mutant of ReadUnlock: no waiting writer is told. *)
MReadUnlockSilent(t) ==
    /\ pc[t] = "readunlock"
    /\ r_active' = r_active - 1
    /\ Hold(t, "no")
    /\ Go(t, "idle")
    /\ UNCHANGED <<w_active, r_wait, w_wait, valid>>

ReadUnlock(t) ==
    /\ pc[t] = "readunlock"
    /\ r_active' = r_active - 1
    /\ Hold(t, "no")
    /\ IF r_active = 1 /\ w_wait > 0 THEN SignalWrite(t) ELSE Go(t, "idle")
    /\ UNCHANGED <<w_active, r_wait, w_wait, valid>>

WriteLock(t) ==
    /\ pc[t] = "writelock"
    /\ \/ /\ w_active > 0 \/ r_active > 0
          /\ w_wait' = w_wait + 1
          /\ Go(t, "w.sleep")
          /\ UNCHANGED <<w_active, held>>
       \/ /\ w_active = 0 /\ r_active = 0
          /\ w_active' = 1
          /\ Hold(t, "write")
          /\ Go(t, "idle")
          /\ UNCHANGED w_wait
    /\ UNCHANGED <<r_active, r_wait, valid>>

(* The loop around the wait on the condition "write". *)
WriteWake(t) ==
    /\ pc[t] = "w.woken"
    /\ \/ /\ w_active > 0 \/ r_active > 0
          /\ Go(t, "w.sleep")
          /\ UNCHANGED <<w_active, w_wait, held>>
       \/ /\ w_active = 0 /\ r_active = 0
          /\ w_wait' = w_wait - 1
          /\ w_active' = 1
          /\ Hold(t, "write")
          /\ Go(t, "idle")
    /\ UNCHANGED <<r_active, r_wait, valid>>

WriteTryLock(t) ==
    /\ pc[t] = "writetrylock"
    /\ Go(t, "idle")
    /\ IF w_active > 0 \/ r_active > 0 THEN UNCHANGED <<w_active, held>>
       ELSE w_active' = 1 /\ Hold(t, "write")
    /\ UNCHANGED <<r_active, r_wait, w_wait, valid>>

(* A mutant of WriteUnlock: writers are preferred and the readers forgotten. *)
MWriteUnlockOne(t) ==
    /\ pc[t] = "writeunlock"
    /\ w_active' = 0
    /\ Hold(t, "no")
    /\ IF w_wait > 0 THEN SignalWrite(t)
       ELSE pc' = [u \in Threads |-> IF u = t THEN "idle"
                                     ELSE IF pc[u] = "r.sleep" THEN "r.woken" ELSE pc[u]]
    /\ UNCHANGED <<r_active, r_wait, w_wait, valid>>

(* Readers are preferred: all of them are woken, or else one writer. *)
WriteUnlock(t) ==
    /\ pc[t] = "writeunlock"
    /\ w_active' = 0
    /\ Hold(t, "no")
    /\ IF r_wait > 0
       THEN pc' = [u \in Threads |-> IF u = t THEN "idle"
                                     ELSE IF pc[u] = "r.sleep" THEN "r.woken" ELSE pc[u]]
       ELSE IF w_wait > 0 THEN SignalWrite(t) ELSE Go(t, "idle")
    /\ UNCHANGED <<r_active, r_wait, w_wait, valid>>

SpuriousWakeup(t) ==
    /\ \/ pc[t] = "r.sleep" /\ Go(t, "r.woken")
       \/ pc[t] = "w.sleep" /\ Go(t, "w.woken")
    /\ UNCHANGED <<r_active, w_active, r_wait, w_wait, valid, held>>

(* pthread_cancel of a thread that sleeps: it ends the wait, without taking a *)
(* signal from the other waiters, and needs the mutex for its cleanup.        *)
Cancel(t) ==
    /\ t \in Cancellable
    /\ \/ pc[t] = "r.sleep" /\ Go(t, "r.cancel")
       \/ pc[t] = "w.sleep" /\ Go(t, "w.cancel")
    /\ UNCHANGED <<r_active, w_active, r_wait, w_wait, valid, held>>

(* A mutant of ReadCleanup: the cleanup only unlocks. *)
MReadCleanupUncounted(t) ==
    /\ pc[t] = "r.cancel"
    /\ Go(t, "r.gone")
    /\ UNCHANGED <<r_active, w_active, r_wait, w_wait, valid, held>>

ReadCleanup(t) ==
    /\ pc[t] = "r.cancel"
    /\ r_wait' = r_wait - 1
    /\ Go(t, "r.gone")
    /\ UNCHANGED <<r_active, w_active, w_wait, valid, held>>

WriteCleanup(t) ==
    /\ pc[t] = "w.cancel"
    /\ w_wait' = w_wait - 1
    /\ Go(t, "w.gone")
    /\ UNCHANGED <<r_active, w_active, r_wait, valid, held>>

(* rwl_destroy: EBUSY while the lock is owned or waited for. *)
Destroy(t) ==
    /\ pc[t] = "destroy"
    /\ Go(t, "idle")
    /\ valid' = (r_active > 0 \/ w_active > 0 \/ r_wait /= 0 \/ w_wait /= 0)
    /\ UNCHANGED <<r_active, w_active, r_wait, w_wait, held>>

(* What a thread does once it is in a function, up to the function's end. *)
Step(t) ==
    \/ ReadLock(t) \/ ReadWake(t) \/ ReadTryLock(t) \/ ReadUnlock(t)
    \/ WriteLock(t) \/ WriteWake(t) \/ WriteTryLock(t) \/ WriteUnlock(t)
    \/ ReadCleanup(t) \/ WriteCleanup(t) \/ Destroy(t)

Next == \E t \in Threads : Call(t) \/ Step(t) \/ SpuriousWakeup(t) \/ Cancel(t)

Spec == Init /\ [][Next]_vars

(* Threads run, and what they hold they give back some day.  Nothing makes a *)
(* thread ask for the lock, cancels it or wakes it without a signal.         *)
Return(t) == held[t] /= "no" /\ Call(t)

Fairness == \A t \in Threads : WF_vars(Step(t)) /\ WF_vars(Return(t))

FairSpec == Spec /\ Fairness
-------------------------------------------------------------------------------
TypeOK ==
    /\ r_active \in Nat /\ r_wait \in Nat /\ w_wait \in Nat
    /\ w_active \in {0, 1}
    /\ valid \in BOOLEAN
    /\ pc \in [Threads -> Labels]
    /\ held \in [Threads -> {"no", "read", "write"}]

(* The counters say who is inside: r_active and w_active the callers that     *)
(* hold the lock (rwlock.c 139, 223), r_wait and w_wait the threads that wait *)
(* or are on their way out of a cancelled wait (110, 194).                    *)
CountersExact ==
    /\ r_active = Cardinality(Holders("read"))
    /\ w_active = Cardinality(Holders("write"))
    /\ r_wait = Cardinality({t \in Threads : pc[t] \in ReadWaits})
    /\ w_wait = Cardinality({t \in Threads : pc[t] \in WriteWaits})

(* A thread that has the lock for writing is alone with it (rwlock.c 6-8).   *)
Exclusion ==
    \A t, u \in Threads : held[t] = "write" /\ t /= u => held[u] = "no"

ReaderWasCancelled == At("r.cancel") \cup At("r.gone") /= {}

(* Nobody sleeps without somebody who will wake it (rwlock.c 178, 261, 267):  *)
(* a reader sleeps only while there is a writer; a writer sleeps only while    *)
(* the lock is held or another waiter is on its way to it.  The second half    *)
(* is lost when a waiting reader is cancelled: its r_wait still counts while   *)
(* it waits for the mutex, rwl_writeunlock broadcasts to the readers alone,    *)
(* and the cleanup handler passes nothing on.                                  *)
NoLostWakeup ==
    /\ At("r.sleep") /= {} => w_active > 0
    /\ At("w.sleep") /= {} => \/ r_active > 0 \/ w_active > 0
                              \/ At("r.woken") \cup At("w.woken") /= {}
                              \/ ReaderWasCancelled

A == INSTANCE AbstractRWLock
(* rwlock.c implements the abstract lock. *)
ImplementsRWLock == A!Spec

(* Whoever waits returns, once threads cease to ask for the lock anew: the   *)
(* code lets writers overtake woken readers and readers overtake writers, so *)
(* that without this a waiter may wait for ever.                              *)
CallsEnd == <>[][\A t \in Threads : held[t] = "no" => ~Call(t)]_vars

WaitersReturn ==
    CallsEnd => \A t \in Threads :
                   pc[t] \in ReadWaits \cup WriteWaits
                   ~> \/ pc[t] \in {"idle", "r.gone", "w.gone"}
                      \/ ReaderWasCancelled
===============================================================================
