---------------------------- MODULE AbstractRWLock ----------------------------
(* What a read-write lock promises (s7/mt/rwlock.c 6-8): a thread locks      *)
(* shared data either for shared read access or for exclusive write access.  *)
(* There are no counters, no waiting and no cancellation here; RWLock        *)
(* implements this specification.                                            *)
CONSTANT Threads

VARIABLE held       \* what each thread holds: "no", "read" or "write"

Init == held = [t \in Threads |-> "no"]

AcquireRead(t) ==
    /\ held[t] = "no"
    /\ \A u \in Threads : held[u] /= "write"
    /\ held' = [held EXCEPT ![t] = "read"]

AcquireWrite(t) ==
    /\ \A u \in Threads : held[u] = "no"
    /\ held' = [held EXCEPT ![t] = "write"]

Release(t) ==
    /\ held[t] /= "no"
    /\ held' = [held EXCEPT ![t] = "no"]

Next == \E t \in Threads : AcquireRead(t) \/ AcquireWrite(t) \/ Release(t)

Spec == Init /\ [][Next]_held
===============================================================================
