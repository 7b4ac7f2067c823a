---------------------------- MODULE AbstractPool ----------------------------
(* What bbt::ServicePool promises its callers (include/servicepool.h 8-18):  *)
(* a first-in first-out store of services.  A service is either in the store *)
(* or lent, never both, never twice; Acquire hands out the one that has been *)
(* in the store longest and is not possible while the store is empty.        *)
(* There are no mutexes, no condition variables and no threads here: this is *)
(* the specification that ServicePool implements.                            *)
EXTENDS Sequences, Functions

CONSTANT Services

VARIABLES free, lent

vars == <<free, lent>>

Init ==
    /\ free \in Seq(Services)
    /\ IsInjective(free)
    /\ Range(free) = Services
    /\ lent = {}

Acquire ==
    /\ free /= <<>>
    /\ free' = Tail(free)
    /\ lent' = lent \cup {Head(free)}

Release(svc) ==
    /\ svc \in lent
    /\ free' = Append(free, svc)
    /\ lent' = lent \ {svc}

Next == Acquire \/ \E svc \in Services : Release(svc)

Spec == Init /\ [][Next]_vars
=============================================================================
