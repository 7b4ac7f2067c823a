---------------------------- MODULE SocketService ----------------------------
(* bbt::SocketService and bbt::SocketPort (socketport.cpp): a thread that    *)
(* serves the ports attached to it, and the ports.  The ports of a service   *)
(* form a doubly linked list threaded through the ports themselves; the      *)
(* service thread walks it under the service's recursive mutex, calls the    *)
(* ports back, rebuilds the array it passes to poll() when the list changed, *)
(* and sleeps in poll() until a port is ready, a timer runs out or another   *)
(* thread writes a byte to the pipe iosync.                                  *)
(*                                                                           *)
(* This module is the class: one operator per operation.  PortOwners         *)
(* composes them with threads and callbacks that do whatever the class       *)
(* allows, HTTPServer with the ones of the server.                           *)
(*                                                                           *)
(* The mutex is held over several steps by the service thread only: what     *)
(* another thread does under it (attach, detach) is one step here, taken     *)
(* while the service thread does not hold it.                                *)
EXTENDS Naturals, FiniteSets, Functions

CONSTANTS Services, Ports, Null

ASSUME PortsFinite == IsFiniteSet(Ports)
ASSUME NullIsNone == Null \notin Ports \cup Services

Callbacks == {"pending", "expired", "disconnect"}

VARIABLES
    first, last, count,     \* of each service: its list of ports
    next, prev, service,    \* of each port: its links and its service
    life,       \* of each port object: "none" yet, "live" or "freed"
    timer,      \* of each port: "off", "armed" or "due"
    wake,       \* of each service: is there a byte in iosync?
    rpc,        \* of each service: where its thread is in run()
    locked,     \* of each service: does its thread hold the mutex?
    cur,        \* of each service: the local variable port of run()
    called,     \* of each service: the port whose callback is running
    rebuild,    \* of each service: the local variable reallocate
    timed,      \* of each service: is the local variable timer finite?
    polled,     \* of each service: the ports in its poll array
    lastcount,  \* of each service: the local variable lastcount
    ufd,        \* of each port: the service whose array port->ufd points into
    in, hup     \* of each service: the ports with POLLIN, POLLHUP in revents

list == <<first, last, count, next, prev, service>>
loop == <<rpc, locked, cur, called, rebuild, timed>>
array == <<polled, lastcount, ufd, in, hup>>
svcVars == <<list, loop, array, life, timer, wake>>

\* The ports met when following next from first[s], in the walk of run().
Chain(s) ==
    LET at[n \in 0..Cardinality(Ports)] ==
            IF n = 0 THEN first[s]
            ELSE IF at[n - 1] = Null THEN Null ELSE next[at[n - 1]]
    IN  Range(at) \ {Null}

SvcInit ==
    /\ first = [s \in Services |-> Null]
    /\ last = [s \in Services |-> Null]
    /\ count = [s \in Services |-> 0]
    /\ next = [p \in Ports |-> Null]
    /\ prev = [p \in Ports |-> Null]
    /\ service = [p \in Ports |-> Null]
    /\ life = [p \in Ports |-> "none"]
    /\ timer = [p \in Ports |-> "off"]
    /\ wake = [s \in Services |-> FALSE]
    /\ rpc = [s \in Services |-> "off"]
    /\ locked = [s \in Services |-> FALSE]
    /\ cur = [s \in Services |-> Null]
    /\ called = [s \in Services |-> Null]
    /\ rebuild = [s \in Services |-> FALSE]
    /\ timed = [s \in Services |-> FALSE]
    /\ polled = [s \in Services |-> {}]
    /\ lastcount = [s \in Services |-> 0]
    /\ ufd = [p \in Ports |-> Null]
    /\ in = [s \in Services |-> {}]
    /\ hup = [s \in Services |-> {}]
------------------------------------------------------------------------------
(* SocketService::attach between enterMutex and leaveMutex.  It leaves       *)
(* port->next as it is.                                                      *)
Link(s, p) ==
    /\ next' = IF last[s] = Null THEN next ELSE [next EXCEPT ![last[s]] = p]
    /\ prev' = [prev EXCEPT ![p] = last[s]]
    /\ last' = [last EXCEPT ![s] = p]
    /\ first' = IF first[s] = Null THEN [first EXCEPT ![s] = p] ELSE first
    /\ count' = [count EXCEPT ![s] = @ + 1]
    /\ service' = [service EXCEPT ![p] = s]
    /\ ufd' = [ufd EXCEPT ![p] = Null]

\* Mutant: whoever finds no thread running starts one.
MFirstPort(s) == rpc[s] = "off"

\* attach then starts the thread instead of writing to iosync.
FirstPort(s) == count[s] = 0 /\ rpc[s] = "off"

\* Mutant: the successor keeps its link to the detached port.
MUnlinkPrev(s, p) ==
    /\ next' = IF prev[p] = Null THEN next ELSE [next EXCEPT ![prev[p]] = next[p]]
    /\ first' = IF prev[p] = Null THEN [first EXCEPT ![s] = next[p]] ELSE first
    /\ last' = IF next[p] = Null THEN [last EXCEPT ![s] = prev[p]] ELSE last
    /\ count' = [count EXCEPT ![s] = @ - 1]
    /\ service' = [service EXCEPT ![p] = Null]
    /\ UNCHANGED prev

(* SocketService::detach between enterMutex and leaveMutex. *)
Unlink(s, p) ==
    /\ next' = IF prev[p] = Null THEN next ELSE [next EXCEPT ![prev[p]] = next[p]]
    /\ first' = IF prev[p] = Null THEN [first EXCEPT ![s] = next[p]] ELSE first
    /\ prev' = IF next[p] = Null THEN prev ELSE [prev EXCEPT ![next[p]] = prev[p]]
    /\ last' = IF next[p] = Null THEN [last EXCEPT ![s] = prev[p]] ELSE last
    /\ count' = [count EXCEPT ![s] = @ - 1]
    /\ service' = [service EXCEPT ![p] = Null]

(* SocketService::update with the default flag: one byte to iosync. *)
Update(s) == wake' = [wake EXCEPT ![s] = TRUE]

(* Thread::start on the service: pthread_create unless it runs already.  A   *)
(* thread that is not the only one to start it tests that in an earlier step. *)
StartThread(s) == rpc' = IF rpc[s] = "off" THEN [rpc EXCEPT ![s] = "init"] ELSE rpc

\* Mutant: the port is not detached.
MDestroyAttached(s, p) ==
    /\ life' = [life EXCEPT ![p] = "freed"]
    /\ UNCHANGED <<list, wake>>

(* ~SocketPort run by the thread of service s, which holds the mutex of s.   *)
Destroy(s, p) ==
    /\ life' = [life EXCEPT ![p] = "freed"]
    /\ IF service[p] = Null
         THEN UNCHANGED <<list, wake>>
         ELSE Unlink(s, p) /\ Update(s)
------------------------------------------------------------------------------
(* SocketService::run, one action per stretch between two points where       *)
(* another thread can get in or a callback is made.                          *)

\* Before the loop: forget the poll array.
RunInit(s) ==
    /\ rpc[s] = "init"
    /\ ufd' = [p \in Ports |-> IF p \in Chain(s) THEN Null ELSE ufd[p]]
    /\ rpc' = [rpc EXCEPT ![s] = "drain"]
    /\ UNCHANGED <<list, locked, cur, called, rebuild, timed,
                   polled, lastcount, in, hup, life, timer, wake>>

\* Empty iosync, start with an infinite timeout and nothing to reallocate.
RunDrain(s) ==
    /\ rpc[s] = "drain"
    /\ wake' = [wake EXCEPT ![s] = FALSE]
    /\ timed' = [timed EXCEPT ![s] = FALSE]
    /\ rebuild' = [rebuild EXCEPT ![s] = FALSE]
    /\ rpc' = [rpc EXCEPT ![s] = "lock"]
    /\ UNCHANGED <<list, locked, cur, called, array, life, timer>>

\* Mutant: run() walks the list without its mutex.
MRunUnlocked(s) ==
    /\ rpc[s] = "lock"
    /\ cur' = [cur EXCEPT ![s] = first[s]]
    /\ rpc' = [rpc EXCEPT ![s] = "visit"]
    /\ UNCHANGED <<list, locked, called, rebuild, timed, array, life, timer, wake>>

\* MUTEX_START; port = first;
RunLock(s) ==
    /\ rpc[s] = "lock"
    /\ locked' = [locked EXCEPT ![s] = TRUE]
    /\ cur' = [cur EXCEPT ![s] = first[s]]
    /\ rpc' = [rpc EXCEPT ![s] = "visit"]
    /\ UNCHANGED <<list, called, rebuild, timed, array, life, timer, wake>>

HasHup(s) == ufd[cur[s]] /= Null /\ cur[s] \in hup[ufd[cur[s]]]
HasIn(s) == ufd[cur[s]] /= Null /\ cur[s] \in in[ufd[cur[s]]]

\* Mutant: port = port->next after the callback instead of before it.
MRunHupStays(s) ==
    /\ rpc[s] = "visit" /\ cur[s] /= Null
    /\ HasHup(s)
    /\ Unlink(s, cur[s])
    /\ Update(s)
    /\ rebuild' = [rebuild EXCEPT ![s] = TRUE]
    /\ called' = [called EXCEPT ![s] = cur[s]]
    /\ rpc' = [rpc EXCEPT ![s] = "disconnect"]
    /\ UNCHANGED <<locked, cur, timed, array, life, timer>>

\* POLLHUP: step to the next port, detach this one, call disconnect.
RunHup(s) ==
    /\ rpc[s] = "visit" /\ cur[s] /= Null
    /\ HasHup(s)
    /\ cur' = [cur EXCEPT ![s] = next[cur[s]]]
    /\ Unlink(s, cur[s])
    /\ Update(s)
    /\ rebuild' = [rebuild EXCEPT ![s] = TRUE]
    /\ called' = [called EXCEPT ![s] = cur[s]]
    /\ rpc' = [rpc EXCEPT ![s] = "disconnect"]
    /\ UNCHANGED <<locked, timed, array, life, timer>>

\* POLLIN: call pending.
RunIn(s) ==
    /\ rpc[s] = "visit" /\ cur[s] /= Null
    /\ ~HasHup(s) /\ HasIn(s)
    /\ called' = [called EXCEPT ![s] = cur[s]]
    /\ rpc' = [rpc EXCEPT ![s] = "pending"]
    /\ UNCHANGED <<list, locked, cur, rebuild, timed, array, life, timer, wake>>

\* Nothing on this port, or not in the array yet.
RunQuiet(s) ==
    /\ rpc[s] = "visit" /\ cur[s] /= Null
    /\ ~HasHup(s) /\ ~HasIn(s)
    /\ rebuild' = [rebuild EXCEPT ![s] = @ \/ ufd[cur[s]] = Null]
    /\ rpc' = [rpc EXCEPT ![s] = "timer"]
    /\ UNCHANGED <<list, locked, cur, called, timed, array, life, timer, wake>>

\* The callback returned: after disconnect run goes on with the next port,
\* after pending and expired it looks at the timer of the port it called.
RunReturn(s) ==
    /\ rpc' = [rpc EXCEPT ![s] = IF @ = "disconnect" THEN "visit" ELSE "timer"]
    /\ called' = [called EXCEPT ![s] = Null]
    /\ UNCHANGED <<locked, cur, rebuild, timed>>

\* retry: getTimer() returns 0.
RunDue(s) ==
    /\ rpc[s] = "timer"
    /\ timer[cur[s]] = "due"
    /\ rpc' = [rpc EXCEPT ![s] = "due"]
    /\ UNCHANGED <<list, locked, cur, called, rebuild, timed, array, life, timer, wake>>

\* endTimer(), also of a timer that was set since getTimer(), and expired().
RunExpired(s) ==
    /\ rpc[s] = "due"
    /\ timer' = [timer EXCEPT ![cur[s]] = "off"]
    /\ called' = [called EXCEPT ![s] = cur[s]]
    /\ rpc' = [rpc EXCEPT ![s] = "expired"]
    /\ UNCHANGED <<list, locked, cur, rebuild, timed, array, life, wake>>

\* Mutant: a running timer does not limit the sleep.
MRunNextUntimed(s) ==
    /\ rpc[s] = "timer"
    /\ timer[cur[s]] /= "due"
    /\ cur' = [cur EXCEPT ![s] = next[cur[s]]]
    /\ rpc' = [rpc EXCEPT ![s] = "visit"]
    /\ UNCHANGED <<list, locked, called, rebuild, timed, array, life, timer, wake>>

\* The timer still runs or is off: port = port->next.
RunNext(s) ==
    /\ rpc[s] = "timer"
    /\ timer[cur[s]] /= "due"
    /\ timed' = [timed EXCEPT ![s] = @ \/ timer[cur[s]] = "armed"]
    /\ cur' = [cur EXCEPT ![s] = next[cur[s]]]
    /\ rpc' = [rpc EXCEPT ![s] = "visit"]
    /\ UNCHANGED <<list, locked, called, rebuild, array, life, timer, wake>>

\* Mutant: the array is rebuilt only when the number of ports has changed.
MRebuildByCount(s) ==
    /\ rpc[s] = "visit" /\ cur[s] = Null
    /\ IF count[s] + 1 /= lastcount[s]
         THEN /\ lastcount' = [lastcount EXCEPT ![s] = count[s] + 1]
              /\ polled' = [polled EXCEPT ![s] = Chain(s)]
              /\ ufd' = [p \in Ports |-> IF p \in Chain(s) THEN s ELSE ufd[p]]
         ELSE UNCHANGED <<lastcount, polled, ufd>>
    /\ locked' = [locked EXCEPT ![s] = FALSE]
    /\ rpc' = [rpc EXCEPT ![s] = "poll"]
    /\ UNCHANGED <<list, cur, called, rebuild, timed, in, hup, life, timer, wake>>

\* The end of the list: rebuild the array if the list changed; MUTEX_END.
RunRebuild(s) ==
    /\ rpc[s] = "visit" /\ cur[s] = Null
    /\ IF rebuild[s] \/ count[s] + 1 /= lastcount[s]
         THEN /\ lastcount' = [lastcount EXCEPT ![s] = count[s] + 1]
              /\ polled' = [polled EXCEPT ![s] = Chain(s)]
              /\ ufd' = [p \in Ports |-> IF p \in Chain(s) THEN s ELSE ufd[p]]
         ELSE UNCHANGED <<lastcount, polled, ufd>>
    /\ locked' = [locked EXCEPT ![s] = FALSE]
    /\ rpc' = [rpc EXCEPT ![s] = "poll"]
    /\ UNCHANGED <<list, cur, called, rebuild, timed, in, hup, life, timer, wake>>

\* poll() returns: inReady and hupReady are the ports with something to read
\* and with a dead connection.
RunPoll(s, inReady, hupReady) ==
    /\ rpc[s] = "poll"
    /\ \/ wake[s]
       \/ timed[s]
       \/ polled[s] \cap (inReady \cup hupReady) /= {}
    /\ in' = [in EXCEPT ![s] = polled[s] \cap inReady]
    /\ hup' = [hup EXCEPT ![s] = polled[s] \cap hupReady]
    /\ rpc' = [rpc EXCEPT ![s] = "drain"]
    /\ UNCHANGED <<list, locked, cur, called, rebuild, timed,
                   polled, lastcount, ufd, life, timer, wake>>

\* The steps of run() that do not depend on the derived class.
RunStep(s) ==
    \/ RunInit(s) \/ RunDrain(s) \/ RunLock(s) \/ RunHup(s) \/ RunIn(s)
    \/ RunQuiet(s) \/ RunDue(s) \/ RunExpired(s) \/ RunNext(s) \/ RunRebuild(s)
------------------------------------------------------------------------------
(* Types. *)
SvcTypeOK ==
    /\ first \in [Services -> Ports \cup {Null}]
    /\ last \in [Services -> Ports \cup {Null}]
    /\ count \in [Services -> Nat]
    /\ next \in [Ports -> Ports \cup {Null}]
    /\ prev \in [Ports -> Ports \cup {Null}]
    /\ service \in [Ports -> Services \cup {Null}]
    /\ life \in [Ports -> {"none", "live", "freed"}]
    /\ timer \in [Ports -> {"off", "armed", "due"}]
    /\ wake \in [Services -> BOOLEAN]
    /\ rpc \in [Services -> {"off", "init", "drain", "lock", "visit", "timer", "due", "poll"}
                              \cup Callbacks]
    /\ locked \in [Services -> BOOLEAN]
    /\ cur \in [Services -> Ports \cup {Null}]
    /\ called \in [Services -> Ports \cup {Null}]
    /\ rebuild \in [Services -> BOOLEAN]
    /\ timed \in [Services -> BOOLEAN]
    /\ polled \in [Services -> SUBSET Ports]
    /\ lastcount \in [Services -> Nat]
    /\ ufd \in [Ports -> Services \cup {Null}]
    /\ in \in [Services -> SUBSET Ports]
    /\ hup \in [Services -> SUBSET Ports]

(* The links of a service make one list: count ports, each of them alive and *)
(* knowing this service as its own, first to last by next and back by prev.  *)
ListWellFormed ==
    \A s \in Services :
        /\ Cardinality(Chain(s)) = count[s]
        /\ first[s] = Null <=> last[s] = Null
        /\ last[s] /= Null => last[s] \in Chain(s) /\ next[last[s]] = Null
        /\ \A p \in Chain(s) :
             /\ service[p] = s /\ life[p] = "live"
             /\ IF p = first[s] THEN prev[p] = Null
                ELSE prev[p] \in Chain(s) /\ next[prev[p]] = p

(* run() looks at the poll entry, the timer and the link of a port only      *)
(* while the port exists.                                                    *)
NoUseAfterFree ==
    \A s \in Services :
        rpc[s] \in {"visit", "timer", "due"} /\ cur[s] /= Null => life[cur[s]] = "live"
==============================================================================
