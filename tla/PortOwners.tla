----------------------------- MODULE PortOwners -----------------------------
(* SocketService with threads that create ports, move them from service to   *)
(* service and set their timers, and with callbacks that do what the class   *)
(* lets a derived class do.                                                  *)
(*                                                                           *)
(* When two owners create a thread for one service, only that they have done *)
(* so is modelled.  What two run() do to one pipe, and to poll entries of    *)
(* which each has an array, is not: nothing is said of that service then.    *)
EXTENDS SocketService

CONSTANTS Owners,       \* the threads, other than the services', that own ports
          Deleting,     \* the callbacks that may end with "delete this"
          Timing,       \* who may set timers: callbacks, or "owner"
          Reattaching   \* do owners call SocketPort::attach on an attached port?

ASSUME DeletingCallbacks == Deleting \subseteq Callbacks
ASSUME TimingParties == Timing \subseteq Callbacks \cup {"owner"}
ASSUME ReattachingBoolean == Reattaching \in BOOLEAN

VARIABLES
    opc,            \* where each owner is
    oport, osvc,    \* the port and the service it is working on
    twice,          \* the services for which two threads were created
    input, dead     \* the ports with unread input, with a dead connection

envVars == <<opc, oport, osvc, twice, input, dead>>
vars == <<svcVars, envVars>>

Init ==
    /\ SvcInit
    /\ opc = [u \in Owners |-> "idle"]
    /\ oport = [u \in Owners |-> Null]
    /\ osvc = [u \in Owners |-> Null]
    /\ twice = {}
    /\ input = {} /\ dead = {}

Go(u, label, p, s) ==
    /\ opc' = [opc EXCEPT ![u] = label]
    /\ oport' = [oport EXCEPT ![u] = p]
    /\ osvc' = [osvc EXCEPT ![u] = s]

Live == {p \in Ports : life[p] = "live"}
Idle(u) == opc[u] = "idle"
------------------------------------------------------------------------------
(* A constructor of SocketPort: the members, then svc->attach(this).  Which  *)
(* name a new port gets does not matter: it is a fixed one of those left.    *)
NewPort(u, p, s) ==
    /\ Idle(u) /\ life[p] = "none"
    /\ p = CHOOSE q \in Ports : life[q] = "none"
    /\ life' = [life EXCEPT ![p] = "live"]
    /\ Go(u, "attach", p, s)
    /\ UNCHANGED <<list, loop, array, timer, wake, twice, input, dead>>

(* SocketService::attach: under the mutex, then start() for the first port   *)
(* of a thread that does not run, or update().                               *)
Attach(u) ==
    /\ opc[u] = "attach"
    /\ ~locked[osvc[u]]
    /\ Go(u, IF FirstPort(osvc[u]) THEN "start" ELSE "update", Null, osvc[u])
    /\ Link(osvc[u], oport[u])
    /\ UNCHANGED <<loop, polled, lastcount, in, hup, life, timer, wake, twice, input, dead>>

(* Thread::start after the mutex was left: it tests whether there is a thread *)
(* ...                                                                       *)
OwnerStart(u) ==
    /\ opc[u] = "start"
    /\ IF rpc[osvc[u]] = "off"
       THEN Go(u, "create", Null, osvc[u])
       ELSE Go(u, "idle", Null, Null)
    /\ UNCHANGED <<svcVars, twice, input, dead>>

(* ... and calls pthread_create, without having locked anything.             *)
OwnerCreate(u) ==
    /\ opc[u] = "create"
    /\ StartThread(osvc[u])
    /\ twice' = IF rpc[osvc[u]] = "off" THEN twice ELSE twice \cup {osvc[u]}
    /\ Go(u, "idle", Null, Null)
    /\ UNCHANGED <<list, locked, cur, called, rebuild, timed, array, life, timer,
                   wake, input, dead>>

(* update() at the end of attach and of setTimer. *)
OwnerUpdate(u) ==
    /\ opc[u] = "update"
    /\ Update(osvc[u])
    /\ Go(u, "idle", Null, Null)
    /\ UNCHANGED <<list, loop, array, life, timer, twice, input, dead>>

(* SocketPort::setTimer, without the mutex: the timer, which a timeout of 0  *)
(* turns off, then update().                                                 *)
SetTimer(u, p) ==
    /\ "owner" \in Timing
    /\ Idle(u) /\ p \in Live /\ service[p] /= Null
    /\ \E set \in {"armed", "off"} : timer' = [timer EXCEPT ![p] = set]
    /\ Go(u, "update", Null, service[p])
    /\ UNCHANGED <<list, loop, array, life, wake, twice, input, dead>>

(* SocketPort::attach(svc) on an attached port: service->detach(this) under  *)
(* the mutex of the old service; ...                                         *)
Detach(u, p) ==
    /\ Reattaching
    /\ Idle(u) /\ p \in Live /\ service[p] /= Null
    /\ \A v \in Owners : oport[v] /= p   \* one owner at a time moves a port
    /\ ~locked[service[p]]
    /\ Unlink(service[p], p)
    /\ Go(u, "move", p, service[p])
    /\ UNCHANGED <<loop, array, life, timer, wake, twice, input, dead>>

\* Mutant: detach does not wake the old service.
MMoveSilent(u, s) ==
    /\ opc[u] = "move" /\ s /= osvc[u]
    /\ service' = [service EXCEPT ![oport[u]] = s]
    /\ Go(u, "attach", oport[u], s)
    /\ UNCHANGED <<first, last, count, next, prev, loop, array, life, timer, wake, twice, input, dead>>

(* ... the update() of the old service; service = svc; svc->attach(this).    *)
Move(u, s) ==
    /\ opc[u] = "move" /\ s /= osvc[u]
    /\ Update(osvc[u])
    /\ service' = [service EXCEPT ![oport[u]] = s]
    /\ Go(u, "attach", oport[u], s)
    /\ UNCHANGED <<first, last, count, next, prev, loop, array, life, timer, twice, input, dead>>

(* The callback of a derived class: pending reads the input; any of them may *)
(* set the port's timer, and delete the port, if the constants say so.       *)
Callback(s) ==
    /\ rpc[s] \in Callbacks
    /\ input' = IF rpc[s] = "pending" THEN input \ {called[s]} ELSE input
    /\ \/ UNCHANGED <<list, life, timer, wake>>
       \/ /\ rpc[s] \in Timing /\ service[called[s]] /= Null
          /\ \E set \in {"armed", "off"} : timer' = [timer EXCEPT ![called[s]] = set]
          /\ Update(s)
          /\ UNCHANGED <<list, life>>
       \/ /\ rpc[s] \in Deleting
          /\ Destroy(s, called[s])
          /\ UNCHANGED timer
    /\ RunReturn(s)
    /\ UNCHANGED <<array, opc, oport, osvc, twice, dead>>

(* The world: data arrives, the peer resets the connection, time passes. *)
Input(p) ==
    /\ p \in Live
    /\ input' = input \cup {p}
    /\ UNCHANGED <<svcVars, opc, oport, osvc, twice, dead>>

Hangup(p) ==
    /\ p \in Live
    /\ dead' = dead \cup {p}
    /\ UNCHANGED <<svcVars, opc, oport, osvc, twice, input>>

TimeUp(p) ==
    /\ p \in Live /\ timer[p] = "armed"
    /\ timer' = [timer EXCEPT ![p] = "due"]
    /\ UNCHANGED <<list, loop, array, life, wake, envVars>>

(* POLLNVAL, for a descriptor closed since the array was built, is not       *)
(* modelled: its port is not in the list any more and nobody looks at it.    *)
Poll(s) == RunPoll(s, input \cap Live, dead \cap Live) /\ UNCHANGED envVars

Run(s) == (RunStep(s) /\ UNCHANGED envVars) \/ Poll(s) \/ Callback(s)

OwnerStep(u) ==
    \/ Attach(u) \/ OwnerStart(u) \/ OwnerCreate(u) \/ OwnerUpdate(u)
    \/ \E s \in Services : Move(u, s)

Next ==
    \/ \E s \in Services : Run(s)
    \/ \E u \in Owners : OwnerStep(u)
    \/ \E u \in Owners, p \in Ports : Detach(u, p) \/ SetTimer(u, p)
    \/ \E u \in Owners, p \in Ports, s \in Services : NewPort(u, p, s)
    \/ \E p \in Ports : Input(p) \/ Hangup(p) \/ TimeUp(p)

Spec == Init /\ [][Next]_vars

(* Threads that can run do run, the mutex is not refused to one owner for    *)
(* ever, and armed timers run out.                                           *)
Fairness ==
    /\ \A s \in Services : WF_vars(Run(s))
    /\ \A u \in Owners : SF_vars(OwnerStep(u))
    /\ \A p \in Ports : WF_vars(TimeUp(p))

FairSpec == Spec /\ Fairness
------------------------------------------------------------------------------
(* Types. *)
TypeOK ==
    /\ SvcTypeOK
    /\ opc \in [Owners -> {"idle", "attach", "start", "create", "update", "move"}]
    /\ oport \in [Owners -> Ports \cup {Null}]
    /\ osvc \in [Owners -> Services \cup {Null}]
    /\ twice \subseteq Services
    /\ input \subseteq Ports /\ dead \subseteq Ports

(* Every service has one thread, although nothing is locked between the test *)
(* of attach() that this is its first port and pthread_create: while no port *)
(* is moved away from a service that does not run yet, one owner alone finds *)
(* that the port it attached is the first.                                   *)
OneThread == twice = {}

(* No missed update: when the thread sleeps in poll() with nothing in the    *)
(* pipe and nobody about to write to it, it sleeps on exactly the ports that *)
(* are attached, each port points into the array, and if one of them has its *)
(* timer set the sleep is limited.                                           *)
NoMissedUpdate ==
    \A s \in Services \ twice :
        ( /\ rpc[s] = "poll" /\ ~wake[s]
          /\ \A u \in Owners : osvc[u] = s => opc[u] = "attach" )
        => /\ polled[s] = Chain(s)
           /\ \A p \in Chain(s) : ufd[p] = s
           /\ (\E p \in Chain(s) : timer[p] /= "off") => timed[s]

(* Timers are not set for ever.  Without this nothing can be promised: run() *)
(* calls expired() again and again, under the mutex, while the timer it finds *)
(* afterwards is due.                                                        *)
TimersEnd == <>[][\A p \in Ports : timer'[p] = "armed" => timer[p] = "armed"]_vars

(* A port whose descriptor is readable is called back, or leaves its         *)
(* service, whatever the other ports and threads do.                         *)
InputServed ==
    TimersEnd =>
        \A p \in Ports :
            (p \in input /\ service[p] /= Null) ~> (p \notin input \/ service[p] = Null)

(* A timer that has run out leads to expired(), or to the end of the port.   *)
TimerServed ==
    TimersEnd =>
        \A p \in Ports :
            (timer[p] = "due" /\ service[p] /= Null) ~> (timer[p] /= "due" \/ service[p] = Null)
==============================================================================
