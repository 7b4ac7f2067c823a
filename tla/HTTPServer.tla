----------------------------- MODULE HTTPServer -----------------------------
(* The server bhttp (httpservice.cpp): one acceptor thread, HTTPServer::run, *)
(* that takes a SocketService from the pool and constructs an HTTPSession,   *)
(* which accepts a connection and attaches itself to the service; one thread *)
(* per SocketService, which calls the session back; and the clients.         *)
(*                                                                           *)
(* SocketService is extended (its ports are the sessions, one for each       *)
(* connection) and ServicePool is instantiated: the acceptor is the thread   *)
(* that gets services and the service threads are those that free them, in   *)
(* ~HTTPSession.                                                             *)
(*                                                                           *)
(* Once the program reads freed or unconstructed memory, C++ says nothing of *)
(* what follows.  Such a read either finds what was there before, where the  *)
(* memory is intact in practice, or makes the program "wild", and a wild     *)
(* program takes no step of which this model says anything.                  *)
EXTENDS SocketService, Sequences

CONSTANTS Acceptor, NoThread,
          WaitLocked,       \* see ServicePool; FALSE is the code
          Scripts,          \* what clients send, as sequences of pieces
          Hangups,          \* how clients leave: a subset of {"closed", "reset"}
          AcceptMayFail     \* may accept() return an error?

ASSUME ServicesFinite == IsFiniteSet(Services)
ASSUME ThreadsDiffer == Acceptor \notin Services /\ NoThread \notin Services \cup {Acceptor}
ASSUME WaitLockedBoolean == WaitLocked \in BOOLEAN
ASSUME ScriptsOfPieces == Scripts \subseteq Seq({"req", "bad", "head", "tail", "blank"})
ASSUME HangupKinds == Hangups \subseteq {"closed", "reset"}

VARIABLES
    pool, owner, pc, arg, out,  \* the pool and the threads inside it
    apc,        \* where the acceptor is in run() and in the constructors
    asvc, conn, \* the service it got, the session it is constructing
    phase,      \* of each session: how much of it is constructed
    sem,        \* of each session: the value of sessionsem
    sstate,     \* of each session: sessionState
    head,       \* of each session: the request line in request's buffer
    replied,    \* of each session: the request line it has answered
    hpc,        \* of each service: where its thread is in a session's method
    client,     \* of each connection: "off", "open", "closed", "reset"
    todo,       \* of each connection: what its client still has to send
    inbox,      \* of each connection: what the session has not read yet
    wild        \* why the program is wild: "no", "freed" or "unbuilt"

poolVars == <<pool, owner, pc, arg, out>>
accVars == <<apc, asvc, conn>>
sesVars == <<phase, sem, sstate, head, replied>>
netVars == <<client, todo, inbox>>
vars == <<svcVars, poolVars, accVars, sesVars, hpc, netVars, wild>>

Pool == INSTANCE ServicePool WITH
    Getters <- {Acceptor},
    Freers <- Services,
    NoService <- Null

None == "none"

Init ==
    /\ SvcInit
    /\ Pool!Init
    /\ apc = "run" /\ asvc = Null /\ conn = Null
    /\ phase = [c \in Ports |-> "base"]
    /\ sem = [c \in Ports |-> 0]
    /\ sstate = [c \in Ports |-> "INITIAL"]
    /\ head = [c \in Ports |-> None]
    /\ replied = [c \in Ports |-> None]
    /\ hpc = [s \in Services |-> "idle"]
    /\ client = [c \in Ports |-> "off"]
    /\ todo = [c \in Ports |-> <<>>]
    /\ inbox = [c \in Ports |-> <<>>]
    /\ wild = "no"
------------------------------------------------------------------------------
(* The acceptor: new HTTPSession(this, getService()).                        *)
AcceptorAt(from, to) == apc = from /\ apc' = to

GetService ==
    /\ AcceptorAt("run", "get")
    /\ Pool!GetCall(Acceptor)
    /\ UNCHANGED <<svcVars, asvc, conn, sesVars, hpc, netVars, wild>>

InGetService ==
    /\ apc = "get"
    /\ Pool!Step(Acceptor)
    /\ IF pc[Acceptor] = "get.leave"
         THEN apc' = "accept" /\ asvc' = arg[Acceptor]
         ELSE UNCHANGED <<apc, asvc>>
    /\ UNCHANGED <<svcVars, conn, sesVars, hpc, netVars, wild>>

InGetServiceSpurious ==
    /\ apc = "get"
    /\ Pool!SpuriousWakeup(Acceptor)
    /\ UNCHANGED <<svcVars, accVars, sesVars, hpc, netVars, wild>>

(* SocketPort(svc, tcp): accept() the connection c; attach if there is svc.  *)
Accept(c) ==
    /\ AcceptorAt("accept", IF asvc = Null THEN "vptr" ELSE "attach")
    /\ client[c] /= "off" /\ life[c] = "none"
    /\ life' = [life EXCEPT ![c] = "live"]
    /\ conn' = c
    /\ UNCHANGED <<list, loop, array, timer, wake, poolVars, asvc, sesVars, hpc, netVars, wild>>

(* accept() fails: Socket's constructor throws, run() catches and exits, and *)
(* nobody gives the service back.                                            *)
AcceptFails ==
    /\ AcceptMayFail
    /\ AcceptorAt("accept", "exited")
    /\ UNCHANGED <<svcVars, poolVars, asvc, conn, sesVars, hpc, netVars, wild>>

AttachSession ==
    /\ AcceptorAt("attach", IF FirstPort(asvc) THEN "start" ELSE "update")
    /\ ~locked[asvc]
    /\ Link(asvc, conn)
    /\ UNCHANGED <<loop, polled, lastcount, in, hup, life, timer, wake,
                   poolVars, asvc, conn, sesVars, hpc, netVars, wild>>

(* The acceptor is the only thread that attaches: nobody starts the service   *)
(* between the test in Thread::start and pthread_create.                     *)
StartService ==
    /\ AcceptorAt("start", "vptr")
    /\ StartThread(asvc)
    /\ UNCHANGED <<list, locked, cur, called, rebuild, timed, array, life, timer, wake,
                   poolVars, asvc, conn, sesVars, hpc, netVars, wild>>

UpdateService ==
    /\ AcceptorAt("update", "vptr")
    /\ Update(asvc)
    /\ UNCHANGED <<list, loop, array, life, timer,
                   poolVars, asvc, conn, sesVars, hpc, netVars, wild>>

(* The base is complete: calls of the session's virtual functions now reach  *)
(* HTTPSession, whose members are not constructed yet.                       *)
BecomeSession ==
    /\ AcceptorAt("vptr", "members")
    /\ phase' = [phase EXCEPT ![conn] = "vptr"]
    /\ UNCHANGED <<svcVars, poolVars, asvc, conn, sem, sstate, head, replied,
                   hpc, netVars, wild>>

ConstructMembers ==
    /\ AcceptorAt("members", "body")
    /\ phase' = [phase EXCEPT ![conn] = "members"]
    /\ UNCHANGED <<svcVars, poolVars, asvc, conn, sem, sstate, head, replied,
                   hpc, netVars, wild>>

(* The body of the constructor, up to sessionsem->post().                    *)
ConstructorBody ==
    /\ AcceptorAt("body", "run")
    /\ phase' = [phase EXCEPT ![conn] = "built"]
    /\ sstate' = [sstate EXCEPT ![conn] = "INITIAL"]
    /\ sem' = [sem EXCEPT ![conn] = @ + 1]
    /\ asvc' = Null /\ conn' = Null
    /\ UNCHANGED <<svcVars, poolVars, head, replied, hpc, netVars, wild>>

AcceptorStep ==
    \/ GetService \/ InGetService
    \/ (\E c \in Ports : Accept(c)) \/ AcceptFails
    \/ AttachSession \/ StartService \/ UpdateService
    \/ BecomeSession \/ ConstructMembers \/ ConstructorBody
------------------------------------------------------------------------------
(* The service threads, inside the methods of a session.                     *)
HandlerAt(s, from, to) == hpc[s] = from /\ hpc' = [hpc EXCEPT ![s] = to]

\* The callback was made while the session's virtual functions were still
\* those of SocketPort, which do nothing.
BaseCallback(s) ==
    /\ rpc[s] \in Callbacks /\ hpc[s] = "idle"
    /\ phase[called[s]] = "base"
    /\ RunReturn(s)
    /\ UNCHANGED <<list, array, life, timer, wake,
                   poolVars, accVars, sesVars, hpc, netVars, wild>>

\* pending() on a semaphore, and disconnect() on a session, that do not
\* exist yet or that the acceptor is still constructing.
UnbuiltCallback(s) ==
    /\ hpc[s] = "idle"
    /\ \/ rpc[s] = "pending" /\ phase[called[s]] = "vptr"
       \/ rpc[s] = "disconnect" /\ phase[called[s]] \in {"vptr", "members"}
    /\ wild' = "unbuilt"
    /\ UNCHANGED <<svcVars, poolVars, accVars, sesVars, hpc, netVars>>

\* Mutant: pending() does not wait for the semaphore.
MPendingUnguarded(s) ==
    /\ rpc[s] = "pending" /\ phase[called[s]] \in {"members", "built"}
    /\ HandlerAt(s, "idle", IF sstate[called[s]] \in {"INITIAL", "GETTINGHEAD"}
                            THEN "read" ELSE "process")
    /\ sstate' = [sstate EXCEPT ![called[s]] = IF @ = "INITIAL" THEN "GETTINGHEAD" ELSE @]
    /\ UNCHANGED <<svcVars, poolVars, accVars, phase, sem, head, replied, netVars, wild>>

\* HTTPSession::pending up to the loop: sessionsem->wait().
Pending(s) ==
    /\ rpc[s] = "pending" /\ phase[called[s]] \in {"members", "built"}
    /\ HandlerAt(s, "idle", IF sstate[called[s]] \in {"INITIAL", "GETTINGHEAD"}
                            THEN "read" ELSE "process")
    /\ sem[called[s]] > 0
    /\ sem' = [sem EXCEPT ![called[s]] = @ - 1]
    /\ sstate' = [sstate EXCEPT ![called[s]] = IF @ = "INITIAL" THEN "GETTINGHEAD" ELSE @]
    /\ UNCHANGED <<svcVars, poolVars, accVars, phase, head, replied, netVars, wild>>

(* Socket::readLine on a socket that does not block: what it leaves of the   *)
(* input q and the line it returns, None for -1.  A request line may come in *)
(* two pieces, "head" and "tail".  A head without its tail is consumed and   *)
(* forgotten; the tail, read later, is taken for a line.                     *)
ReadLine(q) ==
    IF q = <<>> THEN {[rest |-> q, line |-> None]}
    ELSE IF q[1] = "head" THEN
           IF Len(q) > 1 THEN {[rest |-> Tail(Tail(q)), line |-> "req"]}
           ELSE {[rest |-> <<>>, line |-> None]}
    ELSE IF q[1] = "tail" THEN {[rest |-> Tail(q), line |-> l] : l \in {"garbled", "bad"}}
    ELSE {[rest |-> Tail(q), line |-> q[1]]}

\* Mutant: pending() returns without posting when it has read nothing.
MReadNothingUnposted(s) ==
    /\ HandlerAt(s, "read", "idle")
    /\ \E r \in ReadLine(inbox[called[s]]) :
         r.line = None /\ inbox' = [inbox EXCEPT ![called[s]] = r.rest]
    /\ RunReturn(s)
    /\ UNCHANGED <<list, array, life, timer, wake, poolVars, accVars,
                   phase, sem, sstate, head, replied, client, todo, wild>>

\* No line to be had, because none is there or because the client is gone:
\* post and return to run().
ReadNothing(s) ==
    /\ HandlerAt(s, "read", "idle")
    /\ \E r \in ReadLine(inbox[called[s]]) :
         r.line = None /\ inbox' = [inbox EXCEPT ![called[s]] = r.rest]
    /\ sem' = [sem EXCEPT ![called[s]] = @ + 1]
    /\ RunReturn(s)
    /\ UNCHANGED <<list, array, life, timer, wake, poolVars, accVars,
                   phase, sstate, head, replied, client, todo, wild>>

\* A line of the head.  Only the first one, the request line, is kept.
ReadHeadLine(s) ==
    /\ hpc[s] = "read"
    /\ \E r \in ReadLine(inbox[called[s]]) :
         /\ r.line \notin {None, "blank"}
         /\ inbox' = [inbox EXCEPT ![called[s]] = r.rest]
         /\ head' = [head EXCEPT ![called[s]] = IF @ = None THEN r.line ELSE @]
    /\ UNCHANGED <<svcVars, poolVars, accVars, phase, sem, sstate, replied,
                   hpc, client, todo, wild>>

\* The empty line: parseRequest finds a method and a URI ...
ParseOk(s) ==
    /\ HandlerAt(s, "read", "process")
    /\ \E r \in ReadLine(inbox[called[s]]) :
         r.line = "blank" /\ inbox' = [inbox EXCEPT ![called[s]] = r.rest]
    /\ head[called[s]] \in {"req", "garbled"}
    /\ sstate' = [sstate EXCEPT ![called[s]] = "KNOWNHEAD"]
    /\ UNCHANGED <<svcVars, poolVars, accVars, phase, sem, head, replied,
                   client, todo, wild>>

\* ... or throws: pending() catches it and returns without posting.
ParseThrows(s) ==
    /\ HandlerAt(s, "read", "idle")
    /\ \E r \in ReadLine(inbox[called[s]]) :
         r.line = "blank" /\ inbox' = [inbox EXCEPT ![called[s]] = r.rest]
    /\ head[called[s]] \in {None, "bad"}
    /\ sstate' = [sstate EXCEPT ![called[s]] = "PARSINGHEAD"]
    /\ RunReturn(s)
    /\ UNCHANGED <<list, array, life, timer, wake, poolVars, accVars,
                   phase, sem, head, replied, client, todo, wild>>

\* Mutant: the session stays after its answer.
MProcessStays(s) ==
    /\ HandlerAt(s, "process", "idle")
    /\ replied' = [replied EXCEPT ![called[s]] = head[called[s]]]
    /\ sem' = [sem EXCEPT ![called[s]] = @ + 1]
    /\ RunReturn(s)
    /\ UNCHANGED <<list, array, life, timer, wake, poolVars, accVars,
                   phase, sstate, head, netVars, wild>>

\* response.process(); sessionsem->post(); delete this.
Process(s) ==
    /\ HandlerAt(s, "process", "delete")
    /\ replied' = [replied EXCEPT ![called[s]] = head[called[s]]]
    /\ sem' = [sem EXCEPT ![called[s]] = @ + 1]
    /\ UNCHANGED <<svcVars, poolVars, accVars, phase, sstate, head, netVars, wild>>

\* disconnect() and expired(): delete this.
Disconnect(s) ==
    /\ rpc[s] \in {"disconnect", "expired"} /\ phase[called[s]] = "built"
    /\ HandlerAt(s, "idle", "delete")
    /\ UNCHANGED <<svcVars, poolVars, accVars, sesVars, netVars, wild>>

\* Mutant: the destructor keeps the service.
MFreeServiceNot(s) ==
    /\ HandlerAt(s, "delete", "destroy")
    /\ UNCHANGED <<svcVars, poolVars, accVars, sesVars, netVars, wild>>

\* ~HTTPSession: httpServer->freeService(service).
FreeService(s) ==
    /\ HandlerAt(s, "delete", "freeing")
    /\ Pool!FreeCall(s, service[called[s]])
    /\ UNCHANGED <<svcVars, accVars, sesVars, netVars, wild>>

InFreeService(s) ==
    /\ hpc[s] = "freeing"
    /\ Pool!Step(s)
    /\ hpc' = IF pc[s] = "free.leave" THEN [hpc EXCEPT ![s] = "destroy"] ELSE hpc
    /\ UNCHANGED <<svcVars, accVars, sesVars, netVars, wild>>

\* ~SocketPort: detach, close the connection; then back to run().
DestroyBase(s) ==
    /\ HandlerAt(s, "destroy", "idle")
    /\ Destroy(s, called[s])
    /\ RunReturn(s)
    /\ UNCHANGED <<array, timer, poolVars, accVars, sesVars, netVars, wild>>

SessionStep(s) ==
    \/ BaseCallback(s) \/ UnbuiltCallback(s)
    \/ Pending(s) \/ ReadNothing(s) \/ ReadHeadLine(s) \/ ParseOk(s) \/ ParseThrows(s)
    \/ Process(s) \/ Disconnect(s)
    \/ FreeService(s) \/ InFreeService(s) \/ DestroyBase(s)

(* run() looks at the timer and the link of a session that it has just       *)
(* called and that has deleted itself: what is read may be anything.         *)
ReadFreed(s) ==
    /\ rpc[s] = "timer" /\ life[cur[s]] = "freed"
    /\ wild' = "freed"
    /\ UNCHANGED <<svcVars, poolVars, accVars, sesVars, hpc, netVars>>

Readable == {c \in Ports : inbox[c] /= <<>> \/ client[c] \in {"closed", "reset"}}
Reset == {c \in Ports : client[c] = "reset"}

ServiceStep(s) ==
    \/ /\ RunStep(s) \/ RunPoll(s, Readable, Reset)
       /\ UNCHANGED <<poolVars, accVars, sesVars, hpc, netVars, wild>>
    \/ SessionStep(s)
------------------------------------------------------------------------------
(* The clients: connect, send one piece after another, leave.                *)
Connect(c) ==
    /\ client[c] = "off"
    /\ client' = [client EXCEPT ![c] = "open"]
    /\ \E script \in Scripts : todo' = [todo EXCEPT ![c] = script]
    /\ UNCHANGED <<svcVars, poolVars, accVars, sesVars, hpc, inbox, wild>>

Send(c) ==
    /\ client[c] = "open" /\ todo[c] /= <<>> /\ life[c] /= "freed"
    /\ todo' = [todo EXCEPT ![c] = Tail(@)]
    /\ inbox' = [inbox EXCEPT ![c] = Append(@, Head(todo[c]))]
    /\ UNCHANGED <<svcVars, poolVars, accVars, sesVars, hpc, client, wild>>

\* A close lets the server read what was sent; a reset takes it away.
Leave(c, how) ==
    /\ client[c] = "open" /\ life[c] /= "freed"
    /\ client' = [client EXCEPT ![c] = how]
    /\ inbox' = IF how = "reset" THEN [inbox EXCEPT ![c] = <<>>] ELSE inbox
    /\ UNCHANGED <<svcVars, poolVars, accVars, sesVars, hpc, todo, wild>>

ClientStep(c) == Connect(c) \/ Send(c) \/ \E how \in Hangups : Leave(c, how)

Next ==
    /\ wild = "no"
    /\ \/ AcceptorStep \/ InGetServiceSpurious
       \/ \E s \in Services : ServiceStep(s) \/ ReadFreed(s)
       \/ \E c \in Ports : ClientStep(c)

Spec == Init /\ [][Next]_vars

(* Every thread that can run does; the mutex of a service and the mutex of   *)
(* the pool are not refused to one thread for ever; clients send all they    *)
(* have to send.  Nobody is obliged to connect or to leave, and no program   *)
(* is obliged to go wild.                                                    *)
Sane(A) == wild = "no" /\ A /\ wild' = "no"

Fairness ==
    /\ SF_vars(Sane(AcceptorStep))
    /\ \A s \in Services : SF_vars(Sane(ServiceStep(s)))
    /\ \A c \in Ports : WF_vars(Sane(Send(c)))

FairSpec == Spec /\ Fairness
------------------------------------------------------------------------------
(* Types. *)
TypeOK ==
    /\ SvcTypeOK
    /\ pool \in Seq(Services \cup {Null})
    /\ apc \in {"run", "get", "accept", "attach", "start", "update", "vptr", "members",
                "body", "exited"}
    /\ asvc \in Services \cup {Null} /\ conn \in Ports \cup {Null}
    /\ phase \in [Ports -> {"base", "vptr", "members", "built"}]
    /\ sem \in [Ports -> 0..1]
    /\ sstate \in [Ports -> {"INITIAL", "GETTINGHEAD", "PARSINGHEAD", "KNOWNHEAD"}]
    /\ head \in [Ports -> {None, "req", "garbled", "bad"}]
    /\ replied \in [Ports -> {None, "req", "garbled"}]
    /\ hpc \in [Services -> {"idle", "read", "process", "delete", "freeing", "destroy"}]
    /\ client \in [Ports -> {"off", "open", "closed", "reset"}]
    /\ wild \in {"no", "freed", "unbuilt"}

(* One session per service: ~HTTPSession gives the service back before       *)
(* ~SocketPort detaches the session, and the acceptor may have it in hand at *)
(* once; still, the next session is not attached before the last one is      *)
(* detached, because the service thread holds its mutex all the while.       *)
OneSessionPerService == \A s \in Services : count[s] <= 1

(* A service that is in the pool, or on its way into it or out of it, has no *)
(* session but the one that is giving it back at this moment.                *)
PooledIsFree ==
    \A s \in Services :
        s \in Range(pool) \cup Range(arg) =>
            \A c \in Chain(s) : called[s] = c /\ hpc[s] \in {"freeing", "destroy"}

(* No service is given to two sessions: a service is at most once in the     *)
(* pool, and not there while the acceptor has it.                            *)
LentOnce ==
    /\ \A i, j \in DOMAIN pool : pool[i] = pool[j] /\ pool[i] /= Null => i = j
    /\ asvc /= Null => asvc \notin Range(pool)

(* No service is lost: each is in the pool, on its way into or out of it,    *)
(* with the acceptor, or the service of a session that exists.               *)
ServicesConserved ==
    \A s \in Services :
        \/ s \in Range(pool) \cup Range(arg) \cup {asvc}
        \/ \E c \in Ports : life[c] = "live" /\ service[c] = s

(* A session that a client can still talk to is served: it is attached to a  *)
(* service, whose thread runs or is about to be started.                     *)
SessionIsServed ==
    \A c \in Ports :
        phase[c] = "built" /\ life[c] = "live" /\ client[c] = "open" => service[c] /= Null

(* When the client of an accepted connection hangs up its session ends.      *)
HangupEndsSession ==
    \A c \in Ports :
        (phase[c] = "built" /\ client[c] = "closed") ~> (life[c] = "freed" \/ wild /= "no")

(* A client that has sent a complete request gets an answer, and the         *)
(* connection is closed afterwards.                                          *)
RequestAnswered ==
    \A c \in Ports :
        (client[c] = "open" /\ todo[c] = <<>>) ~>
            ((replied[c] /= None /\ life[c] = "freed") \/ wild /= "no")

(* The acceptor is always on its way back to accept().                       *)
AcceptorReturns == apc = "get" ~> (apc = "accept" \/ wild /= "no")

(* ServicePool, in the hands of this server: an acceptor that has found the  *)
(* queue empty stays in cond.wait for ever and keeps the mutex of the pool.  *)
EmptyPoolWedges == Pool!EmptyPoolWedges
=============================================================================
