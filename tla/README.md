# A verification project for cloudtestbed

The repository is a testbed of many small programs. This project models the parts of
it that have a core of their own and the concurrency that makes a model worth
having; all are C and C++:

* the HTTP server of `CppCourses/Cppdemo/se11_http/http` (`bhttp/2.1`), written on
  the class library `bbt` (threads, conditionals, sockets, timers, service threads):
  how connections are handed to service threads, how a service thread serves its
  ports, and how a session lives and dies;
* the pthread programs of `CppCourses/Cppdemo/s7/mt`: a read/write lock, an alarm
  program with a condition variable, and two threads that lock with back-off;
* the SNMP toolkit of `CppCourses/Cppdemo/se12_snmp`: how an `agent++` agent processes
  requests, its thread pools, and how an `snmp++` session keeps its outstanding
  requests.

File names in the part about the server are relative to
`src/CppCourses/Cppdemo/se11_http/http/`; the others are named by their last parts.

## The system and how its parts interact

The server's parts come first; the parts of the other two groups do not talk to it.

| Part | State | Operations | Talks to |
|---|---|---|---|
| `HTTPServer` (`httpservice.cpp`) | the listening socket, a `ServicePool` | `run()`: the acceptor thread, which constructs one `HTTPSession` after another | gets services from the pool, attaches sessions to them |
| `HTTPSession` (`httpservice.cpp`) | `sessionState`, `sessionsem`, request and response, `service` | constructor, `pending`, `disconnect`, `expired`, destructor | called back by a service thread; the destructor gives the service back |
| `ServicePool` (`servicepool.cpp`) | a queue, a `Conditional` | `getService`, `freeService` | acceptor and service threads |
| `Conditional` (`mutex.cpp` 131-193) | a pthread mutex and condition | `enterMutex`, `leaveMutex`, `wait`, `signal` | the pool |
| `SocketService` (`socketport.cpp` 378-686) | a doubly linked list of ports, a count, a recursive mutex, the pipe `iosync`, the poll array | `attach`, `detach`, `update`, `run` (the service thread) | ports, other threads |
| `SocketPort` (`socketport.cpp` 54-375) | `next`, `prev`, `service`, `ufd`, detect flags, a `TimerPort` | constructor, `attach`, `setTimer`, callbacks, destructor | its service |
| `TimerPort` (`timerport.cpp`) | a time and `active` | `setTimer`, `incTimer`, `endTimer`, `getTimer` | read by `run` |
| `Socket` (`socket.cpp`) | a descriptor | `readLine`, `readData`, `writeData` | called by sessions |
| `Request`, `Response` | the head, the file to serve | `append`, `parseRequest`, `process` | called by `pending` |
| `Thread` (`thread.cpp`) | a pthread, `_tid` | `start`, `isRunning`, `terminate`, `suspend` | base of server and service |
| read/write lock (`s7/mt/rwlock.c`) | `r_active`, `w_active`, `r_wait`, `w_wait`, a mutex, two conditions | `rwl_readlock`, `rwl_readtrylock`, `rwl_readunlock`, the same for writing, cleanup handlers | any threads, which may be cancelled while they wait |
| alarm program (`s7/mt/alarm_cond.c`) | a sorted list of alarms, `current_alarm`, a mutex, a condition | `alarm_insert`, `alarm_thread`, `main` | the clock |
| back-off program (`s7/mt/backoff.c`) | three mutexes | `lock_forward`, `lock_backward` | each other |
| requests of an agent (`agent++/src/mib.cpp`, `mib_context.cpp`, `request.cpp`) | the MIB and its lock, entries with a lock each, leaves with a copy for undo, groups, request lists | `process_request`, the phases of a SET, `Mib::remove` of an entry or a group | one thread per request |
| thread pools (`agent++/src/threads.cpp`) | managers with a task and a lock each, a queue, the pool's lock | `execute`, `assign`, `set_task`, `idle_notification`, the managers' and the queue's `run` | callers of `execute` |
| message queue (`snmp++/src/msgqueue.cpp`, `eventlistholder.cpp`, `uxsnmp.cpp`) | outstanding messages, `pevents_mutex`, the queue's lock | `AddEntry`, `DeleteEntry`, `HandleEvents`, `DoRetries`, `Done`, callbacks, `cancel`, `~Snmp` | the poll thread, blocking callers, the network |

### The HTTP server

A connection goes like this. The acceptor takes a service from the pool
(`getService`), and `new HTTPSession` accepts a connection and attaches itself to
the service in its *base* constructor; the first `attach` starts the service's
thread. That thread sleeps in `poll()`; when the connection is readable it calls
`pending()` under the mutex of the service. `pending()` reads lines, parses the
head, writes the answer and deletes the session; `~HTTPSession` gives the service
back to the pool *before* `~SocketPort` detaches the port. On POLLHUP the thread
detaches the port first and then calls `disconnect()`, which deletes the session.

### The pthread programs

A thread that has to wait for the read/write lock counts itself in `r_wait` or
`w_wait` and sleeps on a condition; a cleanup handler takes it out again when it is
cancelled. Unlocking prefers readers or writers by these counts, which may name a
thread that is already being cancelled. The alarm thread takes the earliest alarm off
the list and waits for its time; `current_alarm` tells `main` whether a new alarm is
early enough to wake it, and then it puts its alarm back. The seconds a user types may
be negative: the alarm's time is then over when it is entered. The lockers take one mutex
and *try* the others, and go back to the start when one of them is busy.

### The SNMP toolkit

`Mib::process_request` gives every request to a thread. A GET holds the MIB's lock while
it looks an entry up and until it has the entry's lock; then it reads with the entry's
lock alone. A SET locks all its entries with the MIB locked (prepare), writes them one
by one (commit), and then takes everything back (undo) or forgets the copies (cleanup).
`Mib::remove` locks the MIB and waits for the entry; when the name is that of a group,
it takes all entries of the group away without asking for their locks. A `ThreadPool`
offers a task to one manager after another, with the pool unlocked while it does; when
nobody takes it, the caller waits for a notification or a second; a `QueuedThreadPool`
queues it instead.

On the other side, `snmp_engine` sends a datagram and only then enters the request in
the queue. Whoever processes events (the poll thread, or a thread in a blocking
request) matches responses with entries, resends what is overdue, and calls back,
each time without the queue's lock.

### What is hard

Hence what the properties are about. In the server: the queue under
competing threads; a list that callbacks change while it is walked; a poll array
that must follow the list although other threads change it at any time; sessions
that are called back while they are being constructed and that delete themselves
in their callbacks; a service that changes hands while its last user is still
attached to it; threads that wait for each other. In the programs: waiters that
disappear, and deadlines that move while they are waited for. In the toolkit: locks
handed over from the MIB to its entries, writes that are taken back, an answer that
meets a timeout or a retry, a notification that nobody is waiting for yet. What makes
each part correct:

* pool: no service lost, doubled, or handed out while in use; no wakeup lost; FIFO;
* service: it gets one thread; the links form one list of live ports; the thread never
  sleeps on a stale array or past a timer; input and timers are served; no port is
  touched after its end; a timer is told to within a millisecond;
* server: one session per service at a time; services are conserved; a complete
  request is answered;
* read/write lock: readers share, a writer is alone, no waiter is forgotten; alarms ring
  in time, in order (save those set in the past), and all of them; a locker that waits
  has nothing;
* agent: no lock is deleted that somebody has or waits for, a GET sees no write that may
  be undone, undo restores what the request found, every request is answered; every task
  given to a pool is run, once;
* session: each request ends, and its owner is told once, however it ends; no message
  is used after its end.

`PROJECT.json` lists every hazard at its line.

## Modules

| Module | Models | Notes |
|---|---|---|
| `AbstractPool` | what `ServicePool` promises: a FIFO store | an abstract specification |
| `ServicePool` | `servicepool.cpp` and the `Conditional` inside it | one action per stretch between two points where another thread can get in; `WaitLocked` is the second argument of `cond.wait` |
| `SocketService` | the class: list, loop, poll array, timers | one operator per operation; no `Next` of its own |
| `PortOwners` | `SocketService` with the most general users the class allows | owner threads, callbacks, the outside world |
| `HTTPServer` | the server: acceptor, sessions, clients | extends `SocketService`, instantiates `ServicePool` |
| `TimerPort` | the arithmetic of `timerport.cpp` on a running clock | `Kilo` stands for 1000 |
| `AbstractRWLock` | what a read/write lock promises | an abstract specification |
| `RWLock` | `rwlock.c` with cancellation | shown and proved to implement `AbstractRWLock` |
| `AlarmCond` | `alarm_cond.c` with the clock | |
| `Backoff` | `backoff.c`, one mutex operation per step | |
| `MibRequests` | the requests of an agent and their locks | |
| `TaskPool` | both thread pools | `queued` says which |
| `MessageQueue` | the outstanding requests of a session, and the network | `Shared` says whether threads share the session |
| `ServicePool_proofs`, `PortOwners_proofs`, `HTTPServer_proofs` | theorems about the server | TLAPS |
| `RWLock_proofs`, `TimerPort_proofs`, `MCPthread_proofs` | theorems about the lock, the timers, and (in the last) `AlarmCond`, `Backoff` and the composition | TLAPS |
| `MibRequests_proofs`, `MCSnmp_proofs` | theorems about the agent, and (in the last) `TaskPool`, `MessageQueue` and the composition | TLAPS |
| `MC...` | symmetry, scripts, request lists, who of the owners acts | for TLC |

`MCPthread` and `MCSnmp` hold several models that share nothing. A variable `program`
says which of them a behaviour runs; the rest stay in an initial state. So one run
explores the sum of their state spaces and not the product.

**ServicePool.** `pc[t]` says where thread `t` is inside `getService`,
`freeService` or `Conditional::wait`; `owner` is the holder of the mutex; `arg[t]`
is the local variable `svc`; `out` the services in the hands of callers. `Push`,
`Pop` and `Signal` are separate steps, although the mutex is held, so that mutual
exclusion is a result and not an assumption. `pthread_cond_wait` is `Block`
(release and sleep in one step) and then `EnterMutex` from `wait.wake`; it may
return spuriously. The mutex is of the default kind, as in
`pthread_mutexattr_init` (`mutex.cpp` 131-136): a thread that locks it twice waits
for itself. `WaitLocked = FALSE` is the code; `TRUE` is the call that
`include/synchronization.h` 273 documents, `cond.wait(0, true)`.

**SocketService.** `first`, `last`, `count`, `next`, `prev`, `service` are the
members of these names. `rpc[s]` is where the thread of service `s` is in `run()`
(the `USE_POLL` branch: `include/common.h` 32 defines it), `cur` is the local variable
`port`, `called` the port whose callback runs. `polled` and `ufd` are the poll
array from its two sides, `in` and `hup` the `revents`. `iosync` is one bit: a
second byte in the pipe has no effect. The steps of `run()` under the mutex are
separate actions, so that callbacks and other threads' unlocked accesses
interleave with them; what another thread does under the mutex is one step. Timers are
`off`, `armed` or `due`; that `run()` finds a timer due (`RunDue`) and that it ends the
timer and calls `expired()` (`RunExpired`) are two steps, because `setTimer` takes no
lock. `SetTimer` itself is one step: the moment in which its timer is active with the
current time is left out. `StartThread` is `pthread_create`: a thread that runs already
is left as it is, and whoever can create a second one has to say so.

**PortOwners.** An owner constructs ports, sets timers or turns them off (`setTimer(0)`)
and moves ports from one service to another (`SocketPort::attach`); a callback may do
nothing, set its port's timer or turn it off, or delete the port. The constants say who
may do what. `Thread::start` (`thread.cpp` 496-508) is two steps, the test of `_tid`
(`OwnerStart`) and `pthread_create` (`OwnerCreate`), with no lock around them: `twice`
has the services that two owners created a thread for. What two `run()` then do to one
pipe, and with a poll array each to the `ufd` of the same ports, is not modelled, and
`NoMissedUpdate` says nothing about a service in `twice`. New ports get their names in a
fixed order; which is which does not matter. `MCPortMakers` splits the behaviours for TLC
into those of one owner that makes ports and sets timers, and those of several that
make ports.

**HTTPServer.** `apc` follows the acceptor through `run()` and the constructors, one
step for each stage a callback can observe (`phase`: the base, the virtual table, the
members, the body). `Thread::start` is one step here, because the acceptor is the only
thread that attaches ports, and so the only one that starts services. `hpc[s]` follows
service thread `s` through a method of a session. A request is a sequence of pieces: a
request line in one piece (`req`), in two (`head`, `tail`), one that `parseRequest`
rejects (`bad`), and the empty line (`blank`); `ReadLine` is what `Socket::readLine`
does with what has arrived on a non-blocking socket. A read of freed or unconstructed
memory either finds what was there or sets `wild`, after which the model says nothing;
liveness properties excuse the wild runs, safety properties hold up to them.

**TimerPort.** `sec` and `usec` are the `timeval`; `due` is a history variable, the
moment the calls so far have asked for. `Add` has the carry as the code has it
(`> 1000000`), and `Truncated` divides as C does.

**RWLock.** A function is one step from `pthread_mutex_lock` to the wait or the unlock,
because all of it is under the mutex. `pc[t]` is `sleep` in `pthread_cond_wait`,
`woken` when it wants the mutex back (after a signal or spuriously), `cancel` when the
thread was cancelled and its cleanup handler wants the mutex, `gone` after it. A
thread that is `cancel` still counts as waiting, but no wakeup reaches it.

**AlarmCond.** `tpc` follows `alarm_thread`; `main` is `Enter`, one step under the mutex.
The thread gives up the mutex only in its waits, and the clock runs between any two
steps. `main` reads the seconds with `%d` (179-187) and does not look at their sign;
`past` has the alarms that were set in the past.

**Backoff.** `i[t]` is the loop variable as a distance from the thread's first mutex, so
that one set of actions serves both directions; `mine[t]` is what the thread locked.
Unlocking somebody else's mutex frees it, as a default mutex on Linux does.

**MibRequests.** Entries are leaves or tables. A leaf's value is the name of the SET that
wrote it, which is all the properties compare. `asked[t]` is the list of bindings, `at`
the binding the request has come to, `locks[s]` the entry per binding that
`Request::set_locked` keeps, `row[s]` the bindings that `check_creation` leaves to
the first one of a new row. `before` is a history variable. A remover takes one entry
out of its context, removes a group, or names a context that does not exist. Removing an
entry alone waits for its lock first (`Unlink`, `Delete`). `remove_group`
(`mib_context.cpp` 499-515) does not: for each entry of the group the context forgets it
and the destructor of the derived class frees its value (`Strip`, into `stripped`),
and only then `~MibEntry` waits for the lock (`Reclaim`, into `freed`). What a request
does with an entry that it holds and that is stripped is undefined; the properties leave
such leaves out. A group's list keeps an entry that was removed alone: `remove_group`
reads its key after it was deleted (505), and goes on, or the thread is `lost`.

**TaskPool.** The callers of `execute()` and the thread of the queued pool go through the
same loop (`LookAt`, `SetTask`, `Relock`). A manager runs a task under its own lock;
`is_idle` reads without it. Notifications are lost when nobody waits, and every
wait ends by itself.

**MessageQueue.** What runs under the queue's lock is one action; between the actions
other threads run. `expired` is what was overdue when `DoRetries` took its `now`. The
network loses, delays and reorders datagrams; answers to earlier copies come as well.
`Shared = FALSE` is a session with one user: one thread with blocking requests, or the
poll thread, which other threads give requests to and cancel them between two rounds.

## Runs

Every passing run is exhaustive. `PROJECT.json` gives for each property a mutant
of the code under which it fails.

| Run | Instance | Shows |
|---|---|---|
| `Pool_documented` | 2 getters, 2 freers, 3 services, wait as documented | types, no service lost or doubled, no lost wakeup, the pool is a FIFO store; no deadlock |
| `Pool_stuck` (violation) | the code, 1 getter, 1 freer, 1 service | a getter that finds the queue empty never returns |
| `Svc_port` | 1 service, 2 ports; 1 owner that sets timers, or 2 owners; `disconnect` deletes, `expired` sets timers | the service gets one thread, the list is a list, only live ports are touched, no sleep on a stale array, input and timers are served |
| `Svc_move` | 2 services, 1 port, 2 owners, moving | no sleep on a stale array when a port changes service, while the service has one thread |
| `Svc_freed` (violation) | every callback may delete its port | `run()` reads the port after `pending()` or `expired()` deleted it |
| `Http_code` | the code, 1 service, 3 connections, requests that are bad or whose line comes in two pieces, together or not, close, reset, failing `accept` | the order "give the service back, then detach" is harmless: no service is lent twice or has two sessions; a pool found empty stays so |
| `Http_live` | wait as documented, 1 service, 3 connections | services are conserved, every request that comes whole is answered, the acceptor comes back |
| `Http_unserved` (violation) | the code, 1 service, 2 connections, reset | NULL is given to the pool after a reset, and a later session has no service |
| `Pthread` | 3 threads at the read/write lock, 3 alarms, 3 mutexes, 1 timer | the lock implements a read/write lock, counts its users, forgets no waiter; alarms ring in order, late ones set in the past aside, and all of them; lockers wait with nothing; timers are exact to a millisecond |
| `Snmp` | 1 GET, 2 SETs, 2 removers, 1 group; 1 asynchronous and 1 blocking request; 2 managers, 3 tasks | isolation, undo and answers of an agent; a session tells each request once how it ended, and each one ends; tasks are run once each |
| `Msg_shared` (violation) | two threads share a session | a message is deleted that another thread is about to resend or call back |
| `Mib_rollback` (violation) | a SET creates a row and then writes a leaf | the leaf keeps its old copy, which the next failing SET restores |

**Bounds.** In the server the sets of threads, services, ports and connections are the
only bounds; no counter is cut. A port object is made once, so a run ends when all
ports are gone. Two getters and two freers give every pair of roles around one
sleeping thread; three services let two be freed while one getter sleeps. Two ports
give a list with a first and a last one and a detach at either end while `run()`
stands on the other; three connections on one service give a second reuse while
the first session is still being destroyed. `Svc_port` asks about the double start with
the owners that can race for it, two; its second half lets only callbacks set timers,
since owners that set timers are in the first. `Svc_move` has moves, with which two owners
do create two threads for one service (see below). `Pool_documented`, `Svc_move` and
`Http_code` use symmetry, and check no liveness.

`Pthread`: three threads are two that wait and one that unlocks, all of them
cancellable; three alarms with delays -2 and 0 to 3 before time 5 let an alarm come
before, between and after two others, at the moment of a timeout, with a delay of 0 and
in the past; three mutexes are the program's. The timer has `Kilo` = 4 and timeouts
around whole seconds on a clock of almost four seconds; its theorem is for every `Kilo`.
`Snmp`: two SETs name two entries in opposite orders, a GET reads both, and two removers
may take either away or both as a group, at any moment (in a fixed order of their names,
since they are alike); the row of two columns comes last in its request (`Mib_rollback`
has it first). One retry gives two copies of a request, and so an answer to an earlier
copy. Three tasks are one more than managers.

Deadlock is checked in `Pool_documented` only: in the other runs the system really
comes to an end, when all ports, clients, alarms or requests are done.

**Fairness.** A thread that can run does run. In the server, strong fairness stands for
mutexes that do not pass over one waiter for ever: pthread mutexes do not promise it
by the letter, but every critical section here is short and the liveness statements
would otherwise be about the scheduler. A spurious wakeup is never owed. In
`ServicePool` callers give services back; in `PortOwners` armed timers run out, and
`InputServed` and `TimerServed` assume `TimersEnd`, that timers are not set for
ever (the loop around `retry` calls `expired()` again as long as it leaves
a due timer behind). In `HTTPServer` clients send what they have to send; nobody
must connect or leave.

In `RWLock` threads run and give the lock back; `WaitersReturn` assumes that they do not
call the lock for ever, because new callers may overtake a waiter any number of times
(the header of `rwlock.c` promises it no order). In `AlarmCond` the thread runs, time
passes, and a timed wait whose time has come ends (strongly fair, since spurious
wakeups may interrupt it); nobody has to enter alarms. In `MibRequests` threads run,
and nothing is asked of the locks, nor of removers to call. In `MessageQueue` threads
run and time passes; the network may lose everything. In `TaskPool` time limits
pass, and a manager gets the pool's lock in the end.

## What the code does that its documentation does not say

Each of these has a run that shows it, and an entry in `PROJECT.json`:

* `ServicePool::getService` (`servicepool.cpp:19`) calls `cond.wait()` with the
  mutex held and without saying so; it locks it twice and waits for itself. The
  server stops accepting, and finishing sessions stop in `freeService`, as soon as
  the acceptor asks while all services are in use (`Pool_stuck`).
* `SocketService::run` (`socketport.cpp:568`) reads a port that its callback may
  have deleted, which `HTTPSession::pending` does after every answer (`Svc_freed`).
* `run` detaches before `disconnect()` (`socketport.cpp:551-553`), so that
  `~HTTPSession` (`httpservice.cpp:14`) gives NULL back: the service is lost and
  the NULL is later lent (`Http_unserved`).
* `DoRetries` (`snmp++/src/msgqueue.cpp:541`) and `HandleEvents` (510) use a message
  after they have unlocked the queue, while another thread may delete it, although
  `uxsnmp.h:96` says that the class is thread safe (`Msg_shared`).
* `process_cleanup_set_request` (`agent++/src/mib.cpp:3757`) stops at the first binding
  without a lock, as `check_creation` (2235) leaves the bindings of a new row; a leaf
  after them keeps the copy that `mib.h:473` says a later undo restores
  (`Mib_rollback`).

In the models without a run of their own: a port attached again keeps its old `next`,
so that the lists of two services run together (`socketport.cpp:424`, reachable with
two ports and `Reattaching`, and only by moving a port that has a successor, as the
theorems about `MovesLast` show); end of file is not POLLHUP, and `pending()`
(`httpservice.cpp:85`) is called again and again on a connection whose client is gone;
`readLine` (`socket.cpp:295`) consumes the piece of a line it then reports as an error on
a non-blocking socket; `parseRequest` throwing leaves `sessionsem` at 0 (`ParseThrows`,
then `Pending` waits for ever with the mutex of the service); a callback can reach a
session whose members are not constructed (`UnbuiltCallback`); a failing `accept` loses
a service (`AcceptFails`); a timer set between `getTimer()` and `endTimer()` is
dropped (`socketport.cpp:576`); `rwl_writeunlock` broadcasts to readers that are all being
cancelled and leaves a writer asleep until the next unlock (`rwlock.c:261`, the exception
in `NoLostWakeup`); an alarm set in the past can be entered between the timeout of another
and the mutex, and is printed after it, although it is earlier (`alarm_cond.c:179`, the
exception in `RingsInOrder`); `backoff.c:56` unlocks a mutex it does not hold.

Nothing is locked between the test of `_tid` and `pthread_create` (`thread.cpp:496`). An
owner that found its port to be the first of a service may be overtaken there: another
owner moves the port away, and then finds one that it attaches to be the first again; so
the service gets two threads. TLC finds it when `OneThread` is added to `Svc_move`, and two
owners are enough; without moves it cannot happen (`StartedOnce`).

In the agent, `Mib::remove` with an unknown context returns with the MIB locked
(`mib.cpp:2907`). `remove_group` frees the value of an entry while a GET or a SET may be
using it, although `mib.h:2554` argues, under "Why is this save?", that a removed entry is
used by nobody (`mib_context.cpp:507`, `mib.cpp:187` before `mib_entry.cpp:147`); and it
reads the keys of entries that were removed alone (505). These three are the exceptions
in `AgentAnswers`, and the second is why `EntriesInUseExist` is about locks, and
`NoDirtyRead` and `RollbackRestores` about leaves that are not stripped.

## Proofs

Every safety property that a passing run checks, be it an invariant, an action property
or a refinement, is also a theorem, for all values of the constants: from the named
ASSUMEs of the modules and, where a theorem says so, a hypothesis of its own, which the
runs meet too. Hardly any of these properties is inductive as it stands; what is proved
is a stronger invariant, which TLC checked on the instances of the runs first. Behind most
liveness properties there is a safety property that is proved: nothing that has to happen
is ever out of everybody's sight (`NoLostWakeup` behind `AcceptorReturns` and
`WaitersReturn`, `NoMissedUpdate` behind `InputServed` and `TimerServed`, `NoOversleep`
behind `EveryAlarmRings`, `WaitsEnd` behind `AgentAnswers`, `NoTaskForgotten` behind
`EveryTaskRuns`, `NobodyForgotten` behind `EveryRequestEnds`).

**ServicePool_proofs**, for every set of threads and services (finite sets of services)
and both values of `WaitLocked` unless said otherwise:

* `TypeCorrect`, `MutexCorrect`, `AccountingCorrect`: `TypeOK`, `MutexHeld` and
  `Accounting` are invariants;
* `WakeupsCorrect`: `NoLostWakeup`, for finitely many threads;
* `WedgeIsForever`: `EmptyPoolWedges`, that a thread at the second `enterMutex` of
  `cond.wait` never leaves it and keeps the mutex. `Http_code` checks the same
  formula in the composed server;
* `Implementation`: `ImplementsPool`, the refinement of `AbstractPool` with the
  queue as the store and everything outside it as lent.

`Accounting` needs to know that a thread about to push carries a service and that a
thread elsewhere carries none (`ArgLabels`), that only one thread is between lock and
unlock (`MutexHeld`), and that a thread is at `wait.enter` or `wait.leave` only if the
wait locks by itself (`WaitKind`). `IInv` is the conjunction of all of them;
`InvariantStep` shows that every step preserves it, one lemma per conjunct and one step
per action in each. `TailOfInjective` and `AppendToInjective` say what popping and
pushing do to a queue without repetitions and to its range. `NoLostWakeup` adds one
fact (`WakeupInv`): a thread goes to sleep on an empty queue only. The rest of its proof
counts the threads that are on their way to look at the queue (`Alert`). The refinement
is by cases: `Pop` is `Acquire`, `Push` is `Release`, every other step a stutter;
`Accounting` gives that the pushed service was lent.

**PortOwners_proofs**, for any services, owners and finitely many ports, all choices of
who sets timers and which callbacks delete, with owners that move ports between services
as long as they move the last port of a list only (`MovesLast`), and until two of them have
created a thread for one service (`OneThread =>`; a thread too many stays, so this is
not a matter of a moment):

* `PortTypesCorrect` (`TypeOK`, which needs no `OneThread`);
* `ListsCorrect` (`ListWellFormed`): the links stay one list of live ports, with their
  number as its count, although callbacks take ports out of it while `run()` walks it;
* `UpdatesCorrect` (`NoMissedUpdate`): no sleep on a stale array or past a timer;
* `NoPortUsedAfterFree` (`NoUseAfterFree`), if only `disconnect()` deletes its port.
  `Svc_freed` shows that the hypothesis is needed;
* `OnePortMoves`: all four without `MovesLast`, if there is one port only; `Svc_move` is
  an instance;
* `StartedOnce` (`OneThread`), with neither hypothesis, if nobody moves ports or there is
  one owner: no service gets two threads, although `Thread::start` locks nothing;
* `FixedPorts`: `OneThread` and all four, with no hypothesis but that nobody moves ports,
  for any number of owners; `Svc_port` is an instance.

`StartInv` is why one thread is enough without moves: who found its port to be the first
of a service without a thread (`Starting`) is alone with that until the thread runs, since
a service that does not run loses ports only to moves (`Sole`).

`MovesLast` is a condition on steps, `Spec /\ [][MovesLast]_vars`, and it is what the class
leaves to its callers: `attach` keeps `port->next` as it was (`socketport.cpp:424`), so that
a port taken from the middle of a list brings its old successors into the new one. Last
of a list is exactly when there are none.

`PortInv` states the list with a witness: a sequence of ports which the links follow in
both directions (`IsList`), and which holds exactly the ports whose `service` is this
one and which are linked (`Lists`; a port that is moved has its new service before it is
in its list). Linking, and unlinking at either end or in the middle, is about such
sequences alone; `ChainIs` says that what `run()` meets from `first` on is the range of
the sequence. `OwnersInv` says that only its owner knows a port that is being made or
moved; `WalkAt` where the thread can be and that its port is in the list or has deleted
itself, with its successor in the list; `ArrayAt` what `ufd` and the array have to do with
each other. The heart is `SleepAt`: unless a byte is in the pipe or somebody is about to
write one, what the thread has passed on its walk makes it rebuild the array and limit
its sleep.

**HTTPServer_proofs**, for any services (finitely many), connections, scripts of the
clients and kinds of hangup, both values of `WaitLocked`, with `accept` failing or not:

* `ServerTypesCorrect` (`TypeOK`), `SessionsCorrect` (`OneSessionPerService`),
  `PoolCorrect` (`PooledIsFree`), `LendingCorrect` (`LentOnce`);
* `EmptyPoolStaysWedged` (`EmptyPoolWedges`);
* `ServicesKept` (`ServicesConserved`), if no connection is reset: on POLLHUP
  `~HTTPSession` gives NULL back and the service is lost, as `Http_unserved` shows. A
  service that an acceptor takes with it when `accept` fails counts as the acceptor's.

`ServerInv` puts the acceptor (`AcceptorInv`), each service thread and the method it is
in (`ThreadAt`), the stages of a session (`Sessions`) and the one port of a list
(`OneList`) together. `TokenAt` is why it works: a service is in the pool, or on the
acceptor's way out of `getService`, or the acceptor's, or a session's that has not begun
to give it back, or on its way into `freeService`, and never in two of these places, for
`~HTTPSession` gives it back once and before it detaches (`OnceInPool`). Therefore the
next session can be attached only after the mutex of the service is free again, which is
when the last one is out of the list. `Kept`, for `ServicesKept`, says that it is
always in one of them.

The server uses the pool, and `ServicePool` says how its users behave: who calls
`freeService` has the service. `ServerUsesPool` proves that the server is such a user
(`Spec => Pool!Spec`), again if no connection is reset. `HandedInv` is what that takes:
a service that a session or the acceptor has (`InHand`) was lent and not given back yet,
and nothing on its way into or out of the queue is NULL. The theorems about the pool then
hold in the server and need no proof of their own but the instance of
`ServicePool_proofs` they come from: `ServerAccounting`, `ServerWakeups` and
`ServerImplementsStore`. `SessionsServed` (`SessionIsServed`) follows too: the session that
`Http_unserved` finds without a service is always due to a reset.

**RWLock_proofs**, for every finite set of threads and any cancellable ones
(`ThreadsFinite`, `CancellableThreads`): `TypeCorrect`; `CountersCorrect` (`CountersExact`:
the four counters are the numbers of threads that hold and wait); `ExclusionCorrect` (a
writer is alone); `WakeupsCorrect` (`NoLostWakeup`: while the lock is free, a sleeper has
somebody who will wake it, unless a waiting reader was cancelled); `Implementation`
(`ImplementsRWLock`). `IInv` joins types, counters, the fit of `held` to `pc`, and that an
active writer excludes active readers: the code tests counters, and only `CountersExact`
turns the tests into statements about threads. Lemmas about cardinalities carry one
thread from one set to another.

**TimerPort_proofs**, for every `Kilo` of at least 1 and all timeouts:
`ExactnessCorrect` (`ExactToTheMillisecond`). `Stands` says that seconds and
microseconds together are the moment asked for, whether a whole second was carried
or not; what the getters tell of it is then arithmetic (`DifferenceTells`).

**MCPthread_proofs**:

* `BackoffCorrect` (`WaitsEmptyHanded`), for any number of mutexes: a locker holds only
  mutexes it came by on its way, and each locked mutex is somebody's (`BackoffInv`). The
  unlocking of the other's mutex takes away from these sets and adds nothing;
* `NoOversleepCorrect` (`NoOversleep`) and `RingsCorrect` (`RingsInOrder`), for any delays,
  negative ones included, and any bounds on time and alarms; an alarm that is passed over
  was set in the past. `AlarmInv` keeps the list sorted and says what the
  thread knows at each of its places: the hardest is the wakeup (`twoken`), after which
  `current_alarm` may be its own alarm's time or an earlier one, but nothing in the
  list is earlier than it;
* `AllTypesCorrect` (`AllTypesOK`), from the invariants of the four programs together, and
  `PthreadCorrect`: the composition that `Pthread` runs is each program's specification
  (`PthreadParts`), so that all theorems about them hold of it.

**MibRequests_proofs**, for any entries, requests and lists of bindings (`NoOneIsNobody`,
`InitialIsNobody`, `KindsDiffer`, `ReadsOfEntries`, `WritesOfEntries`) and any groups
(`GroupsOfEntries`):

* `EntriesCorrect` (`EntriesInUseExist`): a deleted entry's lock is nobody's and nobody
  waits for it; and if a request has an entry without its value, `remove_group` came to
  the entry while the request had it, and waits for it now. It follows from an `IInv`
  that says which labels hold the MIB's lock, and that entries that a thread has come to
  are in their context as long as it has the MIB;
* `EntriesKeepValues`: without groups, what `mib.h` claims holds as it stands, and nobody
  ever has an entry that has lost its value;
* `IsolationCorrect` (`NoDirtyRead`), from `Isolated`: what an unfinished SET has written
  it has locked (`Owned`), and no leaf has the name of a SET that has not come to it
  (`Fresh`);
* `RollbackCorrect` (`RollbackRestores`), from `Restorable`: what a SET found in a leaf it
  has is its value, or the copy once it has been written (`Recorded`); a copy belongs to
  a SET that has committed the leaf and still has it (`Copied`); and bindings are locked,
  committed and given back in their order (`Ordered`);
* `NobodyWaitsInCircles` (`WaitsEnd`), with no hypothesis: whoever a thread waits for
  (`WaitsFor`, for the MIB or for an entry) works, or waits for one that works, except
  after `remove()` from a context that does not exist, or with a thread that went astray
  in a deleted entry of a group. SETs lock entries in the order of
  their bindings, so that no order of the locks can be the reason; it is that only the
  holder of the MIB asks for an entry, and that who has an entry without the MIB asks for
  nothing (`Holders`).

`IsolationCorrect` and `RollbackCorrect` assume that no SET names a leaf twice
(`OneBindingPerLeaf`), with which the last binding that has a leaf is the only one.
`RollbackCorrect` also assumes that the bindings of a new row come after the leaves
(`RowsLast`): cleanup ends at the first binding without an entry and would leave copies
behind it, as `Mib_rollback` shows.

**MCSnmp_proofs**:

* `TasksCorrect` (`TasksConserved`), for any finite set of tasks, any number of managers and
  both kinds of pool, by counting: `PoolInv` says who has a task in hand, and one lemma per
  operation that what it takes from one place it puts into another;
* `MessagesExist` (`NoUseAfterFree`), `EndsToldOnce` (`ToldOnce`) and `AnswersWin`
  (`AnswerWins`), for any requests, poll threads and retries, in a session with one user
  (`Shared = FALSE`, which `Msg_shared` shows to be needed) in which only asynchronous
  requests are cancelled. `MsgInv` says who has `pevents_mutex` (`EventsLocked`), that a
  blocking request has the session to itself (`OneUser`), that a message that is being
  looked at is in the queue (`MessagesHeld`), and when nothing has been told yet (`Untold`);
* `TasksWatched` (`NoTaskForgotten`): a task that was not run is with a manager that does
  not wait, in the hand of a caller that has not returned, or in a queue whose runner
  goes on. `Watched` says why no notification has to come in time: a manager is given a
  task and told so in one step, and nobody leaves with a task in hand;
* `RequestsFollowed` (`NobodyForgotten`), for shared sessions and any cancelled requests
  too: the owner of an entered request has been told, or the message is still in the
  queue, or its thread is in its call. The exceptions of the three theorems above are
  about using a message too late, not about forgetting a request;
* `SnmpTypesCorrect` (`AllTypesOK`), and `SnmpCorrect`, which carries what holds of agent,
  session and pool over to their composition, the specification of `Snmp`.

**Model-checked only.** Liveness, which is out of the prover's reach, as fairness and
ENABLED are: `InputServed`, `TimerServed`, `RequestAnswered`, `AcceptorReturns`,
`WaitersReturn`, `EveryAlarmRings`, `AgentAnswers`, `EveryRequestEnds`, `EveryTaskRuns`.
The violations (`Pool_stuck`, `Svc_freed`, `Http_unserved`,
`Msg_shared`, `Mib_rollback`), which are counterexamples.

## Not modelled

In the server: what two threads of one service do (`twice` only says that there are two);
`output()` and the detect flags; `POLLNVAL`; the destructors of
`SocketService` and `ServicePool` (the server never runs them); UDP and outgoing
connections; the `select()` branch; the bytes of socket I/O (a request is a sequence of
pieces); the parsing of heads and the choice and sending of files; addresses,
exceptions' texts, logging; `Thread` beyond `start`; a clock that is set back.

In `s7/mt`: the option that turns back-off off, and the programs that demonstrate one
pthread call each.

In `se12_snmp`: encoding (BER), OIDs, addresses and the cryptography of SNMPv3, which
are data here; adding entries and groups to a running agent, and what a request does
with an entry whose value was freed under it; access control, the proxy, rows of tables
and their status, persistence; notifications and user-defined events of a session;
destructors of the pools; the groups of standard MIBs and the generated examples, which
make up most of its lines and consist of tables built on `mib.cpp`.

Elsewhere: the language lessons (`l2`, `s1` ... `s5`, `s9`) and the earlier course
directories have no lasting state; `s7/thr_hw` repeats classes of the server; `s6` and
`s8` show single system calls and echo servers; the scripts and other-language exercises
have no program logic.

## Plan

Done, in this order: `AbstractPool`, `ServicePool` and its proofs, `SocketService`,
`PortOwners`, `HTTPServer`; `RWLock` with its abstraction and proofs, `AlarmCond`,
`Backoff`, `TimerPort` and its proof; `MibRequests`, `MessageQueue`, `TaskPool`; the
proofs of all their safety properties, of what moving ports needs, and that the server
is a user of its pool. Next:

1. `SocketIO`: `readLine`, `readData` and `writeData` on sequences of bytes and
   arbitrary segmentation, as recursive functions against a reference; it then
   replaces `ReadLine` in `HTTPServer`.
2. `Thread`: start, detach, terminate, exit, suspend; the destructor of
   `SocketService` on top of it; deletion of ports by other threads.
3. The detect flags and `output()` in `SocketService`.
4. Rows of an `agent++` table and their status, on top of `MibRequests`.
