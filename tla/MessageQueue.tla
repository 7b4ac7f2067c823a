------------------------------ MODULE MessageQueue ------------------------------
(* The outstanding requests of one Snmp session of snmp++: snmp_engine sends *)
(* a datagram and enters the request in the CSNMPMessageQueue; the poll      *)
(* thread, and every thread in a blocking call, process events: they match   *)
(* responses with requests, resend what is overdue and call back.            *)
(*                                                                           *)
(* One thread at a time processes events (pevents_mutex), but the queue's    *)
(* own lock is given up around every use of a message: what runs under it    *)
(* from lock() to unlock() is one action here, and cancel() and the callers  *)
(* of blocking requests run between the actions.  A message that was deleted *)
(* is read with its last contents, as freed memory usually still is.         *)
EXTENDS Integers, FiniteSets, Sequences

CONSTANTS Async,      \* requests with a callback
          Sync,       \* blocking requests; each is also the name of its thread
          Pollers,    \* the poll thread of start_poll_thread
          Cancelled,  \* the requests somebody may cancel
          Retries,    \* the target's number of retries
          Shared,     \* TRUE: threads share the session, as its header allows;
                      \* FALSE: whoever processes events is its only user
          NoThread

Requests == Async \cup Sync
Processors == Pollers \cup Sync
Outcomes == {"response", "timeout", "cancelled", "destroyed", "failed"}

VARIABLES queue,     \* the requests that have an entry
          state,     \* "new", "sent" (not entered yet), "entered"
          armed,     \* the requests whose m_callBack is not NULL
          received,  \* m_received
          retry,     \* get_retry() of the message's target
          overdue,   \* the requests whose m_sendTime has passed
          expired,   \* of these, the ones overdue at the "now" of DoRetries
          wire,      \* per request, copies on their way to the agent
          inbox,     \* per request, responses in the socket
          outcome,   \* what the requester was told: empty, then one outcome
          pevents,   \* the thread that holds pevents_mutex
          pc, cur,   \* where each processing thread is, and with which message
          session    \* "open", "closing" (in ~Snmp) or "closed"

msgVars == <<queue, state, armed, received, retry, overdue>>
netVars == <<wire, inbox>>
vars == <<msgVars, expired, netVars, outcome, pevents, pc, cur, session>>

(* start_poll_thread may have been called or not. *)
Init ==
    /\ queue = {} /\ armed = {} /\ received = {} /\ overdue = {} /\ expired = {}
    /\ state = [r \in Requests |-> "new"]
    /\ retry = [r \in Requests |-> Retries]
    /\ wire = [r \in Requests |-> 0]
    /\ inbox = [r \in Requests |-> 0]
    /\ outcome = [r \in Requests |-> <<>>]
    /\ pevents = NoThread
    /\ \E first \in {"top", "ended"} :
         pc = [t \in Processors |-> IF t \in Pollers THEN first ELSE "idle"]
    /\ cur = [t \in Processors |-> NoThread]
    /\ session = "open"

Goto(t, label) == pc' = [pc EXCEPT ![t] = label]

(* The thread is finished with its message. *)
Leave(t, label) == Goto(t, label) /\ cur' = [cur EXCEPT ![t] = NoThread]

Delete(r) == queue' = queue \ {r} /\ overdue' = overdue \ {r}

Tell(r, what) == outcome' = [outcome EXCEPT ![r] = Append(@, what)]

(* The poll thread runs, or a thread is inside a blocking request. *)
Polling == \E t \in Pollers : pc[t] # "ended"
Blocking(r) == r \in Sync /\ state[r] # "new" /\ pc[r] # "done"

(* What a program with one thread, or with the poll thread only, keeps to. *)
MaySend(r) == r \in Sync => Shared \/ (~Polling /\ \A s \in Sync : ~Blocking(s))
MayCancel == Shared \/ pevents = NoThread
--------------------------------------------------------------------------------
(* snmp_engine: the datagram goes out, or send_snmp_request fails. *)
Send(r) ==
    /\ state[r] = "new" /\ session = "open" /\ MaySend(r)
    /\ \/ /\ state' = [state EXCEPT ![r] = "sent"]
          /\ wire' = [wire EXCEPT ![r] = 1]
          /\ UNCHANGED <<outcome, pc>>
       \/ /\ state' = [state EXCEPT ![r] = "entered"]
          /\ Tell(r, "failed")
          /\ IF r \in Sync THEN Goto(r, "done") ELSE UNCHANGED pc
          /\ UNCHANGED wire
    /\ UNCHANGED <<queue, armed, received, retry, overdue, expired, inbox, pevents,
                   cur, session>>

(* AddEntry; a blocking request goes on into SNMPBlockForResponse. *)
AddEntry(r) ==
    /\ state[r] = "sent"
    /\ queue' = queue \cup {r}
    /\ state' = [state EXCEPT ![r] = "entered"]
    /\ armed' = IF r \in Async THEN armed \cup {r} ELSE armed
    /\ IF r \in Sync THEN Goto(r, "select") ELSE UNCHANGED pc
    /\ UNCHANGED <<received, retry, overdue, expired, netVars, outcome, pevents, cur,
                   session>>

(* cancel: DeleteEntry under the lock. *)
Cancel(r) ==
    /\ r \in Cancelled \cap queue
    /\ MayCancel /\ session = "open"
    /\ Delete(r)
    /\ Tell(r, "cancelled")
    /\ UNCHANGED <<state, armed, received, retry, expired, netVars, pevents, pc, cur,
                   session>>

(* The agent answers a copy of the request, or a datagram is lost. *)
Agent(r) ==
    /\ wire[r] > 0
    /\ wire' = [wire EXCEPT ![r] = @ - 1]
    /\ \/ inbox' = [inbox EXCEPT ![r] = @ + 1]
       \/ UNCHANGED inbox
    /\ UNCHANGED <<msgVars, expired, outcome, pevents, pc, cur, session>>

TimePasses(r) ==
    /\ r \in queue \ overdue
    /\ overdue' = overdue \cup {r}
    /\ UNCHANGED <<queue, state, armed, received, retry, expired, netVars, outcome,
                   pevents, pc, cur, session>>
--------------------------------------------------------------------------------
(* process_thread: while (is_running()). *)
PollLoop(t) ==
    /\ t \in Pollers /\ pc[t] = "top"
    /\ Goto(t, IF session = "open" THEN "select" ELSE "ended")
    /\ UNCHANGED <<msgVars, expired, netVars, outcome, pevents, cur, session>>

(* SNMPProcessEvents: select() returns, and pevents_mutex is taken. *)
LockEvents(t) ==
    /\ pc[t] = "select"
    /\ pevents = NoThread
    /\ pevents' = t
    /\ Goto(t, "poll")
    /\ UNCHANGED <<msgVars, expired, netVars, outcome, cur, session>>

(* Only sockets of entries are looked at; "now" is taken after select(). *)
Readable == queue # {} /\ \E r \in Requests : inbox[r] > 0

Poll(t) ==
    /\ pc[t] = "poll"
    /\ expired' = overdue \cap queue
    /\ Goto(t, IF Readable THEN "receive" ELSE "retry")
    /\ UNCHANGED <<msgVars, netVars, outcome, pevents, cur, session>>

(* HandleEvents looks at the entries once more and takes one response. *)
Receive(t) ==
    /\ pc[t] = "receive"
    /\ \/ /\ queue = {}
          /\ Goto(t, "poll")
          /\ UNCHANGED <<inbox, cur>>
       \/ \E r \in Requests :
            /\ queue # {} /\ inbox[r] > 0
            /\ inbox' = [inbox EXCEPT ![r] = @ - 1]
            /\ cur' = [cur EXCEPT ![t] = r]
            /\ Goto(t, "match")
    /\ UNCHANGED <<msgVars, expired, wire, outcome, pevents, session>>

(* A mutant of Match: the message is dequeued before its callback. *)
MMatchDequeues(t) ==
    /\ pc[t] = "match"
    /\ IF cur[t] \in queue
       THEN Delete(cur[t]) /\ Goto(t, "callback") /\ UNCHANGED cur
       ELSE Leave(t, "poll") /\ UNCHANGED <<queue, overdue>>
    /\ UNCHANGED <<state, armed, received, retry, expired, netVars, outcome, pevents,
                   session>>

(* GetEntry and SetPdu under the lock; a response without entry is ignored. *)
Match(t) ==
    /\ pc[t] = "match"
    /\ IF cur[t] \in queue
       THEN received' = received \cup {cur[t]} /\ Goto(t, "callback") /\ UNCHANGED cur
       ELSE Leave(t, "poll") /\ UNCHANGED received
    /\ UNCHANGED <<queue, state, armed, retry, overdue, expired, netVars, outcome,
                   pevents, session>>

(* A mutant of Callback: it leaves m_callBack as it is. *)
MCallbackStaysArmed(t) ==
    /\ pc[t] = "callback"
    /\ IF cur[t] \in armed
       THEN Tell(cur[t], "response")
       ELSE UNCHANGED outcome
    /\ Leave(t, "poll")
    /\ UNCHANGED <<msgVars, expired, netVars, pevents, session>>

(* msg->Callback(SNMP_CLASS_ASYNC_RESPONSE), without the lock. *)
Callback(t) ==
    /\ pc[t] = "callback"
    /\ IF cur[t] \in armed
       THEN /\ armed' = armed \ {cur[t]}
            /\ Tell(cur[t], "response")
            /\ Goto(t, "answered")
            /\ UNCHANGED cur
       ELSE Leave(t, "poll") /\ UNCHANGED <<armed, outcome>>
    /\ UNCHANGED <<queue, state, received, retry, overdue, expired, netVars, pevents,
                   session>>

(* The callback has returned: DeleteEntry under the lock. *)
Answered(t) ==
    /\ pc[t] = "answered"
    /\ Delete(cur[t])
    /\ Leave(t, "poll")
    /\ UNCHANGED <<state, armed, received, retry, expired, netVars, outcome, pevents,
                   session>>
--------------------------------------------------------------------------------
(* Where a thread goes when SNMPProcessPendingEvents returns. *)
Return(t) ==
    /\ pevents' = NoThread
    /\ expired' = {}
    /\ Leave(t, IF t \in Pollers THEN "top" ELSE "check")

(* DoRetries: the entry with the earliest time, as long as that has passed. *)
Retry(t) ==
    /\ pc[t] = "retry"
    /\ \/ \E r \in queue \cap expired :
            /\ cur' = [cur EXCEPT ![t] = r]
            /\ Goto(t, "resend")
            /\ UNCHANGED <<pevents, expired>>
       \/ queue \cap expired = {} /\ Return(t)
    /\ UNCHANGED <<msgVars, netVars, outcome, session>>

SetSendTime(r) == overdue' = overdue \ {r}

(* ResendMessage without the lock, when the response is already there. *)
ResendReceived(t) ==
    /\ pc[t] = "resend" /\ cur[t] \in received
    /\ SetSendTime(cur[t])
    /\ expired' = expired \ {cur[t]}
    /\ Leave(t, "retry")
    /\ UNCHANGED <<queue, state, armed, received, retry, netVars, outcome, pevents,
                   session>>

(* A mutant of TimeOut: it does not look whether the response is there. *)
MTimeOutReceived(t) ==
    LET r == cur[t] IN
    /\ pc[t] = "resend" /\ retry[r] = 0
    /\ armed' = armed \ {r}
    /\ IF r \in armed THEN Tell(r, "timeout") ELSE UNCHANGED outcome
    /\ Goto(t, "timedout")
    /\ UNCHANGED <<queue, state, received, retry, overdue, expired, netVars, pevents,
                   cur, session>>

(* No retries are left: Callback(SNMP_CLASS_TIMEOUT), without the lock. *)
TimeOut(t) ==
    LET r == cur[t] IN
    /\ pc[t] = "resend" /\ r \notin received /\ retry[r] = 0
    /\ armed' = armed \ {r}
    /\ IF r \in armed THEN Tell(r, "timeout") ELSE UNCHANGED outcome
    /\ Goto(t, "timedout")
    /\ UNCHANGED <<queue, state, received, retry, overdue, expired, netVars, pevents,
                   cur, session>>

(* A mutant of Resend: the retry is not counted. *)
MResendUncounted(t) ==
    LET r == cur[t] IN
    /\ pc[t] = "resend" /\ r \notin received /\ retry[r] > 0
    /\ SetSendTime(r)
    /\ expired' = expired \ {r}
    /\ Leave(t, "retry")
    /\ UNCHANGED <<queue, state, armed, received, retry, netVars, outcome, pevents,
                   session>>

(* A mutant of Resend: it takes one retry more than there are. *)
MResendPastZero(t) ==
    LET r == cur[t] IN
    /\ pc[t] = "resend" /\ r \notin received /\ retry[r] >= 0
    /\ retry' = [retry EXCEPT ![r] = @ - 1]
    /\ SetSendTime(r)
    /\ wire' = [wire EXCEPT ![r] = @ + 1]
    /\ expired' = expired \ {r}
    /\ Leave(t, "retry")
    /\ UNCHANGED <<queue, state, armed, received, inbox, outcome, pevents, session>>

(* One more copy goes out; when send fails, DoRetries returns at once. *)
Resend(t) ==
    LET r == cur[t] IN
    /\ pc[t] = "resend" /\ r \notin received /\ retry[r] > 0
    /\ retry' = [retry EXCEPT ![r] = @ - 1]
    /\ SetSendTime(r)
    /\ \/ /\ wire' = [wire EXCEPT ![r] = @ + 1]
          /\ expired' = expired \ {r}
          /\ Leave(t, "retry")
          /\ UNCHANGED pevents
       \/ Return(t) /\ UNCHANGED wire
    /\ UNCHANGED <<queue, state, armed, received, inbox, outcome, session>>

(* msg->GetId() after the callback, and DeleteEntry under the lock. *)
TimedOut(t) ==
    /\ pc[t] = "timedout"
    /\ Delete(cur[t])
    /\ Leave(t, "retry")
    /\ UNCHANGED <<state, armed, received, retry, expired, netVars, outcome, pevents,
                   session>>
--------------------------------------------------------------------------------
(* SNMPBlockForResponse: Done(), then the answer is collected or it is taken *)
(* for a timeout, because the entry is gone.                                 *)
Check(r) ==
    /\ r \in Sync /\ pc[r] = "check"
    /\ IF r \in queue /\ r \notin received
       THEN Goto(r, "select") /\ UNCHANGED <<queue, overdue, outcome>>
       ELSE /\ Goto(r, "done")
            /\ Delete(r)
            /\ Tell(r, IF r \in queue THEN "response" ELSE "timeout")
    /\ UNCHANGED <<state, armed, received, retry, expired, netVars, pevents, cur,
                   session>>

(* ~Snmp: stop_poll_thread; nobody else uses the session any more. *)
Close ==
    /\ session = "open"
    /\ \A r \in Requests : state[r] # "sent" /\ ~Blocking(r)
    /\ session' = "closing"
    /\ UNCHANGED <<msgVars, expired, netVars, outcome, pevents, pc, cur>>

(* The poll thread has been joined: DeleteSocketEntry calls everybody back. *)
DeleteSocketEntry ==
    /\ session = "closing" /\ ~Polling
    /\ session' = "closed"
    /\ outcome' = [r \in Requests |->
         IF r \in queue \cap armed THEN Append(outcome[r], "destroyed") ELSE outcome[r]]
    /\ armed' = armed \ queue
    /\ queue' = {} /\ overdue' = {}
    /\ UNCHANGED <<state, received, retry, expired, netVars, pevents, pc, cur>>

ThreadStep(t) ==
    \/ PollLoop(t) \/ LockEvents(t) \/ Poll(t) \/ Receive(t) \/ Match(t) \/ Callback(t)
    \/ Answered(t) \/ Retry(t) \/ ResendReceived(t) \/ TimeOut(t) \/ Resend(t)
    \/ TimedOut(t) \/ Check(t)

Next ==
    \/ \E r \in Requests :
         Send(r) \/ AddEntry(r) \/ Cancel(r) \/ Agent(r) \/ TimePasses(r)
    \/ \E t \in Processors : ThreadStep(t)
    \/ Close \/ DeleteSocketEntry

Spec == Init /\ [][Next]_vars

(* A thread that can go on does so, time passes, and a destructor that has   *)
(* begun ends.  Nothing is asked of the mutex, for which threads compete     *)
(* only when they share the session, nor of the network: every datagram may  *)
(* be lost.                                                                  *)
Fairness ==
    /\ \A t \in Processors : WF_vars(ThreadStep(t))
    /\ \A r \in Requests : WF_vars(AddEntry(r)) /\ WF_vars(TimePasses(r))
    /\ WF_vars(DeleteSocketEntry)

FairSpec == Spec /\ Fairness
--------------------------------------------------------------------------------
TypeOK ==
    /\ queue \subseteq Requests /\ armed \subseteq Async
    /\ received \subseteq Requests /\ overdue \subseteq Requests
    /\ expired \subseteq Requests
    /\ state \in [Requests -> {"new", "sent", "entered"}]
    /\ retry \in [Requests -> 0 .. Retries]
    /\ \A r \in Requests : wire[r] + inbox[r] <= Retries + 1
    /\ \A r \in Requests : \A n \in DOMAIN outcome[r] : outcome[r][n] \in Outcomes
    /\ pevents \in Processors \cup {NoThread}
    /\ \A t \in Processors : cur[t] \in Requests \cup {NoThread}

(* A thread that is about to use a message without the lock (its callback,   *)
(* its time, its id) uses one that is still in the queue and so not deleted. *)
NoUseAfterFree ==
    \A t \in Processors :
        pc[t] \in {"callback", "resend", "timedout"} => cur[t] \in queue

(* Nobody is told twice how a request ended, however often it was resent and *)
(* answered, and however an answer, a late one, a timeout and ~Snmp meet.  A *)
(* cancel() comes between two rounds of the thread that processes events,    *)
(* unless the session is shared.                                             *)
ToldOnce == \A r \in Requests : Len(outcome[r]) <= 1

(* A request whose response was accepted is not reported as timed out, even  *)
(* when its last retry is overdue by the time it is looked at.               *)
AnswerWins ==
    \A r \in received : outcome[r] # <<"timeout">>

(* Every blocking request returns, and every asynchronous one is called back *)
(* as long as the poll thread runs, even if all datagrams are lost.          *)
EveryRequestEnds ==
    \A r \in Requests :
        (state[r] = "entered" /\ (r \in Sync \/ Polling)) ~> (outcome[r] # <<>>)
================================================================================
