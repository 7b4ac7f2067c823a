--------------------------------- MODULE MCSnmp ---------------------------------
(* The parts of the SNMP toolkit for TLC: the requests of an agent, the      *)
(* message queue of a session, and the thread pools.  They share nothing;    *)
(* the variable "program" says which of them this behaviour runs, and the    *)
(* others stay in one of their initial states.                               *)
EXTENDS MibRequests, FiniteSets

CONSTANTS Programs,
          x, t,
          Async, Sync, Pollers, Cancelled, Retries, Shared, NoThread,
          Size, Tasks, Runner, None

VARIABLES program,
          mqueue, state, armed, received, retry, overdue, expired, wire, inbox,
          outcome, pevents, mqpc, cur, session,
          queued, task, mpc, lock, tppc, tpat, hand, tpqueue, runs

ASSUME ProgramsKnown == Programs \subseteq {"mib", "msgqueue", "pool"}
ASSUME TasksFinite == IsFiniteSet(Tasks)
ASSUME RequestKinds ==
    Async \cap Sync = {} /\ Pollers \cap Sync = {} /\ NoThread \notin Pollers \cup Sync
ASSUME PoolNames == Runner \notin Tasks /\ None \notin Tasks \cup {Runner}
ASSUME SizeNat == Size \in Nat \ {0}
ASSUME RetriesNat == Retries \in Nat
ASSUME SharedBool == Shared \in BOOLEAN

(* A GET reads both entries.  Two SETs name them in opposite orders, and     *)
(* create a row of two columns at the end of a request, or before a leaf.    *)
LeafAndTable == {<<x, t>>}
RowLast == {<<t, x>>, <<x, t, t>>}
RowFirst == {<<t, x>>, <<t, t, x>>}

MQ == INSTANCE MessageQueue WITH queue <- mqueue, pc <- mqpc
TP == INSTANCE TaskPool WITH pc <- tppc, at <- tpat, queue <- tpqueue

mqVars == <<mqueue, state, armed, received, retry, overdue, expired, wire, inbox,
            outcome, pevents, mqpc, cur, session>>
tpVars == <<queued, task, mpc, lock, tppc, tpat, hand, tpqueue, runs>>
allVars == <<program, vars, mqVars, tpVars>>

MCInit ==
    /\ program \in Programs
    /\ Init
    /\ program # "mib" => \A s \in Sets : asked[s] = <<t, x>>
    /\ MQ!Init
    /\ program # "msgqueue" => ~MQ!Polling
    /\ TP!Init
    /\ program # "pool" => ~queued

Mib == program = "mib" /\ Next /\ UNCHANGED <<program, mqVars, tpVars>>

Messages == program = "msgqueue" /\ MQ!Next /\ UNCHANGED <<program, vars, tpVars>>

Pool == program = "pool" /\ TP!Next /\ UNCHANGED <<program, vars, mqVars>>

MCNext == Mib \/ Messages \/ Pool

MCSpec == MCInit /\ [][MCNext]_allVars

(* The fairness of each part, for the program that runs: the others never    *)
(* step.  It is stated here once more because a conjunction of guarded       *)
(* actions is checked much faster than an implication for each program.      *)
MCFairness ==
    /\ \A g \in Gets : WF_vars(program = "mib" /\ GetStep(g))
    /\ \A s \in Sets : WF_vars(program = "mib" /\ SetStep(s))
    /\ \A m \in Removers : WF_vars(program = "mib" /\ Removal(m))
    /\ \A p \in MQ!Processors : WF_mqVars(program = "msgqueue" /\ MQ!ThreadStep(p))
    /\ \A r \in MQ!Requests :
         /\ WF_mqVars(program = "msgqueue" /\ MQ!AddEntry(r))
         /\ WF_mqVars(program = "msgqueue" /\ MQ!TimePasses(r))
    /\ WF_mqVars(program = "msgqueue" /\ MQ!DeleteSocketEntry)
    /\ \A m \in TP!Managers : SF_tpVars(program = "pool" /\ TP!ManagerStep(m))
    /\ \A a \in TP!Assigners :
         /\ WF_tpVars(program = "pool" /\ TP!AssignerStep(a))
         /\ WF_tpVars(program = "pool" /\ TP!TimedOut(a))

(* The threads that remove are alike: they begin in a fixed order, and two   *)
(* of them do the same as in any other order but for their names.            *)
InTurn ==
    LET one == CHOOSE m \in Removers : TRUE
    IN  \A m \in Removers \ {one} : pc[m] = "idle" /\ pc'[m] # "idle" => pc[one] # "idle"

MCFairSpec == MCInit /\ [][MCNext /\ InTurn]_allVars /\ MCFairness
--------------------------------------------------------------------------------
(* Every variable of the three programs keeps its type. *)
AllTypesOK == TypeOK /\ MQ!TypeOK /\ TP!TypeOK

(* The properties of the other modules, by the names they have there. *)
NoUseAfterFree == MQ!NoUseAfterFree
ToldOnce == MQ!ToldOnce
AnswerWins == MQ!AnswerWins
EveryRequestEnds == program = "msgqueue" => MQ!EveryRequestEnds
TasksConserved == TP!TasksConserved
EveryTaskRuns == program = "pool" => TP!EveryTaskRuns

(* EveryRequestAnswered, where the program is the agent. *)
AgentAnswers == program = "mib" => EveryRequestAnswered
================================================================================
