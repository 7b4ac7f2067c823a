------------------------------- MODULE MCPthread -------------------------------
(* The three programs of s7/mt, and the timer of a port, for TLC.  They      *)
(* share nothing; the variable "program" says which of them this behaviour   *)
(* runs, and the others stay in their initial states.                        *)
EXTENDS RWLock, TimerPort

CONSTANTS MaxAlarms, Delays, MaxTime, Last

VARIABLES program,
          now, time, past, alarm_list, current_alarm, alarm, tpc, rung,
          busy, i, mine, bpc

ASSUME DelaysInt == Delays \subseteq Int
ASSUME BoundsNat == {MaxAlarms, MaxTime} \subseteq Nat \ {0}
ASSUME LastNat == Last \in Nat \ {0}

AL == INSTANCE AlarmCond
BO == INSTANCE Backoff WITH pc <- bpc

alVars == <<now, time, past, alarm_list, current_alarm, alarm, tpc, rung>>
boVars == <<busy, i, mine, bpc>>
allVars == <<program, vars, alVars, boVars, timerVars>>

MCInit ==
    /\ program \in {"rwlock", "alarm_cond", "backoff", "timer"}
    /\ Init /\ AL!Init /\ BO!Init /\ TimerInit
    /\ program # "timer" => clock = 0

Rwlock == program = "rwlock" /\ Next /\ UNCHANGED <<program, alVars, boVars, timerVars>>

Alarm == program = "alarm_cond" /\ AL!Next /\ UNCHANGED <<program, vars, boVars, timerVars>>

BackingOff == program = "backoff" /\ BO!Next /\ UNCHANGED <<program, vars, alVars, timerVars>>

Timer == program = "timer" /\ TimerNext /\ UNCHANGED <<program, vars, alVars, boVars>>

MCNext == Rwlock \/ Alarm \/ BackingOff \/ Timer

MCSpec == MCInit /\ [][MCNext]_allVars

(* The fairness of the program that runs: the others never step.  It is      *)
(* stated here once more, because a conjunction of guarded actions is checked *)
(* much faster than an implication for each program.                          *)
MCFairness ==
    /\ \A t \in Threads : /\ WF_vars(program = "rwlock" /\ Step(t))
                           /\ WF_vars(program = "rwlock" /\ Return(t))
    /\ WF_alVars(program = "alarm_cond" /\ AL!AlarmThread)
    /\ SF_alVars(program = "alarm_cond" /\ AL!Timeout)
    /\ WF_alVars(program = "alarm_cond" /\ AL!Tick)

MCFairSpec == MCSpec /\ MCFairness
--------------------------------------------------------------------------------
(* Every variable of the four parts keeps its type. *)
AllTypesOK == TypeOK /\ AL!TypeOK /\ BO!TypeOK /\ TimerTypeOK

(* What users ask for: an alarm may also be set in the past. *)
Seconds == {-2, 0, 1, 2, 3}

(* The properties of the other modules, by the names they have there. *)
NoOversleep == AL!NoOversleep
RingsInOrder == AL!RingsInOrder
EveryAlarmRings == program = "alarm_cond" => AL!EveryAlarmRings
WaitsEmptyHanded == BO!WaitsEmptyHanded
================================================================================
