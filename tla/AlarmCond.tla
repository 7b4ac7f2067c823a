------------------------------- MODULE AlarmCond -------------------------------
(* The alarm program of s7/mt/alarm_cond.c: the main thread reads commands   *)
(* and inserts alarms in a list sorted by time, the alarm thread waits for   *)
(* the first of them with a timed condition wait.  If an earlier alarm comes *)
(* in, the alarm thread puts back the one it waits for.                      *)
(*                                                                           *)
(* tpc is where the alarm thread is:                                         *)
(*   begin           before its first pthread_mutex_lock                     *)
(*   loop, first, put, ring   in its loop, with the mutex                    *)
(*   wait, twait     in pthread_cond_wait, pthread_cond_timedwait            *)
(*   woken, twoken   out of them by a signal or spuriously, at the mutex     *)
(*   tout            out of the timed wait by its timeout, at the mutex      *)
(* Alarms are numbered in the order in which they are entered.               *)
EXTENDS Integers, Sequences, SequencesExt

CONSTANTS MaxAlarms,    \* how many alarms may be entered
          Delays,       \* the seconds a user may ask for, also negative ones
          MaxTime       \* the clock stops there

Alarms == 1..MaxAlarms

NoAlarm == 0            \* current_alarm = 0 and alarm = NULL

VARIABLES now,              \* time(NULL)
          time,             \* the time field of each alarm entered so far
          past,             \* the alarms with negative seconds
          alarm_list,
          current_alarm,
          alarm,            \* the local variable of the alarm thread
          tpc,
          rung              \* the alarms printed, in their order

vars == <<now, time, past, alarm_list, current_alarm, alarm, tpc, rung>>

\* The mutex is free exactly while the alarm thread waits or wants it.
Unlocked == tpc \in {"begin", "wait", "twait", "woken", "twoken", "tout"}
Asleep == tpc \in {"wait", "twait"}
--------------------------------------------------------------------------------
(* The clock starts after the Epoch: 0 is no time of an alarm. *)
Init ==
    /\ now = 1
    /\ time = <<>>
    /\ past = {}
    /\ alarm_list = <<>>
    /\ current_alarm = NoAlarm
    /\ alarm = NoAlarm
    /\ tpc = "begin"
    /\ rung = <<>>

(* The list with alarm a of time t before the first alarm that is not earlier. *)
Sorted(a, t) ==
    LET next == SelectInSeq(alarm_list, LAMBDA b : time[b] >= t)
    IN  IF next = 0 THEN Append(alarm_list, a) ELSE InsertAt(alarm_list, next, a)

(* A mutant of Wakes: only an alarm thread without work is woken. *)
MWakesIdle(t) == current_alarm = NoAlarm

(* Whether an alarm of time t concerns the alarm thread. *)
Wakes(t) == current_alarm = NoAlarm \/ t < current_alarm

(* main: a command is read, the alarm gets its time and is inserted, and the  *)
(* alarm thread, if it sleeps, is signalled.  The seconds may be negative, so *)
(* that the time is over already; not so far that it is before the Epoch.     *)
Enter ==
    /\ Unlocked
    /\ \E a \in Alarms, d \in Delays :
          /\ a = Len(time) + 1
          /\ now + d \in 1..MaxTime
          /\ time' = Append(time, now + d)
          /\ past' = IF d < 0 THEN past \cup {a} ELSE past
          /\ alarm_list' = Sorted(a, now + d)
          /\ IF Wakes(now + d)
             THEN /\ current_alarm' = now + d
                  /\ tpc' = CASE tpc = "wait" -> "woken"
                              [] tpc = "twait" -> "twoken"
                              [] OTHER -> tpc
             ELSE UNCHANGED <<current_alarm, tpc>>
    /\ UNCHANGED <<now, alarm, rung>>

(* A mutant of Loop: current_alarm keeps the time of an alarm that has rung. *)
MLoopKeepsCurrent ==
    /\ tpc \in {"begin", "loop"}
    /\ tpc' = IF alarm_list = <<>> THEN "wait" ELSE "first"
    /\ UNCHANGED <<now, time, past, alarm_list, current_alarm, alarm, rung>>

(* The thread gets the mutex for the first time, or starts another round. *)
Loop ==
    /\ tpc \in {"begin", "loop"}
    /\ current_alarm' = NoAlarm
    /\ tpc' = IF alarm_list = <<>> THEN "wait" ELSE "first"
    /\ UNCHANGED <<now, time, past, alarm_list, alarm, rung>>

(* The mutex is back after the untimed wait: the list is looked at again. *)
Woken ==
    /\ tpc = "woken"
    /\ tpc' = IF alarm_list = <<>> THEN "wait" ELSE "first"
    /\ UNCHANGED <<now, time, past, alarm_list, current_alarm, alarm, rung>>

(* The first alarm is taken off the list; it has expired, or is waited for. *)
TakeFirst ==
    /\ tpc = "first"
    /\ alarm' = Head(alarm_list)
    /\ alarm_list' = Tail(alarm_list)
    /\ IF time[alarm'] > now
       THEN current_alarm' = time[alarm'] /\ tpc' = "twait"
       ELSE tpc' = "ring" /\ UNCHANGED current_alarm
    /\ UNCHANGED <<now, time, past, rung>>

(* A mutant of TimedWoken: every wakeup before the timeout is taken for a      *)
(* spurious one, the wait for the alarm in hand goes on.                       *)
MTimedWokenWaitsOn ==
    /\ tpc = "twoken"
    /\ tpc' = "twait"
    /\ UNCHANGED <<now, time, past, alarm_list, current_alarm, alarm, rung>>

(* Woken before the timeout: the wait goes on unless current_alarm changed. *)
TimedWoken ==
    /\ tpc = "twoken"
    /\ tpc' = IF current_alarm = time[alarm] THEN "twait" ELSE "put"
    /\ UNCHANGED <<now, time, past, alarm_list, current_alarm, alarm, rung>>

(* The wait returned ETIMEDOUT: the alarm has expired, whatever else came in. *)
TimedOut ==
    /\ tpc = "tout"
    /\ tpc' = "ring"
    /\ UNCHANGED <<now, time, past, alarm_list, current_alarm, alarm, rung>>

(* alarm_insert by the alarm thread itself, which nobody else waits to hear. *)
PutBack ==
    /\ tpc = "put"
    /\ alarm_list' = Sorted(alarm, time[alarm])
    /\ current_alarm' = IF Wakes(time[alarm]) THEN time[alarm] ELSE current_alarm
    /\ alarm' = NoAlarm
    /\ tpc' = "loop"
    /\ UNCHANGED <<now, time, past, rung>>

Ring ==
    /\ tpc = "ring"
    /\ rung' = Append(rung, alarm)
    /\ alarm' = NoAlarm
    /\ tpc' = "loop"
    /\ UNCHANGED <<now, time, past, alarm_list, current_alarm>>

SpuriousWakeup ==
    /\ Asleep
    /\ tpc' = IF tpc = "wait" THEN "woken" ELSE "twoken"
    /\ UNCHANGED <<now, time, past, alarm_list, current_alarm, alarm, rung>>

(* The absolute time given to pthread_cond_timedwait is reached. *)
Timeout ==
    /\ tpc = "twait"
    /\ time[alarm] <= now
    /\ tpc' = "tout"
    /\ UNCHANGED <<now, time, past, alarm_list, current_alarm, alarm, rung>>

Tick ==
    /\ now < MaxTime
    /\ now' = now + 1
    /\ UNCHANGED <<time, past, alarm_list, current_alarm, alarm, tpc, rung>>

AlarmThread ==
    Loop \/ Woken \/ TakeFirst \/ TimedWoken \/ TimedOut \/ PutBack \/ Ring

Next == Enter \/ AlarmThread \/ SpuriousWakeup \/ Timeout \/ Tick

Spec == Init /\ [][Next]_vars

(* The thread runs and time passes; nobody has to enter alarms.  A timed wait  *)
(* whose time has passed ends, however often it was left spuriously before.    *)
Fairness == WF_vars(AlarmThread) /\ SF_vars(Timeout) /\ WF_vars(Tick)

FairSpec == Spec /\ Fairness
--------------------------------------------------------------------------------
Entered == 1..Len(time)

TypeOK ==
    /\ now \in 1..MaxTime
    /\ time \in Seq(1..MaxTime) /\ Entered \subseteq Alarms
    /\ past \subseteq Entered
    /\ alarm_list \in Seq(Entered) /\ rung \in Seq(Entered)
    /\ current_alarm \in 0..MaxTime
    /\ alarm \in Entered \cup {NoAlarm}
    /\ tpc \in {"begin", "loop", "first", "put", "ring", "wait", "twait",
                "woken", "twoken", "tout"}

(* The thread never sleeps past an alarm (79-84): it waits without a timeout   *)
(* only while the list is empty, and with one only for the earliest alarm.     *)
NoOversleep ==
    /\ tpc = "wait" => alarm_list = <<>>
    /\ tpc = "twait" => \A b \in ToSet(alarm_list) : time[alarm] <= time[b]

(* An alarm is printed when its time has come and not earlier, although the    *)
(* wait for it ends for other reasons too, and before every alarm of a later   *)
(* time, although earlier ones come in during the wait.  The one that may come *)
(* too late is an alarm set in the past, entered when the wait has ended by    *)
(* its timeout and the mutex is not back yet: what expired is printed without  *)
(* another look at the list (137-153).                                         *)
RingsInOrder ==
    [][rung' /= rung =>
          LET a == Last(rung')
          IN  /\ time[a] <= now
              /\ \A b \in ToSet(alarm_list) : time[b] < time[a] => b \in past]_vars

(* Every alarm entered is printed in the end. *)
EveryAlarmRings == \A a \in Alarms : a \in Entered ~> a \in ToSet(rung)
================================================================================
