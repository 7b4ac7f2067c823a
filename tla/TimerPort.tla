------------------------------- MODULE TimerPort -------------------------------
(* bbt::TimerPort (timerport.cpp): the timer of a port, kept as the seconds  *)
(* and microseconds of a struct timeval and told in milliseconds.  Kilo is   *)
(* how many microseconds make a millisecond, and milliseconds a second.      *)
EXTENDS Integers

CONSTANTS Kilo,
          Timeouts,     \* the milliseconds callers ask for
          Horizon       \* the end of the clock, in microseconds

ASSUME KiloNat == Kilo \in Nat \ {0}
ASSUME TimeoutsNat == Timeouts \subseteq Nat /\ Horizon \in Nat

Second == Kilo * Kilo

VARIABLES sec, usec,    \* the member timer
          active,
          clock,        \* the clock, in microseconds
          due           \* history: what the timer was set to, in microseconds

timerVars == <<sec, usec, active, clock, due>>

(* C divides toward zero. *)
Truncated(a, b) == IF a < 0 THEN -((-a) \div b) ELSE a \div b

(* From the timer to the time in milliseconds, the way both getters take the *)
(* difference: the seconds and the microseconds each by themselves.          *)
Difference(s1, u1, s2, u2) == (s1 - s2) * Kilo + Truncated(u1 - u2, Kilo)

Remaining == Difference(sec, usec, clock \div Second, clock % Second)
Elapsed == Difference(clock \div Second, clock % Second, sec, usec)

NotNegative(diff) == IF diff < 0 THEN 0 ELSE diff

(* What they return of an active timer. *)
getTimer == NotNegative(Remaining)
getElapsed == NotNegative(Elapsed)
--------------------------------------------------------------------------------
TimerInit ==
    /\ clock \in 0 .. Horizon
    /\ sec = clock \div Second /\ usec = clock % Second
    /\ active = FALSE
    /\ due = clock

(* A mutant of Add: the second that the microseconds make is forgotten. *)
MAddNoCarry(s, u, timeout) ==
    LET usecs == u + (timeout % Kilo) * Kilo IN
    /\ sec' = s + timeout \div Kilo
    /\ usec' = IF usecs > Second THEN usecs % Second ELSE usecs

(* timeout on top of s seconds and u microseconds.  A whole second is not    *)
(* carried when it comes out exactly.                                        *)
Add(s, u, timeout) ==
    LET usecs == u + (timeout % Kilo) * Kilo IN
    /\ sec' = s + timeout \div Kilo + (IF usecs > Second THEN 1 ELSE 0)
    /\ usec' = IF usecs > Second THEN usecs % Second ELSE usecs

SetTimer(timeout) ==
    /\ IF timeout = 0
       THEN sec' = clock \div Second /\ usec' = clock % Second
       ELSE Add(clock \div Second, clock % Second, timeout)
    /\ active' = (timeout # 0)
    /\ due' = clock + timeout * Kilo
    /\ UNCHANGED clock

IncTimer(timeout) ==
    /\ due + timeout * Kilo <= Horizon
    /\ Add(sec, usec, timeout)
    /\ active' = TRUE
    /\ due' = due + timeout * Kilo
    /\ UNCHANGED clock

EndTimer == active' = FALSE /\ UNCHANGED <<sec, usec, clock, due>>

Tick ==
    /\ clock < Horizon
    /\ clock' = clock + 1
    /\ UNCHANGED <<sec, usec, active, due>>

TimerNext ==
    \/ \E timeout \in Timeouts : SetTimer(timeout) \/ IncTimer(timeout)
    \/ EndTimer \/ Tick

TimerSpec == TimerInit /\ [][TimerNext]_timerVars
--------------------------------------------------------------------------------
TimerTypeOK ==
    /\ sec \in Nat /\ usec \in 0 .. Second
    /\ active \in BOOLEAN
    /\ clock \in 0 .. Horizon /\ due \in Nat

(* told milliseconds stand for a time, and say 0 for one that is not to come. *)
Tells(told, time) ==
    IF told = 0 THEN time < Kilo
    ELSE time - Kilo < told * Kilo /\ told * Kilo < time + Kilo

(* In spite of the carry that is left out and of the two truncations, run()  *)
(* calls expired() less than a millisecond early, and puts a timer off by    *)
(* less than a millisecond; and the elapsed time is as exact.                *)
ExactToTheMillisecond ==
    active => Tells(getTimer, due - clock) /\ Tells(getElapsed, clock - due)
================================================================================
