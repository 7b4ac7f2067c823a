---------------------------- MODULE TimerPort_proofs ----------------------------
(* The exactness of TimerPort for all timeouts, times and units.  The        *)
(* invariant is that seconds and microseconds together stand for the moment  *)
(* the timer was set to, whether the last second is carried or not; what the *)
(* getters say of it is then arithmetic.                                     *)
EXTENDS TimerPort, TLAPS

Stands ==
    /\ sec \in Nat /\ usec \in 0 .. Second
    /\ active \in BOOLEAN
    /\ clock \in 0 .. Horizon /\ due \in Nat
    /\ sec * Second + usec = due

\* A second is Kilo times Kilo microseconds.
LEMMA SecondIs == Second \in Nat \ {0} /\ Second = Kilo * Kilo
BY KiloNat DEF Second

\* Quotient and remainder.
LEMMA DivMod ==
    ASSUME NEW n \in Nat, NEW b \in Nat \ {0}
    PROVE  /\ n \div b \in Nat /\ n % b \in 0 .. b - 1
           /\ (n \div b) * b + (n % b) = n
BY SMT

(* The clock, told as seconds and microseconds. *)
LEMMA ClockIs ==
    ASSUME clock \in 0 .. Horizon
    PROVE  /\ clock \in Nat /\ clock \div Second \in Nat /\ clock % Second \in 0 .. Second
           /\ (clock \div Second) * Second + (clock % Second) = clock
<1>1. clock \in Nat
  BY TimeoutsNat
<1>2. /\ clock \div Second \in Nat /\ clock % Second \in 0 .. Second - 1
      /\ (clock \div Second) * Second + (clock % Second) = clock
  BY <1>1, SecondIs, DivMod
<1>3. 0 .. Second - 1 \subseteq 0 .. Second
  BY SecondIs
<1> QED BY <1>1, <1>2, <1>3

(* Add adds a timeout, and leaves out the carry of a whole second. *)
LEMMA AddAdds ==
    ASSUME NEW s \in Nat, NEW u \in 0 .. Second, NEW timeout \in Nat,
           Add(s, u, timeout)
    PROVE  /\ sec' \in Nat /\ usec' \in 0 .. Second
           /\ sec' * Second + usec' = s * Second + u + timeout * Kilo
<1> DEFINE q == timeout \div Kilo
           r == timeout % Kilo
           usecs == u + r * Kilo
           carry == IF usecs > Second THEN 1 ELSE 0
<1>1. q \in Nat /\ r \in 0 .. Kilo - 1 /\ q * Kilo + r = timeout
  BY KiloNat, DivMod
<1>2. r * Kilo \in Nat /\ r * Kilo < Second
  <2>1. r * Kilo \in Nat /\ r * Kilo <= (Kilo - 1) * Kilo
    BY <1>1, KiloNat
  <2> QED BY <2>1, KiloNat, SecondIs
<1>3. /\ sec' = s + q + carry
      /\ usec' = IF usecs > Second THEN usecs % Second ELSE usecs
  BY DEF Add
<1>4. usecs \in Nat /\ usecs < 2 * Second
  BY <1>2, SecondIs
<1> HIDE DEF q, r, usecs
<1>5. usec' = usecs - carry * Second /\ usec' \in 0 .. Second
  <2>1. CASE usecs > Second
    <3>1. usecs % Second = usecs - Second
      <4> DEFINE d == usecs \div Second
      <4>1. d \in Nat /\ usecs % Second \in 0 .. Second - 1 /\ d * Second + (usecs % Second) = usecs
        BY <1>4, SecondIs, DivMod
      <4>2. d # 0
        BY <2>1, <4>1, SecondIs
      <4>3. ~(d >= 2)
        <5> SUFFICES ASSUME d >= 2 PROVE FALSE
          OBVIOUS
        <5> DEFINE more == d - 2
        <5>1. more \in Nat /\ d = more + 2
          BY <4>1
        <5> HIDE DEF d, more
        <5>2. more * Second \in Nat /\ d * Second = more * Second + 2 * Second
          BY <5>1, SecondIs
        <5> QED BY <1>4, <4>1, <5>2, SecondIs
      <4>4. d = 1
        BY <4>1, <4>2, <4>3
      <4> QED BY <4>1, <4>4, SecondIs
    <3> QED BY <1>3, <1>4, <2>1, <3>1, SecondIs
  <2>2. CASE ~(usecs > Second)
    BY <1>3, <1>4, <2>2, SecondIs
  <2> QED BY <2>1, <2>2
<1>6. sec' * Second = s * Second + q * Second + carry * Second
  BY <1>1, <1>3, SecondIs
<1>7. q * Second + r * Kilo = timeout * Kilo
  BY <1>1, KiloNat, SecondIs
<1>8. usecs = u + r * Kilo
  BY DEF usecs
<1>9. sec' \in Nat
  BY <1>1, <1>3
<1>10. carry \in {0, 1}
  OBVIOUS
<1> HIDE DEF carry
<1>11. /\ s * Second \in Nat /\ q * Second \in Nat /\ carry * Second \in Nat
       /\ timeout * Kilo \in Nat
  BY <1>1, <1>10, SecondIs, KiloNat
<1>12. sec' * Second + usec' = s * Second + q * Second + u + r * Kilo
  BY <1>2, <1>4, <1>5, <1>6, <1>8, <1>11, SecondIs
<1> QED BY <1>2, <1>5, <1>7, <1>9, <1>11, <1>12, SecondIs

(* A difference of seconds and microseconds, told in milliseconds. *)
LEMMA DifferenceTells ==
    ASSUME NEW s1 \in Nat, NEW u1 \in 0 .. Second, NEW s2 \in Nat, NEW u2 \in 0 .. Second
    PROVE  Tells(NotNegative(Difference(s1, u1, s2, u2)),
                 (s1 * Second + u1) - (s2 * Second + u2))
<1> DEFINE ms == Truncated(u1 - u2, Kilo)
           diff == (s1 - s2) * Kilo + ms
           time == (s1 * Second + u1) - (s2 * Second + u2)
<1>1. /\ u1 \in Nat /\ u2 \in Nat
      /\ ms \in Int /\ u1 - u2 - Kilo < ms * Kilo /\ ms * Kilo < u1 - u2 + Kilo
  <2>1. u1 \in Nat /\ u2 \in Nat
    BY SecondIs
  <2>2. CASE u1 - u2 < 0
    <3>1. u2 - u1 \in Nat /\ ms = -((u2 - u1) \div Kilo)
      BY <2>1, <2>2 DEF Truncated
    <3> DEFINE q == (u2 - u1) \div Kilo
               rest == (u2 - u1) % Kilo
    <3>2. q \in Nat /\ rest \in 0 .. Kilo - 1 /\ q * Kilo + rest = u2 - u1
      BY <3>1, KiloNat, DivMod
    <3>3. ms = -q
      BY <3>1
    <3> HIDE DEF q, rest, ms
    <3>4. ms \in Int /\ ms * Kilo = -(q * Kilo) /\ q * Kilo \in Nat
      BY <3>2, <3>3, KiloNat
    <3> QED BY <2>1, <3>2, <3>4, KiloNat
  <2>3. CASE ~(u1 - u2 < 0)
    <3>1. u1 - u2 \in Nat /\ ms = (u1 - u2) \div Kilo
      BY <2>1, <2>3 DEF Truncated
    <3> DEFINE q == (u1 - u2) \div Kilo
               rest == (u1 - u2) % Kilo
    <3>2. q \in Nat /\ rest \in 0 .. Kilo - 1 /\ q * Kilo + rest = u1 - u2
      BY <3>1, KiloNat, DivMod
    <3>3. ms = q
      BY <3>1
    <3> HIDE DEF q, rest, ms
    <3>4. ms \in Int /\ ms * Kilo = q * Kilo /\ q * Kilo \in Nat
      BY <3>2, <3>3, KiloNat
    <3> QED BY <2>1, <3>2, <3>4, KiloNat
  <2> QED BY <2>2, <2>3, <2>1
<1> HIDE DEF ms
<1>2. time = (s1 - s2) * Second + (u1 - u2) /\ time \in Int
  BY <1>1, SecondIs
<1>3. diff \in Int /\ diff * Kilo = (s1 - s2) * Second + ms * Kilo
  BY <1>1, KiloNat, SecondIs
<1>4. diff * Kilo < time + Kilo /\ time - Kilo < diff * Kilo
  BY <1>1, <1>2, <1>3, KiloNat, SecondIs
<1> HIDE DEF diff, time
<1>5. Tells(NotNegative(diff), time)
  <2>1. CASE diff <= 0
    <3>1. diff * Kilo <= 0
      BY <1>3, <2>1, KiloNat
    <3>2. NotNegative(diff) = 0
      BY <1>3, <2>1 DEF NotNegative
    <3>3. diff * Kilo \in Int /\ Kilo \in Int
      BY <1>3, KiloNat
    <3>4. time < Kilo
      BY <1>2, <1>4, <3>1, <3>3
    <3> QED BY <3>2, <3>4 DEF Tells
  <2>2. CASE diff > 0
    BY <1>3, <1>4, <2>2 DEF Tells, NotNegative
  <2> QED BY <1>3, <2>1, <2>2
<1> QED BY <1>5 DEF Difference, diff, time, ms

\* No timer is set at the start.
LEMMA InitStands == TimerInit => Stands
BY ClockIs DEF TimerInit, Stands

\* Every call and every moment keep Stands.
LEMMA StepStands == Stands /\ [TimerNext]_timerVars => Stands'
<1> SUFFICES ASSUME Stands, [TimerNext]_timerVars PROVE Stands'
  OBVIOUS
<1>1. /\ clock \in Nat /\ clock \div Second \in Nat /\ clock % Second \in 0 .. Second
      /\ (clock \div Second) * Second + (clock % Second) = clock
  BY ClockIs DEF Stands
<1>2. ASSUME NEW timeout \in Timeouts, SetTimer(timeout) PROVE Stands'
  <2>1. /\ timeout \in Nat /\ due' = clock + timeout * Kilo /\ clock' = clock
        /\ active' \in BOOLEAN /\ due' \in Nat
    BY <1>1, <1>2, TimeoutsNat, KiloNat DEF SetTimer
  <2>2. CASE timeout = 0
    <3>1. due' = clock
      BY <1>1, <2>1, <2>2, KiloNat
    <3> QED BY <1>1, <1>2, <2>1, <2>2, <3>1 DEF SetTimer, Stands
  <2>3. CASE timeout # 0
    <3>1. Add(clock \div Second, clock % Second, timeout)
      BY <1>2, <2>3 DEF SetTimer
    <3>2. /\ sec' \in Nat /\ usec' \in 0 .. Second
          /\ sec' * Second + usec' = clock + timeout * Kilo
      BY <1>1, <2>1, <3>1, AddAdds
    <3> QED BY <2>1, <3>2 DEF Stands
  <2> QED BY <2>2, <2>3
<1>3. ASSUME NEW timeout \in Timeouts, IncTimer(timeout) PROVE Stands'
  <2>1. /\ timeout \in Nat /\ due' = due + timeout * Kilo /\ clock' = clock
        /\ active' = TRUE /\ due' \in Nat
    BY <1>3, TimeoutsNat, KiloNat DEF IncTimer, Stands
  <2>2. /\ sec' \in Nat /\ usec' \in 0 .. Second
        /\ sec' * Second + usec' = due + timeout * Kilo
    BY <1>3, <2>1, AddAdds DEF IncTimer, Stands
  <2> QED BY <2>1, <2>2 DEF Stands
<1>4. CASE Tick
  BY <1>1, <1>4, TimeoutsNat DEF Tick, Stands
<1>5. CASE EndTimer \/ UNCHANGED timerVars
  BY <1>5 DEF EndTimer, timerVars, Stands
<1> QED BY <1>2, <1>3, <1>4, <1>5 DEF TimerNext

(* run() calls expired() less than a millisecond early and puts no timer off *)
(* by a millisecond, for all sequences of timeouts and all moments to ask:   *)
(* the carry that timerport.cpp leaves out does no harm.                     *)
THEOREM ExactnessCorrect == TimerSpec => []ExactToTheMillisecond
<1>1. Stands => ExactToTheMillisecond
  <2> SUFFICES ASSUME Stands
               PROVE  Tells(getTimer, due - clock) /\ Tells(getElapsed, clock - due)
    BY DEF ExactToTheMillisecond
  <2>1. /\ clock \div Second \in Nat /\ clock % Second \in 0 .. Second
        /\ (clock \div Second) * Second + (clock % Second) = clock
    BY ClockIs DEF Stands
  <2>2. sec \in Nat /\ usec \in 0 .. Second /\ sec * Second + usec = due
    BY DEF Stands
  <2>3. Tells(getTimer, due - clock)
    BY <2>1, <2>2, DifferenceTells DEF getTimer, Remaining
  <2>4. Tells(getElapsed, clock - due)
    BY <2>1, <2>2, DifferenceTells DEF getElapsed, Elapsed
  <2> QED BY <2>3, <2>4
<1> QED BY <1>1, InitStands, StepStands, PTL DEF TimerSpec
================================================================================
