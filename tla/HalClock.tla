------------------------------ MODULE HalClock ------------------------------
(***************************************************************************)
(* The time of day (alt_gettod.c, alt_settod.c, alt_times.c): the ticks of *)
(* the system clock, and what settimeofday made of the time it was given.  *)
(* Seconds and microseconds are signed; products are reduced mod TwoTo32.  *)
(***************************************************************************)
EXTENDS Integers

CONSTANTS
  ALT_US,        \* microseconds in a second
  Rates,         \* ticks in a second; 0 without a system clock
  TwoTo32,       \* 2^32
  Times          \* what settimeofday is called with

ASSUME ClockAssumption ==
  /\ ALT_US \in Nat \ {0} /\ TwoTo32 \in Nat \ {0}
  /\ Rates \subseteq 0 .. ALT_US
  /\ Times \subseteq [sec : Nat, usec : 0 .. ALT_US - 1]

VARIABLES
  tick_rate,     \* _alt_tick_rate, set once by the driver of the clock
  nticks,        \* _alt_nticks
  resettime,     \* alt_resettime
  set,           \* ghost: the time last set, and at which tick
  rolled         \* ghost: has nticks rolled over since then?

clockVars == <<tick_rate, nticks, resettime, set, rolled>>

Zero == [sec |-> 0, usec |-> 0]

ClockInit ==
  /\ tick_rate \in Rates /\ nticks = 0
  /\ resettime = Zero /\ set = [time |-> Zero, at |-> 0] /\ rolled = FALSE

\* The microseconds of n ticks beyond whole seconds: settimeofday multiplies in 32
\* bits, gettimeofday in 64.
Fraction32(n) == ((n * (ALT_US \div tick_rate)) % TwoTo32) % ALT_US
Fraction(n) == (n * (ALT_US \div tick_rate)) % ALT_US

ClockTick ==
  /\ tick_rate # 0
  /\ nticks' = (nticks + 1) % TwoTo32
  /\ rolled' = (rolled \/ nticks' = 0)
  /\ UNCHANGED <<tick_rate, resettime, set>>

\* Faulty: the ticks before the call are forgotten in the microseconds.
ALT_SETTIMEOFDAY_Whole(t) ==
  /\ tick_rate # 0
  /\ resettime' = [sec |-> t.sec - nticks \div tick_rate, usec |-> t.usec]
  /\ set' = [time |-> t, at |-> nticks] /\ rolled' = FALSE
  /\ UNCHANGED <<tick_rate, nticks>>

\* Without a clock it changes nothing.
ALT_SETTIMEOFDAY(t) ==
  /\ tick_rate # 0
  /\ resettime' = [sec |-> t.sec - nticks \div tick_rate,
                   usec |-> t.usec - Fraction32(nticks)]
  /\ set' = [time |-> t, at |-> nticks] /\ rolled' = FALSE
  /\ UNCHANGED <<tick_rate, nticks>>

ClockNext == ClockTick \/ \E t \in Times : ALT_SETTIMEOFDAY(t)

ClockSpec == ClockInit /\ [][ClockNext]_clockVars

\* What the loops of gettimeofday do: borrow from the seconds while there are any,
\* then carry into them.
Normal(sec, usec) ==
  LET short == -(usec \div ALT_US)  \* the seconds to borrow, if usec < 0
  IN  IF usec < 0 /\ sec < short THEN Zero
      ELSE [sec |-> sec + usec \div ALT_US, usec |-> usec % ALT_US]

\* What gettimeofday answers where there is a clock.
ALT_GETTIMEOFDAY ==
  Normal(resettime.sec + nticks \div tick_rate, resettime.usec + Fraction(nticks))

-----------------------------------------------------------------------------
(* Properties. *)

Micros(t) == t.sec * ALT_US + t.usec

\* gettimeofday answers the time that was set and the ticks since then, where the
\* ticks divide a second and those counted before settimeofday are fewer than
\* 2^32 microseconds, until the tick counter rolls over.
ClockTells ==
  tick_rate # 0 /\ ~ rolled =>
    LET tick == ALT_US \div tick_rate
    IN  ALT_US % tick_rate = 0 /\ set.at * tick < TwoTo32 =>
          Micros(ALT_GETTIMEOFDAY) = Micros(set.time) + (nticks - set.at) * tick

\* "so that an immediate call to gettimeofday() would return the value specified by
\* t" (alt_settod.c, lines 61-63).
SetIsSeen ==
  tick_rate # 0 /\ ~ rolled /\ set.at = nticks => ALT_GETTIMEOFDAY = set.time
=============================================================================
