------------------------------ MODULE RosTime ------------------------------
(***************************************************************************)
(* rostime: times and durations as seconds and nanoseconds.  A float is    *)
(* given as the fraction n / d of nanoseconds that it stands for, and      *)
(* arithmetic of floats as the set of the fractions that it may come to.   *)
(* Texts, dates, percent_of and extrapolation are left out.                *)
(***************************************************************************)
EXTENDS Integers

\* Both are smaller for TLC, whose integers have 32 bits.
CONSTANTS
  Kilo,      \* 1000 in the code
  Precision  \* 2^53: a double is within one part in Precision of what it stands for

ASSUME KiloAssumption == Kilo \in Nat \ {0} /\ Kilo % 2 = 0

ASSUME PrecisionAssumption == Precision \in Nat \ {0}

Mega == Kilo * Kilo
Giga == Kilo * Mega

Stamp(sec, nsec) == [sec |-> sec, nsec |-> nsec]

Time == [sec : Int, nsec : Int]

\* What subtract, from_sec and the others return.
Normal == [sec : Int, nsec : 0..Giga - 1]

-----------------------------------------------------------------------------

fix_time(t) == Stamp(t.sec + (t.nsec \div Giga), t.nsec % Giga)

\* "Cannot normalize invalid time"
Negative(t) == fix_time(t).sec < 0

add(a, b) == fix_time(Stamp(a.sec + b.sec, a.nsec + b.nsec))

\* A mutant: nothing is borrowed.
subtract_fields(a, b) == Stamp(a.sec - b.sec, a.nsec - b.nsec)

subtract(a, b) == fix_time(Stamp(a.sec - b.sec, a.nsec - b.nsec))

\* A mutant: nanoseconds first.
compare_nsec(left, right) ==
  IF left.nsec # right.nsec THEN left.nsec - right.nsec ELSE left.sec - right.sec

compare(left, right) ==
  IF left.sec # right.sec THEN left.sec - right.sec ELSE left.nsec - right.nsec

clamp_time(time, start, end) ==
  CASE compare(start, time) > 0 -> start
    [] ~(compare(start, time) > 0) /\ compare(end, time) < 0 -> end
    [] OTHER -> time

-----------------------------------------------------------------------------
(* Conversions *)

to_nanosec(t) == (t.sec * Giga) + t.nsec

from_nanosec(n) == Stamp(n \div Giga, n % Giga)

\* math.trunc and round, which takes the even one of two that are as near.
trunc(n, d) == IF n >= 0 THEN n \div d ELSE -((-n) \div d)

round(n, d) ==
  LET twice == 2 * (n % d)
  IN IF twice < d \/ (twice = d /\ (n \div d) % 2 = 0) THEN n \div d ELSE (n \div d) + 1

\* from_sec, from_millis and from_micros, which differ in the unit of their
\* argument.
from_float(n, d) ==
  LET sec == trunc(n, d * Giga)
      nsec == round(n - ((sec * Giga) * d), d)
  IN Stamp(sec + trunc(nsec, Giga), nsec % Giga)

to_millis(t, round_up) ==
  (t.sec * Kilo) + (IF round_up THEN -((-t.nsec) \div Mega) ELSE t.nsec \div Mega)

from_millis(m) == from_float(m * Mega, 1)

-----------------------------------------------------------------------------
(* Doubles *)

\* How many quarters of a nanosecond a double may be off, rounded up, if none
\* on the way to it stood for more than size nanoseconds: one part of them,
\* and of one second each for 1e-9, for the product with it and for the
\* product with 1e9 in from_sec.
Slack(size) == ((4 * (size + (3 * Giga))) + (Precision - 1)) \div Precision

Magnitude(n) == IF n < 0 THEN -n ELSE n

\* What arithmetic may come to where n / d is meant.  It keeps the sign.
Doubles(n, d, size) ==
  {[n |-> (4 * n) + error, d |-> 4 * d] :
     error \in {e \in -(d * Slack(size))..(d * Slack(size)) :
                 (n >= 0 => (4 * n) + e >= 0) /\ (n <= 0 => (4 * n) + e <= 0)}}

\* Whole seconds have nothing to round.
to_sec(t) ==
  LET n == to_nanosec(t)
  IN IF t.nsec = 0 THEN {[n |-> n, d |-> 1]} ELSE Doubles(n, 1, Magnitude(n))

\* The fraction n / d, at most 1, of the time from start to end.
Part(start, end, n, d) ==
  LET duration == to_nanosec(subtract(end, start))
  IN Doubles(n * duration, d, 2 * Magnitude(duration))

\* x is one of them; what add is to normalize.
Along(start, x) ==
  LET part == from_float(x.n, x.d) IN Stamp(start.sec + part.sec, start.nsec + part.nsec)

interpolate(start, x) == fix_time(Along(start, x))

=============================================================================
