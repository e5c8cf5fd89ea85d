------------------------------ MODULE RosClock ------------------------------
(***************************************************************************)
(* A time that is handed through the functions of rostime, one call after  *)
(* the other, as a player does that seeks, steps and clamps.  Beside it    *)
(* goes what the calls amount to in nanoseconds, as an interval that is    *)
(* reckoned from the arguments and the precision of doubles alone, never   *)
(* from a Time: calls on whole numbers move it, calls on floats widen it.  *)
(***************************************************************************)
EXTENDS RosTime

CONSTANTS
  Spans,      \* times and durations, as nanoseconds
  Fractions,  \* from 0 to 1, as pairs of numbers
  Horizon     \* the clock stays within Horizon nanoseconds of 0

ASSUME SpansAssumption == Spans \subseteq Int

ASSUME FractionsAssumption ==
  /\ Fractions \subseteq Nat \X (Nat \ {0})
  /\ \A f \in Fractions : f[1] <= f[2]

ASSUME HorizonAssumption == Horizon \in Nat

VARIABLES
  clock,  \* the Time
  least,  \* the nanoseconds that it should be at least
  most    \* and at most

vars == <<clock, least, most>>

Init == \E n \in Spans : clock = from_nanosec(n) /\ least = n /\ most = n

Within(low, high) == -Horizon <= low /\ high <= Horizon

\* A call that never raises.
Moved(time, low, high) ==
  /\ Within(low, high)
  /\ clock' = time /\ least' = low /\ most' = high

\* A call that raises if it comes out below zero, and then leaves the clock
\* as it was.  It has to if all of low..high is below zero, it may if some is.
Passed(time, raises, low, high) ==
  LET stays == high < 0 \/ (raises /\ low < 0)
  IN /\ Within(low, high)
     /\ clock' = IF raises THEN clock ELSE time
     /\ least' = IF stays THEN least ELSE low
     /\ most' = IF stays THEN most ELSE high

-----------------------------------------------------------------------------
(* Whole numbers *)

Add ==
  \E span \in Spans :
    LET b == from_nanosec(span)
        sum == Stamp(clock.sec + b.sec, clock.nsec + b.nsec)
    IN Passed(add(clock, b), Negative(sum), least + span, most + span)

Subtract ==
  \E span \in Spans : Moved(subtract(clock, from_nanosec(span)), least - span, most - span)

Clamped(n, low, high) == IF n < low THEN low ELSE IF n > high THEN high ELSE n

Clamp ==
  \E low, high \in Spans :
    /\ low <= high
    /\ Moved(clamp_time(clock, from_nanosec(low), from_nanosec(high)),
             Clamped(least, low, high), Clamped(most, low, high))

-----------------------------------------------------------------------------
(* Floats *)

\* The nanoseconds that Slack(size) quarters come to when they are rounded.
Off(size) == (Slack(size) + 2) \div 4

Larger(m, n) == IF Magnitude(m) > Magnitude(n) THEN Magnitude(m) ELSE Magnitude(n)

\* A second by which a time in low..high may come back late: trunc goes up to
\* a float below zero that is no whole second, and what is left is wrapped.
Late(low, high) == IF low >= 0 \/ (low = high /\ low % Giga = 0) THEN 0 ELSE Giga

ThroughSeconds ==
  LET off == Off(Larger(least, most))
  IN \E x \in to_sec(clock) :
       Moved(from_float(x.n, x.d), least - off, most + off + Late(least, most))

InMillis(n, round_up) ==
  (IF round_up /\ n % Mega # 0 THEN (n \div Mega) + 1 ELSE n \div Mega) * Mega

ThroughMillis ==
  \E round_up \in BOOLEAN :
    LET low == InMillis(least, round_up)
        high == InMillis(most, round_up)
    IN Moved(from_millis(to_millis(clock, round_up)), low, high + Late(low, high))

\* The way from n to goal, f of it gone, rounded down.
Towards(n, goal, f) == (((f[2] - f[1]) * n) + (f[1] * goal)) \div f[2]

\* A second late may be what goes backwards.
Interpolate ==
  \E goal \in Spans, f \in Fractions :
    LET end == from_nanosec(goal)
        off == Off(2 * Larger(goal - least, goal - most))
        late == IF goal >= most THEN 0 ELSE Giga
    IN \E x \in Part(clock, end, f[1], f[2]) :
         Passed(interpolate(clock, x), Negative(Along(clock, x)),
                Towards(least, goal, f) - off, Towards(most, goal, f) + 1 + off + late)

Next == Add \/ Subtract \/ Clamp \/ ThroughSeconds \/ ThroughMillis \/ Interpolate

Spec == Init /\ [][Next]_vars

-----------------------------------------------------------------------------

\* Every function returns a normal time: whatever is borrowed or carried,
\* also below zero, the nanoseconds are those of a second.
ClockNormal == clock \in Normal

\* After any calls the clock is what they amount to, but for what doubles
\* lose: no carry is lost, a time is refused exactly if it is negative,
\* clamping and comparing go by the whole time, rounding never loses a
\* second, and a float below zero is a second late at the most.
ClockWithin == least <= to_nanosec(clock) /\ to_nanosec(clock) <= most

=============================================================================
