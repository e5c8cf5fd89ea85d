-------------------------- MODULE RosClock_proofs --------------------------
(***************************************************************************)
(* For every number of nanoseconds to the second, every precision of       *)
(* doubles, every span and every fraction: the clock is normal and within  *)
(* what the calls amount to.  The arithmetic rests on the uniqueness of    *)
(* quotient and remainder; Giga is never expanded but to see that it is    *)
(* positive and even, and what doubles lose is only used to grow with the  *)
(* size of the time.                                                       *)
(***************************************************************************)
EXTENDS RosClock, TLAPS

-----------------------------------------------------------------------------
(* Division *)

\* What \div and % are: the quotient and the remainder.
LEMMA DivMod ==
  ASSUME NEW n \in Int, NEW d \in Nat \ {0}
  PROVE /\ n \div d \in Int
        /\ n % d \in 0..d - 1
        /\ n = (d * (n \div d)) + (n % d)
  BY SMT

\* There is only one quotient and one remainder.
LEMMA DivUnique ==
  ASSUME NEW d \in Nat \ {0}, NEW q \in Int, NEW r \in 0..d - 1, NEW n \in Int,
         n = (d * q) + r
  PROVE n \div d = q /\ n % d = r
<1> DEFINE p == n \div d
           s == n % d
<1>1. p \in Int /\ s \in 0..d - 1 /\ (d * q) + r = (d * p) + s
  BY DivMod
<1> HIDE DEF p, s
<1>2. q <= p
  <2>1. SUFFICES ASSUME q >= p + 1 PROVE FALSE
    BY <1>1
  <2>2. d * q >= d * (p + 1)
    BY <2>1, <1>1
  <2>3. d * (p + 1) = (d * p) + d
    BY <1>1
  <2> QED BY <2>2, <2>3, <1>1
<1>3. p <= q
  <2>1. SUFFICES ASSUME p >= q + 1 PROVE FALSE
    BY <1>1
  <2>2. d * p >= d * (q + 1)
    BY <2>1, <1>1
  <2>3. d * (q + 1) = (d * q) + d
    OBVIOUS
  <2> QED BY <2>2, <2>3, <1>1
<1>4. p = q
  BY <1>1, <1>2, <1>3
<1>5. s = r
  BY <1>1, <1>4
<1> QED BY <1>4, <1>5 DEF p, s

\* Whole multiples of d move the quotient and leave the remainder.
LEMMA DivShift ==
  ASSUME NEW n \in Int, NEW d \in Nat \ {0}, NEW k \in Int
  PROVE /\ (n + (k * d)) \div d = (n \div d) + k
        /\ (n + (k * d)) % d = n % d
<1> DEFINE q == n \div d
           r == n % d
<1>1. q \in Int /\ r \in 0..d - 1 /\ n = (d * q) + r
  BY DivMod
<1> HIDE DEF q, r
<1>2. n + (k * d) \in Int
  BY SMT
<1>3. d * (q + k) = (d * q) + (k * d)
  BY <1>1, SMT
<1>4. n + (k * d) = (d * (q + k)) + r
  BY <1>1, <1>3
<1>5. (n + (k * d)) \div d = q + k /\ (n + (k * d)) % d = r
  BY <1>1, <1>2, <1>4, DivUnique
<1> QED BY <1>5 DEF q, r

\* Of two numbers the smaller has the smaller quotient.
LEMMA DivGrows ==
  ASSUME NEW m \in Int, NEW n \in Int, NEW d \in Nat \ {0}, m <= n
  PROVE m \div d <= n \div d /\ (m >= 0 => m \div d >= 0)
<1> DEFINE p == m \div d
           q == n \div d
           r == m % d
           s == n % d
<1>1. /\ p \in Int /\ r \in 0..d - 1 /\ m = (d * p) + r
      /\ q \in Int /\ s \in 0..d - 1 /\ n = (d * q) + s
  BY DivMod
<1> HIDE DEF p, q, r, s
<1>2. d * p \in Int /\ d * q \in Int
  BY <1>1
<1>3. p >= q + 1 => d * p >= (d * q) + d
  <2>1. p >= q + 1 => d * p >= d * (q + 1)
    BY <1>1, SMT
  <2>2. d * (q + 1) = (d * q) + d
    BY <1>1, SMT
  <2> QED BY <2>1, <2>2
<1>4. p <= -1 => d * p <= -d
  <2>1. p <= -1 => d * p <= d * (-1)
    BY <1>1, SMT
  <2> QED BY <2>1
<1> QED BY <1>1, <1>2, <1>3, <1>4 DEF p, q

\* A second is a positive and even number of nanoseconds.
LEMMA GigaEven ==
  /\ Giga \in Nat \ {0} /\ Mega \in Nat \ {0}
  /\ \E h \in Nat : Giga = 2 * h
<1>1. Kilo \in Nat /\ Kilo > 0
  BY KiloAssumption
<1>2. Mega \in Nat /\ Mega > 0
  BY <1>1, SMT DEF Mega
<1>3. PICK k \in Nat : Kilo = 2 * k
  <2>1. Kilo = (2 * (Kilo \div 2)) + (Kilo % 2) /\ Kilo \div 2 \in Int
    BY <1>1, DivMod
  <2>2. Kilo \div 2 \in Nat /\ Kilo = 2 * (Kilo \div 2)
    BY <2>1, <1>1, KiloAssumption
  <2> QED BY <2>2
<1>4. k * Mega \in Nat
  BY <1>2, <1>3, SMT
<1>5. Giga = 2 * (k * Mega)
  BY <1>2, <1>3, SMT DEF Giga
<1>6. Giga > 0
  BY <1>1, <1>2, SMT DEF Giga
<1> QED BY <1>2, <1>4, <1>5, <1>6

-----------------------------------------------------------------------------
(* Times *)

LEMMA StampFields ==
  ASSUME NEW sec \in Int, NEW nsec \in Int
  PROVE /\ Stamp(sec, nsec) \in Time
        /\ Stamp(sec, nsec).sec = sec /\ Stamp(sec, nsec).nsec = nsec
        /\ to_nanosec(Stamp(sec, nsec)) = (sec * Giga) + nsec
  BY DEF Stamp, Time, to_nanosec

\* fix_time keeps the nanoseconds, and refuses what is below zero.
LEMMA FixTime ==
  ASSUME NEW t \in Time
  PROVE /\ fix_time(t) \in Normal
        /\ to_nanosec(fix_time(t)) = to_nanosec(t)
        /\ Negative(t) <=> to_nanosec(t) < 0
<1> DEFINE q == t.nsec \div Giga
           r == t.nsec % Giga
<1>1. t.sec \in Int /\ t.nsec \in Int /\ Giga \in Nat \ {0}
  BY GigaEven DEF Time
<1>2. q \in Int /\ r \in 0..Giga - 1 /\ t.nsec = (Giga * q) + r
  BY <1>1, DivMod
<1>3. fix_time(t) = [sec |-> t.sec + q, nsec |-> r]
  BY DEF fix_time, Stamp
<1> HIDE DEF q, r
<1>4. (t.sec + q) * Giga = (t.sec * Giga) + (Giga * q)
  BY <1>1, <1>2, SMT
<1>5. to_nanosec(t) = ((t.sec + q) * Giga) + r
  BY <1>1, <1>2, <1>4 DEF to_nanosec
<1>6. (t.sec + q < 0) <=> to_nanosec(t) < 0
  <2> DEFINE s == t.sec + q
  <2>1. s \in Int
    BY <1>1, <1>2
  <2> HIDE DEF s
  <2>2. s < 0 => s * Giga <= -Giga
    BY <2>1, <1>1, SMT
  <2>3. s >= 0 => s * Giga >= 0
    BY <2>1, <1>1, SMT
  <2>4. s * Giga \in Int
    BY <2>1, <1>1
  <2>5. to_nanosec(t) = (s * Giga) + r
    BY <1>5 DEF s
  <2>6. (s < 0) <=> to_nanosec(t) < 0
    BY <2>1, <2>2, <2>3, <2>4, <2>5, <1>1, <1>2
  <2> QED BY <2>6 DEF s
<1>7. fix_time(t) \in Normal /\ fix_time(t).sec = t.sec + q /\ fix_time(t).nsec = r
  BY <1>1, <1>2, <1>3 DEF Normal
<1>8. to_nanosec(fix_time(t)) = to_nanosec(t)
  BY <1>5, <1>7 DEF to_nanosec
<1> QED BY <1>6, <1>7, <1>8 DEF Negative

\* from_nanosec is the inverse of to_nanosec.
LEMMA FromNanosec ==
  ASSUME NEW n \in Int
  PROVE from_nanosec(n) \in Normal /\ to_nanosec(from_nanosec(n)) = n
<1>1. /\ n \div Giga \in Int /\ n % Giga \in 0..Giga - 1
      /\ n = (Giga * (n \div Giga)) + (n % Giga)
  BY GigaEven, DivMod
<1>2. (n \div Giga) * Giga = Giga * (n \div Giga)
  BY <1>1, GigaEven, SMT
<1> QED BY <1>1, <1>2 DEF from_nanosec, to_nanosec, Stamp, Normal

\* Sums and differences of normal times.
LEMMA Sums ==
  ASSUME NEW a \in Time, NEW b \in Time
  PROVE LET sum == Stamp(a.sec + b.sec, a.nsec + b.nsec)
            difference == Stamp(a.sec - b.sec, a.nsec - b.nsec)
        IN /\ sum \in Time /\ to_nanosec(sum) = to_nanosec(a) + to_nanosec(b)
           /\ difference \in Time /\ to_nanosec(difference) = to_nanosec(a) - to_nanosec(b)
<1>1. a.sec \in Int /\ a.nsec \in Int /\ b.sec \in Int /\ b.nsec \in Int /\ Giga \in Nat
  BY GigaEven DEF Time
<1> DEFINE A == a.sec * Giga
           B == b.sec * Giga
<1>2. /\ A \in Int /\ B \in Int
      /\ (a.sec + b.sec) * Giga = A + B
      /\ (a.sec - b.sec) * Giga = A - B
  BY <1>1, SMT
<1>3. to_nanosec(a) = A + a.nsec /\ to_nanosec(b) = B + b.nsec
  BY DEF to_nanosec
<1> HIDE DEF A, B
<1>4. /\ a.sec + b.sec \in Int /\ a.nsec + b.nsec \in Int
      /\ a.sec - b.sec \in Int /\ a.nsec - b.nsec \in Int
  BY <1>1
<1>5. /\ Stamp(a.sec + b.sec, a.nsec + b.nsec) \in Time
      /\ to_nanosec(Stamp(a.sec + b.sec, a.nsec + b.nsec)) = (A + B) + (a.nsec + b.nsec)
  BY <1>2, <1>4, StampFields
<1>6. /\ Stamp(a.sec - b.sec, a.nsec - b.nsec) \in Time
      /\ to_nanosec(Stamp(a.sec - b.sec, a.nsec - b.nsec)) = (A - B) + (a.nsec - b.nsec)
  BY <1>2, <1>4, StampFields
<1>7. /\ (A + B) + (a.nsec + b.nsec) = (A + a.nsec) + (B + b.nsec)
      /\ (A - B) + (a.nsec - b.nsec) = (A + a.nsec) - (B + b.nsec)
  BY <1>1, <1>2
<1> QED BY <1>3, <1>5, <1>6, <1>7

\* compare orders normal times as their nanoseconds are ordered.
LEMMA CompareSign ==
  ASSUME NEW a \in Normal, NEW b \in Normal
  PROVE /\ compare(a, b) > 0 <=> to_nanosec(a) > to_nanosec(b)
        /\ compare(a, b) < 0 <=> to_nanosec(a) < to_nanosec(b)
<1>1. /\ a.sec \in Int /\ a.nsec \in 0..Giga - 1 /\ b.sec \in Int /\ b.nsec \in 0..Giga - 1
      /\ Giga \in Nat \ {0}
  BY GigaEven DEF Normal
<1> DEFINE A == a.sec * Giga
           B == b.sec * Giga
<1>2. A \in Int /\ B \in Int
  BY <1>1
<1>3. to_nanosec(a) = A + a.nsec /\ to_nanosec(b) = B + b.nsec
  BY DEF to_nanosec
<1>4. a.sec < b.sec => A + Giga <= B
  <2>1. a.sec < b.sec => (a.sec + 1) * Giga <= b.sec * Giga
    BY <1>1, SMT
  <2>2. (a.sec + 1) * Giga = (a.sec * Giga) + Giga
    BY <1>1, SMT
  <2> QED BY <2>1, <2>2
<1>5. b.sec < a.sec => B + Giga <= A
  <2>1. b.sec < a.sec => (b.sec + 1) * Giga <= a.sec * Giga
    BY <1>1, SMT
  <2>2. (b.sec + 1) * Giga = (b.sec * Giga) + Giga
    BY <1>1, SMT
  <2> QED BY <2>1, <2>2
<1>6. a.sec = b.sec => A = B
  OBVIOUS
<1> HIDE DEF A, B
<1> QED BY <1>1, <1>2, <1>3, <1>4, <1>5, <1>6 DEF compare

-----------------------------------------------------------------------------
(* Floats *)

\* round is the quotient or the next integer, and the quotient of a multiple.
LEMMA RoundBounds ==
  ASSUME NEW n \in Int, NEW d \in Nat \ {0}
  PROVE /\ round(n, d) \in Int
        /\ round(n, d) = n \div d \/ round(n, d) = (n \div d) + 1
        /\ n % d = 0 => round(n, d) = n \div d
<1>1. n \div d \in Int /\ n % d \in 0..d - 1
  BY DivMod
<1> QED BY <1>1 DEF round

\* Whole seconds may be taken out before rounding: they are even.
LEMMA RoundShift ==
  ASSUME NEW n \in Int, NEW d \in Nat \ {0}, NEW sec \in Int
  PROVE round(n - ((sec * Giga) * d), d) = round(n, d) - (sec * Giga)
<1> DEFINE k == -(sec * Giga)
           q == n \div d
           r == n % d
<1>1. Giga \in Nat
  BY GigaEven
<1>2. PICK h \in Nat : Giga = 2 * h
  BY GigaEven
<1>3. k \in Int /\ sec * Giga = -k
  BY <1>1
<1>4. n - ((sec * Giga) * d) = n + (k * d)
  BY <1>1, SMT
<1>5. q \in Int /\ r \in 0..d - 1
  BY DivMod
<1>6. k = (-(sec * h)) * 2 /\ -(sec * h) \in Int
  BY <1>2, SMT
<1> HIDE DEF k
<1>7. (n + (k * d)) \div d = q + k /\ (n + (k * d)) % d = r
  BY <1>3, DivShift
<1> HIDE DEF q, r
<1>8. (q + k) % 2 = q % 2
  BY <1>5, <1>6, DivShift
<1>9. round(n + (k * d), d) = round(n, d) + k
  BY <1>3, <1>5, <1>7, <1>8 DEF round, q, r
<1>10. round(n, d) \in Int
  BY RoundBounds
<1> QED BY <1>3, <1>4, <1>9, <1>10

\* from_sec and the like round to the nearest nanosecond, but for floats
\* below zero that are no whole second, which come out a second late.
LEMMA FromFloat ==
  ASSUME NEW n \in Int, NEW d \in Nat \ {0}
  PROVE /\ from_float(n, d) \in Normal
        /\ \/ to_nanosec(from_float(n, d)) = round(n, d)
           \/ /\ n < 0 /\ round(n, d) % Giga # 0
              /\ to_nanosec(from_float(n, d)) = round(n, d) + Giga
<1> DEFINE G == Giga
           sec == trunc(n, d * Giga)
           x == n - ((sec * Giga) * d)
           y == round(x, d)
           N == round(n, d)
<1>1. G \in Nat \ {0} /\ d * G \in Nat \ {0}
  BY GigaEven, SMT
<1>2. sec \in Int
  BY <1>1, DivMod DEF trunc
<1>3. x \in Int
  BY <1>1, <1>2, SMT
<1>4. N \in Int /\ y \in Int /\ N = y + (sec * G)
  <2>1. N \in Int /\ y \in Int
    BY <1>3, RoundBounds
  <2>2. y = N - (sec * G)
    BY <1>2, RoundShift
  <2>3. sec * G \in Int
    BY <1>1, <1>2
  <2> QED BY <2>1, <2>2, <2>3
<1>5. from_float(n, d) = Stamp(sec + trunc(y, G), y % G)
  BY DEF from_float
<1>6. N % G = y % G
  <2> HIDE DEF sec, x, y, N, G
  <2>1. (y + (sec * G)) % G = y % G
    BY <1>1, <1>2, <1>4, DivShift
  <2> QED BY <1>4, <2>1
<1>7. CASE n >= 0
  <2>1. sec >= 0 /\ x \in 0..(d * G) - 1
    <3> DEFINE c == d * G
               q == n \div c
               r == n % c
    <3>1. q \in Int /\ r \in 0..c - 1 /\ n = (c * q) + r
      BY <1>1, DivMod
    <3>2. sec = q
      BY <1>7 DEF trunc
    <3>3. (q * G) * d = c * q
      BY <1>1, <3>1, SMT
    <3>4. x = r
      BY <3>1, <3>2, <3>3, <1>1
    <3>5. q >= 0
      <4>1. SUFFICES ASSUME q <= -1 PROVE FALSE
        BY <3>1
      <4> HIDE DEF c, q, r
      <4>2. c \in Nat /\ c > 0
        BY <1>1 DEF c
      <4>3. c * q <= c * (-1)
        BY <4>1, <4>2, <3>1, SMT
      <4>4. c * (-1) = -c
        BY <4>2
      <4>5. c * q \in Int
        BY <4>2, <3>1
      <4> QED BY <4>2, <4>3, <4>4, <4>5, <3>1, <1>7
    <3> QED BY <3>1, <3>2, <3>4, <3>5
  <2> HIDE DEF sec, x, y, N, G
  <2>2. y >= 0
    <3> DEFINE p == x \div d
               s == x % d
    <3>1. p \in Int /\ s \in 0..d - 1 /\ x = (d * p) + s
      BY <1>3, DivMod
    <3>2. y = p \/ y = p + 1
      BY <1>3, RoundBounds DEF y
    <3> HIDE DEF p, s
    <3>3. p <= -1 => d * p <= d * (-1)
      BY <3>1, SMT
    <3>4. d * (-1) = -d /\ d * p \in Int
      BY <3>1
    <3> QED BY <3>1, <3>2, <3>3, <3>4, <2>1, <1>1
  <2>3. y \div G \in Int /\ y % G \in 0..G - 1 /\ y = (G * (y \div G)) + (y % G)
    BY <1>1, <1>4, DivMod
  <2>4. trunc(y, G) = y \div G
    BY <2>2 DEF trunc
  <2>5. (sec + (y \div G)) * G = (sec * G) + (G * (y \div G))
    BY <1>1, <1>2, <2>3, SMT
  <2>6. from_float(n, d) \in Normal
    BY <1>2, <1>5, <2>3, <2>4 DEF Normal, Stamp, G
  <2>7. to_nanosec(from_float(n, d)) = ((sec + (y \div G)) * G) + (y % G)
    BY <1>2, <1>5, <2>3, <2>4 DEF to_nanosec, Stamp, G
  <2>8. to_nanosec(from_float(n, d)) = N
    <3>1. sec * G \in Int /\ G * (y \div G) \in Int
      BY <1>1, <1>2, <2>3
    <3> QED BY <1>4, <2>3, <2>5, <2>7, <3>1
  <2> QED BY <2>6, <2>8 DEF N
<1>8. CASE n < 0
  <2>1. sec <= 0 /\ x \in -(d * G) + 1..0
    <3> DEFINE c == d * G
               q == (-n) \div c
               r == (-n) % c
    <3>1. q \in Int /\ r \in 0..c - 1 /\ -n = (c * q) + r
      <4>1. c \in Nat \ {0} /\ -n \in Int
        BY <1>1
      <4> HIDE DEF c
      <4> QED BY <4>1, DivMod
    <3>2. sec = -q
      BY <1>8 DEF trunc
    <3>3. ((-q) * G) * d = -(c * q)
      BY <1>1, <3>1, SMT
    <3>4. x = -r
      <4>1. c * q \in Int
        BY <1>1, <3>1
      <4>2. x = n + (c * q)
        BY <3>2, <3>3, <4>1
      <4> QED BY <3>1, <4>1, <4>2
    <3>5. q >= 0
      <4>1. SUFFICES ASSUME q <= -1 PROVE FALSE
        BY <3>1
      <4> HIDE DEF c, q, r
      <4>2. c \in Nat /\ c > 0
        BY <1>1 DEF c
      <4>3. c * q <= c * (-1)
        BY <4>1, <4>2, <3>1, SMT
      <4>4. c * (-1) = -c
        BY <4>2
      <4>5. c * q \in Int
        BY <4>2, <3>1
      <4> QED BY <4>2, <4>3, <4>4, <4>5, <3>1, <1>8
    <3> QED BY <1>1, <3>1, <3>2, <3>4, <3>5
  <2> HIDE DEF sec, x, y, N, G
  <2>2. y \in -G..0
    <3> DEFINE p == x \div d
               s == x % d
    <3>1. p \in Int /\ s \in 0..d - 1 /\ x = (d * p) + s
      BY <1>3, DivMod
    <3>2. (y = p \/ y = p + 1) /\ (s = 0 => y = p)
      BY <1>3, RoundBounds DEF y
    <3> HIDE DEF p, s
    <3>3. p <= 0 /\ (p = 0 => s = 0)
      <4>1. p >= 1 => d * p >= d
        BY <3>1, SMT
      <4>2. p = 0 => d * p = 0
        OBVIOUS
      <4>3. d * p \in Int
        BY <3>1
      <4> QED BY <3>1, <4>1, <4>2, <4>3, <2>1, <1>1
    <3>4. p >= -G
      <4>1. p <= -G - 1 => d * p <= d * (-G - 1)
        BY <3>1, <1>1, SMT
      <4>2. d * (-G - 1) = -(d * G) - d
        BY <1>1, SMT
      <4>3. d * p \in Int
        BY <3>1
      <4> QED BY <3>1, <4>1, <4>2, <4>3, <2>1, <1>1
    <3> QED BY <1>1, <1>4, <3>1, <3>2, <3>3, <3>4
  <2>3. sec * G \in Int /\ sec * G <= 0
    BY <1>1, <1>2, <2>1, SMT
  <2>4. ASSUME NEW t \in Int, NEW r \in 0..G - 1, trunc(y, G) = t, y % G = r
        PROVE /\ from_float(n, d) \in Normal
              /\ to_nanosec(from_float(n, d)) = (sec * G) + ((t * G) + r)
    <3>1. from_float(n, d) = Stamp(sec + t, r)
      BY <1>5, <2>4
    <3>2. (sec + t) * G = (sec * G) + (t * G)
      BY <1>1, <1>2, SMT
    <3>3. t * G \in Int
      BY <1>1
    <3>4. (((sec * G) + (t * G)) + r) = (sec * G) + ((t * G) + r)
      BY <2>3, <3>3, <1>1
    <3>5. sec + t \in Int
      BY <1>2
    <3> QED BY <3>1, <3>2, <3>4, <3>5 DEF Normal, Stamp, to_nanosec, G
  <2>5. CASE y = 0
    <3>1. 0 = (G * 0) + 0
      BY <1>1
    <3>2. y \div G = 0 /\ y % G = 0
      BY <1>1, <2>5, <3>1, DivUnique
    <3>3. trunc(y, G) = 0
      BY <2>5, <3>2 DEF trunc
    <3>4. from_float(n, d) \in Normal /\ to_nanosec(from_float(n, d)) = (sec * G) + ((0 * G) + 0)
      BY <1>1, <2>4, <3>2, <3>3
    <3>5. N = (sec * G) + ((0 * G) + 0)
      BY <1>1, <1>4, <2>3, <2>5
    <3> QED BY <3>4, <3>5 DEF N
  <2>6. CASE y = -G
    <3>1. -G = (G * (-1)) + 0 /\ G = (G * 1) + 0
      BY <1>1
    <3>2. y % G = 0
      BY <1>1, <2>6, <3>1, DivUnique
    <3>3. (-y) \div G = 1
      BY <1>1, <2>6, <3>1, DivUnique
    <3>4. trunc(y, G) = -1
      BY <1>1, <2>6, <3>3 DEF trunc
    <3>5. from_float(n, d) \in Normal /\ to_nanosec(from_float(n, d)) = (sec * G) + (((-1) * G) + 0)
      BY <1>1, <2>4, <3>2, <3>4
    <3>6. N = (sec * G) + (((-1) * G) + 0)
      BY <1>1, <1>4, <2>3, <2>6
    <3> QED BY <3>5, <3>6 DEF N
  <2>7. CASE y < 0 /\ y > -G
    <3>1. y = (G * (-1)) + (y + G)
      BY <1>1, <1>4
    <3>2. y + G \in 0..G - 1 /\ -y \in 0..G - 1 /\ -y = (G * 0) + (-y)
      BY <1>1, <1>4, <2>7
    <3>3. y % G = y + G
      <4> DEFINE r == y + G
      <4>1. r \in 0..G - 1 /\ y = (G * (-1)) + r
        BY <3>1, <3>2
      <4> HIDE DEF r
      <4>2. y % G = r
        BY <1>1, <1>4, <4>1, DivUnique
      <4> QED BY <4>2 DEF r
    <3>4. (-y) \div G = 0
      <4> DEFINE r == -y
      <4>1. r \in 0..G - 1 /\ r = (G * 0) + r
        BY <3>2
      <4> HIDE DEF r
      <4>2. r \div G = 0
        BY <1>1, <4>1, DivUnique
      <4> QED BY <4>2 DEF r
    <3>5. trunc(y, G) = 0
      BY <1>4, <2>7, <3>4 DEF trunc
    <3>6. from_float(n, d) \in Normal /\ to_nanosec(from_float(n, d)) = (sec * G) + ((0 * G) + (y + G))
      BY <1>1, <2>4, <3>2, <3>3, <3>5
    <3>7. N % G # 0
      BY <1>1, <1>4, <1>6, <2>7, <3>3
    <3>8. N + G = (sec * G) + ((0 * G) + (y + G))
      BY <1>1, <1>4, <2>3
    <3> QED BY <1>8, <3>6, <3>7, <3>8 DEF N, G
  <2> QED BY <1>1, <1>4, <2>2, <2>5, <2>6, <2>7
<1> QED BY <1>7, <1>8

\* A whole number is rounded to itself.
LEMMA RoundWhole ==
  ASSUME NEW n \in Int
  PROVE round(n, 1) = n
<1>1. n = (1 * n) + 0 /\ 0 \in 0..1 - 1 /\ 1 \in Nat \ {0}
  OBVIOUS
<1>2. n \div 1 = n /\ n % 1 = 0
  BY <1>1, DivUnique
<1> QED BY <1>2, RoundBounds

\* to_millis rounds the whole time, up or down.
LEMMA ToMillis ==
  ASSUME NEW t \in Normal, NEW round_up \in BOOLEAN
  PROVE LET n == to_nanosec(t)
        IN to_millis(t, round_up) =
             IF round_up /\ n % Mega # 0 THEN (n \div Mega) + 1 ELSE n \div Mega
<1> DEFINE k == t.sec * Kilo
           q == t.nsec \div Mega
           r == t.nsec % Mega
<1>1. t.sec \in Int /\ t.nsec \in Int /\ Kilo \in Nat /\ Mega \in Nat \ {0}
  BY GigaEven, KiloAssumption DEF Normal
<1>2. q \in Int /\ r \in 0..Mega - 1 /\ t.nsec = (Mega * q) + r
  BY <1>1, DivMod
<1>3. k \in Int
  BY <1>1
<1>4. t.sec * Giga = k * Mega
  BY <1>1, SMT DEF Giga
<1>5. k * Mega \in Int
  BY <1>1, <1>3
<1> HIDE DEF k
<1>6. to_nanosec(t) = t.nsec + (k * Mega)
  BY <1>1, <1>4, <1>5 DEF to_nanosec
<1>7. to_nanosec(t) \div Mega = q + k /\ to_nanosec(t) % Mega = r
  <2>1. /\ (t.nsec + (k * Mega)) \div Mega = (t.nsec \div Mega) + k
        /\ (t.nsec + (k * Mega)) % Mega = t.nsec % Mega
    BY <1>1, <1>3, DivShift
  <2> QED BY <1>6, <2>1
<1>8. -((-t.nsec) \div Mega) = IF r = 0 THEN q ELSE q + 1
  <2> HIDE DEF q, r
  <2> DEFINE c == IF r = 0 THEN q ELSE q + 1
             s == IF r = 0 THEN 0 ELSE Mega - r
  <2>1. c \in Int /\ s \in 0..Mega - 1 /\ -t.nsec \in Int /\ -c \in Int
    BY <1>1, <1>2
  <2>2. Mega * (q + 1) = (Mega * q) + Mega /\ Mega * q \in Int
    BY <1>1, <1>2, SMT
  <2>3. Mega * (-c) = -(Mega * c)
    BY <1>1, <2>1, SMT
  <2>4. -t.nsec = (Mega * (-c)) + s
    BY <1>1, <1>2, <2>2, <2>3
  <2> HIDE DEF c, s
  <2>5. (-t.nsec) \div Mega = -c
    BY <1>1, <2>1, <2>4, DivUnique
  <2> QED BY <2>1, <2>5 DEF c
<1>9. to_millis(t, round_up) = IF round_up /\ r # 0 THEN k + q + 1 ELSE k + q
  <2>1. to_millis(t, round_up) = k + (IF round_up THEN -((-t.nsec) \div Mega) ELSE q)
    BY DEF to_millis, k
  <2> HIDE DEF q, r
  <2> QED BY <1>2, <1>3, <1>8, <2>1
<1> HIDE DEF q, r
<1> QED BY <1>2, <1>3, <1>7, <1>9

-----------------------------------------------------------------------------
(* Doubles *)

\* A larger time has the coarser doubles.
LEMMA SlackGrows ==
  ASSUME NEW size \in Nat, NEW larger \in Nat, size <= larger
  PROVE /\ Slack(size) \in Nat /\ Off(size) \in Nat
        /\ Off(size) <= Off(larger)
        /\ 4 * Off(size) >= Slack(size) - 1
<1> DEFINE g == 3 * Giga
           a == (4 * (size + g)) + (Precision - 1)
           b == (4 * (larger + g)) + (Precision - 1)
<1>1. g \in Nat /\ Precision \in Nat \ {0}
  BY GigaEven, PrecisionAssumption
<1>2. Slack(size) = a \div Precision /\ Slack(larger) = b \div Precision
  BY DEF Slack
<1> HIDE DEF g
<1>3. a \in Nat /\ b \in Nat /\ a <= b
  BY <1>1
<1> HIDE DEF a, b
<1>4. Slack(size) \in Nat /\ Slack(larger) \in Nat /\ Slack(size) <= Slack(larger)
  BY <1>1, <1>2, <1>3, DivGrows
<1>5. /\ Off(size) \in Nat /\ Off(size) <= Off(larger)
      /\ 4 * Off(size) >= Slack(size) - 1
  <2> DEFINE s == Slack(size)
             l == Slack(larger)
  <2> HIDE DEF s, l
  <2>1. (s \in Nat /\ l \in Nat /\ s <= l)
          => /\ (s + 2) \div 4 \in Nat /\ (s + 2) \div 4 <= (l + 2) \div 4
             /\ 4 * ((s + 2) \div 4) >= s - 1
    BY SMT
  <2> QED BY <1>4, <2>1 DEF Off, s, l
<1> QED BY <1>4, <1>5

\* round is at most half of one away.
LEMMA RoundNear ==
  ASSUME NEW n \in Int, NEW d \in Nat \ {0}
  PROVE LET twice == 2 * (d * round(n, d))
        IN (2 * n) - d <= twice /\ twice <= (2 * n) + d
<1> DEFINE q == n \div d
           r == n % d
<1>1. q \in Int /\ r \in 0..d - 1 /\ n = (d * q) + r
  BY DivMod
<1>2. /\ round(n, d) = q => 2 * r <= d
      /\ round(n, d) # q => round(n, d) = q + 1 /\ 2 * r >= d
  BY <1>1 DEF round
<1> HIDE DEF q, r
<1>3. d * (q + 1) = (d * q) + d /\ d * q \in Int
  BY <1>1, SMT
<1>4. CASE round(n, d) = q
  BY <1>1, <1>2, <1>3, <1>4
<1>5. CASE round(n, d) # q
  BY <1>1, <1>2, <1>3, <1>5
<1> QED BY <1>4, <1>5

\* What is meant, rounded down, is missed by what doubles lose and by what
\* rounding adds.
LEMMA DoublesRound ==
  ASSUME NEW n \in Int, NEW d \in Nat \ {0}, NEW size \in Nat, NEW x \in Doubles(n, d, size)
  PROVE /\ x.n \in Int /\ x.d \in Nat \ {0} /\ round(x.n, x.d) \in Int
        /\ x.n < 0 => n < 0
        /\ (n \div d) - Off(size) <= round(x.n, x.d)
        /\ round(x.n, x.d) <= (n \div d) + 1 + Off(size)
        /\ n % d = 0 => round(x.n, x.d) <= (n \div d) + Off(size)
<1> DEFINE s == Slack(size)
           o == Off(size)
           q == n \div d
           r == n % d
           R == round(x.n, x.d)
<1>1. s \in Nat /\ o \in Nat /\ 4 * o >= s - 1
  BY SlackGrows
<1> HIDE DEF s, o
<1>2. PICK e \in -(d * s)..(d * s) :
        /\ n >= 0 => (4 * n) + e >= 0
        /\ x = [n |-> (4 * n) + e, d |-> 4 * d]
  BY DEF Doubles, s
<1>3. d * s \in Nat /\ e \in Int /\ -(d * s) <= e /\ e <= d * s
  BY <1>1
<1>4. x.n = (4 * n) + e /\ x.n \in Int /\ x.d = 4 * d /\ x.d \in Nat \ {0}
  BY <1>2, <1>3
<1>5. q \in Int /\ r \in 0..d - 1 /\ n = (d * q) + r
  BY DivMod
<1>6. R \in Int
  BY <1>4, RoundBounds
<1>7. /\ (2 * x.n) - x.d <= 2 * (x.d * R)
      /\ 2 * (x.d * R) <= (2 * x.n) + x.d
  BY <1>4, RoundNear
<1> HIDE DEF q, r, R
<1>8. d * R \in Int /\ x.d * R = 4 * (d * R)
  BY <1>4, <1>6, SMT
<1>9. /\ (8 * n) + (2 * e) - (4 * d) <= 8 * (d * R)
      /\ 8 * (d * R) <= (8 * n) + (2 * e) + (4 * d)
  BY <1>3, <1>4, <1>7, <1>8
<1>10. d * q \in Int /\ d * o \in Int
  BY <1>1, <1>5
<1>11. 4 * (d * o) >= (d * s) - d
  <2>1. d * (4 * o) >= d * (s - 1)
    BY <1>1, SMT
  <2>2. d * (4 * o) = 4 * (d * o) /\ d * (s - 1) = (d * s) - d
    BY <1>1, SMT
  <2> QED BY <2>1, <2>2
<1>12. q - o <= R
  <2>1. SUFFICES ASSUME R <= q - o - 1 PROVE FALSE
    BY <1>1, <1>5, <1>6
  <2>2. d * R <= d * (q - o - 1)
    BY <2>1, <1>1, <1>5, <1>6, SMT
  <2>3. d * (q - o - 1) = (d * q) - (d * o) - d
    BY <1>1, <1>5, SMT
  <2> QED BY <1>3, <1>5, <1>8, <1>9, <1>10, <1>11, <2>2, <2>3
<1>13. ASSUME NEW k \in Int, d * k >= r, k >= 0 PROVE R <= q + k + o
  <2>1. SUFFICES ASSUME R >= q + k + o + 1 PROVE FALSE
    BY <1>1, <1>5, <1>6
  <2>2. d * R >= d * (q + k + o + 1)
    BY <2>1, <1>1, <1>5, <1>6, SMT
  <2>3. d * (q + k + o + 1) = (d * q) + (d * k) + (d * o) + d
    BY <1>1, <1>5, SMT
  <2>4. d * k \in Int
    OBVIOUS
  <2> QED BY <1>3, <1>5, <1>8, <1>9, <1>10, <1>11, <1>13, <2>2, <2>3, <2>4
<1>14. R <= q + 1 + o
  <2>1. d * 1 >= r
    BY <1>5
  <2> QED BY <1>13, <2>1
<1>15. r = 0 => R <= q + o
  <2>1. SUFFICES ASSUME r = 0 PROVE R <= q + o
    OBVIOUS
  <2>2. d * 0 >= r
    BY <2>1
  <2>3. R <= q + 0 + o
    BY <1>13, <2>2
  <2> QED BY <1>1, <1>5, <2>3
<1>16. x.n < 0 => n < 0
  BY <1>2, <1>3, <1>4
<1> QED BY <1>4, <1>6, <1>12, <1>14, <1>15, <1>16 DEF q, r, R, o

-----------------------------------------------------------------------------
(* The clock *)

\* What is inductive: the interval has to have numbers for its ends.
ClockInv == ClockNormal /\ ClockWithin /\ least \in Int /\ most \in Int

\* Normal times are times, and whole nanoseconds.
LEMMA NormalTime ==
  ASSUME NEW t \in Normal
  PROVE t \in Time /\ to_nanosec(t) \in Int
<1>1. t \in Time /\ t.sec \in Int /\ t.nsec \in Int /\ Giga \in Int
  BY GigaEven DEF Normal, Time
<1> QED BY <1>1 DEF to_nanosec

\* A call that never raises keeps the invariant if its result lies within
\* what it amounts to.
LEMMA MovedKeeps ==
  ASSUME NEW time \in Normal, NEW low \in Int, NEW high \in Int,
         low <= to_nanosec(time), to_nanosec(time) <= high,
         Moved(time, low, high)
  PROVE ClockInv'
BY DEF Moved, ClockInv, ClockNormal, ClockWithin, to_nanosec

\* A call that normalizes t keeps it, whether it raises or not: what raises
\* is below zero, and was expected to be possible.
LEMMA PassedKeeps ==
  ASSUME ClockInv, NEW t \in Time, NEW low \in Int, NEW high \in Int,
         low <= to_nanosec(t), to_nanosec(t) <= high,
         Passed(fix_time(t), Negative(t), low, high)
  PROVE ClockInv'
<1>1. /\ fix_time(t) \in Normal /\ to_nanosec(fix_time(t)) = to_nanosec(t)
      /\ Negative(t) <=> to_nanosec(t) < 0
  BY FixTime
<1>2. to_nanosec(t) \in Int
  BY GigaEven DEF Time, to_nanosec
<1>3. CASE Negative(t)
  <2>1. low < 0
    BY <1>1, <1>2, <1>3
  <2>2. clock' = clock /\ least' = least /\ most' = most
    BY <1>3, <2>1 DEF Passed
  <2> QED BY <2>2 DEF ClockInv, ClockNormal, ClockWithin, to_nanosec
<1>4. CASE ~Negative(t)
  <2>1. ~(high < 0)
    BY <1>1, <1>2, <1>4
  <2>2. clock' = fix_time(t) /\ least' = low /\ most' = high
    BY <1>4, <2>1 DEF Passed
  <2>3. to_nanosec(clock') = to_nanosec(t)
    BY <1>1, <2>2
  <2> QED BY <1>1, <2>2, <2>3 DEF ClockInv, ClockNormal, ClockWithin, to_nanosec
<1> QED BY <1>3, <1>4

LEMMA InitClock == Init => ClockInv
<1>1. SUFFICES ASSUME Init PROVE ClockInv
  OBVIOUS
<1>2. PICK n \in Spans : clock = from_nanosec(n) /\ least = n /\ most = n
  BY <1>1 DEF Init
<1>3. n \in Int
  BY SpansAssumption
<1>4. from_nanosec(n) \in Normal /\ to_nanosec(from_nanosec(n)) = n
  BY <1>3, FromNanosec
<1> QED BY <1>2, <1>3, <1>4 DEF ClockInv, ClockNormal, ClockWithin

LEMMA AddKeeps == ASSUME ClockInv, Add PROVE ClockInv'
<1>1. PICK span \in Spans :
        LET b == from_nanosec(span)
            sum == Stamp(clock.sec + b.sec, clock.nsec + b.nsec)
        IN Passed(add(clock, b), Negative(sum), least + span, most + span)
  BY DEF Add
<1> DEFINE b == from_nanosec(span)
           sum == Stamp(clock.sec + b.sec, clock.nsec + b.nsec)
           n == to_nanosec(clock)
<1>2. /\ span \in Int /\ least \in Int /\ most \in Int
      /\ clock \in Time /\ n \in Int /\ least <= n /\ n <= most
  BY SpansAssumption, NormalTime DEF ClockInv, ClockNormal, ClockWithin
<1>3. b \in Time /\ to_nanosec(b) = span
  BY <1>2, FromNanosec, NormalTime
<1> HIDE DEF b, n
<1>4. sum \in Time /\ to_nanosec(sum) = n + span
  BY <1>2, <1>3, Sums DEF n
<1>5. Passed(fix_time(sum), Negative(sum), least + span, most + span)
  BY <1>1 DEF add, b
<1> HIDE DEF sum
<1>6. least + span <= n + span /\ n + span <= most + span
  BY <1>2
<1>7. least + span \in Int /\ most + span \in Int
  BY <1>2
<1> QED BY <1>4, <1>5, <1>6, <1>7, PassedKeeps

LEMMA SubtractKeeps == ASSUME ClockInv, Subtract PROVE ClockInv'
<1>1. PICK span \in Spans :
        Moved(subtract(clock, from_nanosec(span)), least - span, most - span)
  BY DEF Subtract
<1> DEFINE b == from_nanosec(span)
           difference == Stamp(clock.sec - b.sec, clock.nsec - b.nsec)
           n == to_nanosec(clock)
<1>2. /\ span \in Int /\ least \in Int /\ most \in Int
      /\ clock \in Time /\ n \in Int /\ least <= n /\ n <= most
  BY SpansAssumption, NormalTime DEF ClockInv, ClockNormal, ClockWithin
<1>3. b \in Time /\ to_nanosec(b) = span
  BY <1>2, FromNanosec, NormalTime
<1> HIDE DEF b, n
<1>4. difference \in Time /\ to_nanosec(difference) = n - span
  BY <1>2, <1>3, Sums DEF n
<1>5. Moved(fix_time(difference), least - span, most - span)
  BY <1>1 DEF subtract, b
<1> HIDE DEF difference
<1>6. fix_time(difference) \in Normal /\ to_nanosec(fix_time(difference)) = n - span
  BY <1>4, FixTime
<1>7. /\ least - span <= n - span /\ n - span <= most - span
      /\ least - span \in Int /\ most - span \in Int
  BY <1>2
<1> QED BY <1>5, <1>6, <1>7, MovedKeeps

LEMMA ClampKeeps == ASSUME ClockInv, Clamp PROVE ClockInv'
<1>1. PICK low \in Spans, high \in Spans :
        /\ low <= high
        /\ Moved(clamp_time(clock, from_nanosec(low), from_nanosec(high)),
                 Clamped(least, low, high), Clamped(most, low, high))
  BY DEF Clamp
<1> DEFINE start == from_nanosec(low)
           end == from_nanosec(high)
           time == clamp_time(clock, start, end)
           n == to_nanosec(clock)
<1>2. /\ low \in Int /\ high \in Int /\ least \in Int /\ most \in Int
      /\ clock \in Normal /\ n \in Int /\ least <= n /\ n <= most
  BY SpansAssumption, NormalTime DEF ClockInv, ClockNormal, ClockWithin
<1>3. start \in Normal /\ to_nanosec(start) = low /\ end \in Normal /\ to_nanosec(end) = high
  BY <1>2, FromNanosec
<1> HIDE DEF start, end
<1>4. /\ compare(start, clock) > 0 <=> low > n
      /\ compare(end, clock) < 0 <=> high < n
  BY <1>2, <1>3, CompareSign
<1>5. time \in Normal /\ to_nanosec(time) = Clamped(n, low, high)
  <2>1. CASE n < low
    BY <1>2, <1>3, <1>4, <2>1 DEF clamp_time, Clamped
  <2>2. CASE ~(n < low) /\ n > high
    BY <1>2, <1>3, <1>4, <2>2 DEF clamp_time, Clamped
  <2>3. CASE ~(n < low) /\ ~(n > high)
    BY <1>2, <1>3, <1>4, <2>3 DEF clamp_time, Clamped
  <2> QED BY <2>1, <2>2, <2>3
<1>6. Moved(time, Clamped(least, low, high), Clamped(most, low, high))
  BY <1>1 DEF start, end
<1> HIDE DEF time, n
<1>7. /\ Clamped(least, low, high) \in Int /\ Clamped(most, low, high) \in Int
      /\ Clamped(least, low, high) <= Clamped(n, low, high)
      /\ Clamped(n, low, high) <= Clamped(most, low, high)
  BY <1>1, <1>2 DEF Clamped
<1> QED BY <1>5, <1>6, <1>7, MovedKeeps

\* Sizes are as large as what lies between them.
LEMMA LargerBounds ==
  ASSUME NEW low \in Int, NEW high \in Int, NEW n \in Int, low <= n, n <= high
  PROVE /\ Magnitude(n) \in Nat /\ Larger(low, high) \in Nat /\ Larger(high, low) \in Nat
        /\ Magnitude(n) <= Larger(low, high) /\ Magnitude(n) <= Larger(high, low)
BY DEF Magnitude, Larger

\* Only a time that may be below zero may come back a second late, and not
\* if it is known to be a whole second.
LEMMA LateBounds ==
  ASSUME NEW low \in Int, NEW high \in Int, NEW n \in Int, low <= n, n <= high
  PROVE /\ Late(low, high) \in Nat
        /\ n < 0 /\ n % Giga # 0 => Late(low, high) = Giga
<1>1. Giga \in Nat
  BY GigaEven
<1> QED BY <1>1 DEF Late

LEMMA ThroughSecondsKeeps == ASSUME ClockInv, ThroughSeconds PROVE ClockInv'
<1> DEFINE n == to_nanosec(clock)
           size == Larger(least, most)
           off == Off(size)
           late == Late(least, most)
<1>1. PICK x \in to_sec(clock) : Moved(from_float(x.n, x.d), least - off, most + off + late)
  BY DEF ThroughSeconds
<1> DEFINE R == round(x.n, x.d)
           time == from_float(x.n, x.d)
<1>2. /\ least \in Int /\ most \in Int /\ Giga \in Nat \ {0}
      /\ clock \in Normal /\ n \in Int /\ least <= n /\ n <= most
  BY NormalTime, GigaEven DEF ClockInv, ClockNormal, ClockWithin
<1> HIDE DEF n
<1>3. Magnitude(n) \in Nat /\ size \in Nat /\ Magnitude(n) <= size
  BY <1>2, LargerBounds
<1> HIDE DEF size
<1>4. off \in Nat /\ Off(Magnitude(n)) \in Nat /\ Off(Magnitude(n)) <= off
  BY <1>3, SlackGrows
<1>5. late \in Nat /\ (n < 0 /\ n % Giga # 0 => late = Giga)
  BY <1>2, LateBounds
<1> HIDE DEF off, late
<1>6. /\ x.n \in Int /\ x.d \in Nat \ {0} /\ R \in Int
      /\ n - off <= R /\ R <= n + off
      /\ x.n < 0 /\ R % Giga # 0 => n < 0 /\ n % Giga # 0
  <2>1. CASE clock.nsec = 0
    <3>1. x = [n |-> n, d |-> 1]
      BY <2>1 DEF to_sec, n
    <3>2. x.n = n /\ x.d = 1
      BY <3>1
    <3>3. R = n
      BY <1>2, <3>2, RoundWhole
    <3> HIDE DEF R
    <3> QED BY <1>2, <1>4, <3>2, <3>3
  <2>2. CASE clock.nsec # 0
    <3>1. x \in Doubles(n, 1, Magnitude(n))
      BY <2>2 DEF to_sec, n
    <3>2. n = (1 * n) + 0 /\ 0 \in 0..1 - 1 /\ 1 \in Nat \ {0}
      BY <1>2
    <3>3. n \div 1 = n /\ n % 1 = 0
      BY <1>2, <3>2, DivUnique
    <3>4. /\ x.n \in Int /\ x.d \in Nat \ {0} /\ R \in Int
          /\ x.n < 0 => n < 0
          /\ n - Off(Magnitude(n)) <= R /\ R <= n + Off(Magnitude(n))
      BY <1>2, <1>3, <3>1, <3>2, <3>3, DoublesRound
    <3>5. n % Giga # 0
      <4>1. clock.sec \in Int /\ clock.nsec \in 0..Giga - 1
        BY <1>2 DEF Normal
      <4>2. n = (Giga * clock.sec) + clock.nsec
        BY <1>2, <4>1 DEF n, to_nanosec
      <4> DEFINE s == clock.sec
                 r == clock.nsec
      <4>3. s \in Int /\ r \in 0..Giga - 1 /\ n = (Giga * s) + r
        BY <4>1, <4>2
      <4> HIDE DEF s, r
      <4>4. n % Giga = r
        BY <1>2, <4>3, DivUnique
      <4> QED BY <2>2, <4>4 DEF r
    <3> HIDE DEF R
    <3> QED BY <1>2, <1>4, <3>4, <3>5
  <2> QED BY <2>1, <2>2
<1>7. /\ time \in Normal
      /\ to_nanosec(time) = R \/ (x.n < 0 /\ R % Giga # 0 /\ to_nanosec(time) = R + Giga)
  BY <1>6, FromFloat
<1>8. Moved(time, least - off, most + off + late)
  BY <1>1
<1> HIDE DEF time, R
<1>9. least - off <= to_nanosec(time) /\ to_nanosec(time) <= most + off + late
  BY <1>2, <1>4, <1>5, <1>6, <1>7
<1>10. least - off \in Int /\ most + off + late \in Int
  BY <1>2, <1>4, <1>5
<1> QED BY <1>7, <1>8, <1>9, <1>10, MovedKeeps

\* The milliseconds of a later time are no fewer.
LEMMA InMillisGrows ==
  ASSUME NEW m \in Int, NEW n \in Int, m <= n, NEW round_up \in BOOLEAN
  PROVE /\ InMillis(m, round_up) \in Int /\ InMillis(n, round_up) \in Int
        /\ InMillis(m, round_up) <= InMillis(n, round_up)
<1> DEFINE p == m \div Mega
           q == n \div Mega
           up == IF round_up /\ m % Mega # 0 THEN p + 1 ELSE p
           uq == IF round_up /\ n % Mega # 0 THEN q + 1 ELSE q
<1>1. Mega \in Nat \ {0}
  BY GigaEven
<1>2. /\ p \in Int /\ m % Mega \in 0..Mega - 1 /\ m = (Mega * p) + (m % Mega)
      /\ q \in Int /\ n % Mega \in 0..Mega - 1 /\ n = (Mega * q) + (n % Mega)
  BY <1>1, DivMod
<1>3. p <= q
  BY <1>1, DivGrows
<1> HIDE DEF p, q
<1>4. up \in Int /\ uq \in Int /\ up <= uq
  <2>1. up \in Int /\ uq \in Int
    BY <1>2
  <2>2. p = q => m % Mega <= n % Mega
    BY <1>1, <1>2
  <2>3. CASE p = q
    BY <1>1, <1>2, <2>2, <2>3
  <2>4. CASE p < q
    BY <1>2, <2>4
  <2> QED BY <1>2, <1>3, <2>1, <2>3, <2>4
<1>5. InMillis(m, round_up) = up * Mega /\ InMillis(n, round_up) = uq * Mega
  BY DEF InMillis, p, q
<1> HIDE DEF up, uq
<1>6. up * Mega \in Int /\ uq * Mega \in Int /\ up * Mega <= uq * Mega
  BY <1>1, <1>4, SMT
<1> QED BY <1>5, <1>6

LEMMA ThroughMillisKeeps == ASSUME ClockInv, ThroughMillis PROVE ClockInv'
<1>1. PICK round_up \in BOOLEAN :
        LET low == InMillis(least, round_up)
            high == InMillis(most, round_up)
        IN Moved(from_millis(to_millis(clock, round_up)), low, high + Late(low, high))
  BY DEF ThroughMillis
<1> DEFINE low == InMillis(least, round_up)
           high == InMillis(most, round_up)
           late == Late(low, high)
           n == to_nanosec(clock)
           m == InMillis(n, round_up)
           time == from_millis(to_millis(clock, round_up))
<1>2. /\ least \in Int /\ most \in Int /\ Giga \in Nat \ {0}
      /\ clock \in Normal /\ n \in Int /\ least <= n /\ n <= most
  BY NormalTime, GigaEven DEF ClockInv, ClockNormal, ClockWithin
<1>3. to_millis(clock, round_up) * Mega = m
  BY <1>2, ToMillis DEF InMillis
<1> HIDE DEF n
<1>4. low \in Int /\ high \in Int /\ m \in Int /\ low <= m /\ m <= high
  BY <1>2, InMillisGrows
<1>5. time = from_float(m, 1)
  BY <1>3 DEF from_millis
<1>6. Moved(time, low, high + late)
  BY <1>1
<1> HIDE DEF low, high, m, time
<1>7. late \in Nat /\ (m < 0 /\ m % Giga # 0 => late = Giga)
  BY <1>4, LateBounds
<1> HIDE DEF late
<1>8. round(m, 1) = m
  BY <1>4, RoundWhole
<1>9. /\ time \in Normal
      /\ to_nanosec(time) = m \/ (m < 0 /\ m % Giga # 0 /\ to_nanosec(time) = m + Giga)
  BY <1>4, <1>5, <1>8, FromFloat
<1>10. low <= to_nanosec(time) /\ to_nanosec(time) <= high + late /\ high + late \in Int
  BY <1>2, <1>4, <1>7, <1>9
<1> QED BY <1>4, <1>6, <1>9, <1>10, MovedKeeps

\* The part of the way that is gone, rounded down.
Gone(n, goal, f) == (f[1] * (goal - n)) \div f[2]

\* The way to the goal: the fraction of what is still to go, added to where
\* one is, and further along the further one is.
LEMMA TowardsGrows ==
  ASSUME NEW m \in Int, NEW n \in Int, NEW goal \in Int, m <= n,
         NEW f, f[1] \in Nat, f[2] \in Nat \ {0}, f[1] <= f[2]
  PROVE /\ Towards(m, goal, f) \in Int /\ Towards(n, goal, f) \in Int
        /\ Towards(m, goal, f) <= Towards(n, goal, f)
        /\ Gone(n, goal, f) \in Int /\ Towards(n, goal, f) = n + Gone(n, goal, f)
<1> DEFINE a == f[1]
           d == f[2]
           k == d - a
<1>1. a \in Nat /\ d \in Nat \ {0} /\ k \in Nat
  OBVIOUS
<1>2. /\ Towards(m, goal, f) = ((k * m) + (a * goal)) \div d
      /\ Towards(n, goal, f) = ((k * n) + (a * goal)) \div d
  BY DEF Towards
<1>3. (k * n) + (a * goal) = (a * (goal - n)) + (n * d)
  <2>1. k * n = (d * n) - (a * n) /\ a * (goal - n) = (a * goal) - (a * n) /\ n * d = d * n
    BY <1>1, SMT
  <2> HIDE DEF a, d, k
  <2>2. /\ d * n \in Int /\ a * n \in Int /\ a * goal \in Int
    BY <1>1
  <2> QED BY <2>1, <2>2
<1> HIDE DEF a, d, k
<1>4. k * m \in Int /\ k * n \in Int /\ a * goal \in Int /\ k * m <= k * n
  BY <1>1, SMT
<1>5. ((k * m) + (a * goal)) \div d <= ((k * n) + (a * goal)) \div d
  BY <1>1, <1>4, DivGrows
<1>6. ((k * m) + (a * goal)) \div d \in Int /\ ((k * n) + (a * goal)) \div d \in Int
  BY <1>1, <1>4, DivMod
<1>7. ((a * (goal - n)) + (n * d)) \div d = ((a * (goal - n)) \div d) + n
  <2>1. a * (goal - n) \in Int
    BY <1>1
  <2> QED BY <1>1, <2>1, DivShift
<1>8. (a * (goal - n)) \div d \in Int
  <2>1. a * (goal - n) \in Int
    BY <1>1
  <2> QED BY <1>1, <2>1, DivMod
<1> QED BY <1>2, <1>3, <1>5, <1>6, <1>7, <1>8 DEF a, d, Gone

LEMMA InterpolateKeeps == ASSUME ClockInv, Interpolate PROVE ClockInv'
<1>0. PICK goal \in Spans, f \in Fractions :
        LET end == from_nanosec(goal)
            off == Off(2 * Larger(goal - least, goal - most))
            late == IF goal >= most THEN 0 ELSE Giga
        IN \E x \in Part(clock, end, f[1], f[2]) :
             Passed(interpolate(clock, x), Negative(Along(clock, x)),
                    Towards(least, goal, f) - off, Towards(most, goal, f) + 1 + off + late)
  BY DEF Interpolate
<1> DEFINE size == 2 * Larger(goal - least, goal - most)
           off == Off(size)
           late == IF goal >= most THEN 0 ELSE Giga
           low == Towards(least, goal, f)
           high == Towards(most, goal, f)
<1>1. PICK x \in Part(clock, from_nanosec(goal), f[1], f[2]) :
        Passed(interpolate(clock, x), Negative(Along(clock, x)),
               low - off, high + 1 + off + late)
  BY <1>0
<1> DEFINE n == to_nanosec(clock)
           end == from_nanosec(goal)
           difference == Stamp(end.sec - clock.sec, end.nsec - clock.nsec)
           duration == goal - n
           q == (f[1] * duration) \div f[2]
           R == round(x.n, x.d)
           part == from_float(x.n, x.d)
           along == Along(clock, x)
<1>2. /\ least \in Int /\ most \in Int /\ goal \in Int /\ Giga \in Nat \ {0}
      /\ clock \in Normal /\ clock \in Time /\ n \in Int /\ least <= n /\ n <= most
  BY SpansAssumption, NormalTime, GigaEven DEF ClockInv, ClockNormal, ClockWithin
<1>3. f[1] <= f[2] /\ f[1] \in Nat /\ f[2] \in Nat \ {0}
  BY FractionsAssumption
<1>4. to_nanosec(subtract(end, clock)) = duration
  <2>1. end \in Time /\ to_nanosec(end) = goal
    BY <1>2, FromNanosec, NormalTime
  <2> HIDE DEF end
  <2>2. difference \in Time /\ to_nanosec(difference) = duration
    BY <1>2, <2>1, Sums
  <2>3. subtract(end, clock) = fix_time(difference)
    BY DEF subtract
  <2> HIDE DEF difference
  <2> QED BY <2>2, <2>3, FixTime
<1>5. x \in Doubles(f[1] * duration, f[2], 2 * Magnitude(duration))
  BY <1>4 DEF Part
<1>6. low \in Int /\ high \in Int /\ low <= n + q /\ n + q <= high /\ n + q \in Int
  <2> HIDE DEF n, low, high, q
  <2>1. Towards(least, goal, f) \in Int /\ Towards(least, goal, f) <= Towards(n, goal, f)
    BY <1>2, <1>3, TowardsGrows
  <2>2. Towards(most, goal, f) \in Int /\ Towards(n, goal, f) <= Towards(most, goal, f)
    BY <1>2, <1>3, TowardsGrows
  <2>3. Towards(n, goal, f) \in Int
    BY <1>2, <1>3, TowardsGrows
  <2>4. Towards(n, goal, f) = n + Gone(n, goal, f)
    BY <1>2, <1>3, TowardsGrows
  <2>5. Gone(n, goal, f) = q
    BY DEF Gone, q
  <2> QED BY <2>1, <2>2, <2>3, <2>4, <2>5 DEF low, high
<1> HIDE DEF n
<1>7. /\ duration \in Int /\ goal - least \in Int /\ goal - most \in Int
      /\ goal - most <= duration /\ duration <= goal - least
  BY <1>2
<1>8. 2 * Magnitude(duration) \in Nat /\ size \in Nat /\ 2 * Magnitude(duration) <= size
  <2>1. /\ Magnitude(duration) \in Nat /\ Larger(goal - least, goal - most) \in Nat
        /\ Magnitude(duration) <= Larger(goal - least, goal - most)
    BY <1>7, LargerBounds
  <2> QED BY <2>1
<1>9. /\ off \in Nat /\ Off(2 * Magnitude(duration)) \in Nat
      /\ Off(2 * Magnitude(duration)) <= off
  BY <1>8, SlackGrows
<1>10. f[1] * duration \in Int /\ (duration >= 0 => f[1] * duration >= 0)
  BY <1>3, <1>7, SMT
<1>11. q \in Int
  BY <1>3, <1>10, DivMod
<1>12. /\ x.n \in Int /\ x.d \in Nat \ {0} /\ R \in Int
       /\ x.n < 0 => f[1] * duration < 0
       /\ q - Off(2 * Magnitude(duration)) <= R
       /\ R <= q + 1 + Off(2 * Magnitude(duration))
  BY <1>3, <1>5, <1>8, <1>10, DoublesRound
<1>13. /\ part \in Normal
       /\ to_nanosec(part) = R \/ (x.n < 0 /\ to_nanosec(part) = R + Giga)
  BY <1>12, FromFloat
<1>14. late \in {0, Giga} /\ (duration < 0 => late = Giga)
  BY <1>2
<1>15. x.n < 0 => late = Giga
  BY <1>7, <1>10, <1>12, <1>14
<1>16. part \in Time /\ to_nanosec(part) \in Int
  BY <1>13, NormalTime
<1>17. along \in Time /\ to_nanosec(along) = n + to_nanosec(part)
  BY <1>2, <1>16, Sums DEF Along, n
<1>18. Passed(fix_time(along), Negative(along), low - off, high + 1 + off + late)
  BY <1>1 DEF interpolate
<1> HIDE DEF low, high, off, late, R, q, part, along
<1>19. /\ low - off <= n + to_nanosec(part)
       /\ n + to_nanosec(part) <= high + 1 + off + late
  <2> DEFINE o == Off(2 * Magnitude(duration))
             P == to_nanosec(part)
  <2>1. /\ o \in Nat /\ o <= off /\ off \in Nat /\ q - o <= R /\ R <= q + 1 + o /\ R \in Int
        /\ P = R \/ (P = R + Giga /\ late = Giga)
    BY <1>9, <1>12, <1>13, <1>15
  <2> HIDE DEF o, P
  <2>2. low - off <= n + P /\ n + P <= high + 1 + off + late
    BY <1>2, <1>6, <1>11, <1>14, <2>1
  <2> QED BY <2>2 DEF P
<1>20. low - off \in Int /\ high + 1 + off + late \in Int
  BY <1>2, <1>6, <1>9, <1>14
<1> QED BY <1>17, <1>18, <1>19, <1>20, PassedKeeps

LEMMA ClockStep == ASSUME ClockInv, [Next]_vars PROVE ClockInv'
<1>1. CASE Next
  BY <1>1, AddKeeps, SubtractKeeps, ClampKeeps, ThroughSecondsKeeps, ThroughMillisKeeps,
     InterpolateKeeps DEF Next
<1>2. CASE UNCHANGED vars
  BY <1>2 DEF vars, ClockInv, ClockNormal, ClockWithin, to_nanosec
<1> QED BY <1>1, <1>2

\* The functions return normal times, in whatever order they are called,
\* above zero and below.
THEOREM ClockStaysNormal == Spec => []ClockNormal
<1>1. ClockInv => ClockNormal
  BY DEF ClockInv
<1> QED BY InitClock, ClockStep, <1>1, PTL DEF Spec

\* What comes out of any calls is what they amount to in nanoseconds, give or
\* take what doubles of that precision lose for a time of that size, and a
\* second too late for a float below zero.
THEOREM ClockStaysWithin == Spec => []ClockWithin
<1>1. ClockInv => ClockWithin
  BY DEF ClockInv
<1> QED BY InitClock, ClockStep, <1>1, PTL DEF Spec

=============================================================================
