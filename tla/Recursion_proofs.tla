-------------------------- MODULE Recursion_proofs --------------------------
(***************************************************************************)
(* Induction over the numbers, and the functions that are defined by it:   *)
(* each definition of the form f[n] == ... f[n - 1] ... has a solution;    *)
(* and sequences that are put together.                                    *)
(***************************************************************************)
EXTENDS Integers, Sequences, TLAPS, WellFoundedInduction

\* Induction over the numbers, for sets.
LEMMA Induct ==
  ASSUME NEW S, 0 \in S, \A n \in Nat : n \in S => n + 1 \in S
  PROVE  Nat \subseteq S
<1> SUFFICES ASSUME Nat \ S # {} PROVE FALSE
  OBVIOUS
<1> DEFINE R == {ss \in Nat \X Nat : ss[1] < ss[2]}
<1>1. IsWellFoundedOn(R, Nat)
  BY NatLessThanWellFounded DEF OpToRel
<1>2. \A x, y \in Nat : x < y => <<x, y>> \in R
  OBVIOUS
<1> HIDE DEF R
<1>3. Nat \ S \subseteq Nat
  OBVIOUS
<1>4. PICK x \in Nat \ S : \A y \in Nat \ S : ~(<<y, x>> \in R)
  BY <1>1, <1>3, WFMin
<1>5. x \in Nat /\ x # 0
  BY <1>4
<1>6. x - 1 \in Nat /\ x - 1 < x /\ (x - 1) + 1 = x
  BY <1>5
<1>7. x - 1 \in Nat \ S
  BY <1>4, <1>6
<1> QED
  BY <1>2, <1>4, <1>5, <1>6, <1>7

\* What F makes of a, from one number to the next.
Iterates(g, n, S, a, F) ==
  g \in [0..n -> S] /\ g[0] = a /\ \A i \in 0..(n - 1) : g[i + 1] = F[<<i, g[i]>>]

LEMMA IteratesExist ==
  ASSUME NEW S, NEW a \in S, NEW F \in [Nat \X S -> S]
  PROVE  \A n \in Nat : \E g : Iterates(g, n, S, a, F)
<1> DEFINE T == {n \in Nat : \E g : Iterates(g, n, S, a, F)}
<1>1. 0 \in T
  <2>1. Iterates([i \in 0..0 |-> a], 0, S, a, F)
    BY DEF Iterates
  <2> QED
    BY <2>1
<1>2. ASSUME NEW n \in Nat, n \in T PROVE n + 1 \in T
  <2>1. PICK g : Iterates(g, n, S, a, F)
    BY <1>2
  <2> DEFINE h == [i \in 0..(n + 1) |-> IF i = n + 1 THEN F[<<n, g[n]>>] ELSE g[i]]
  <2>2. g \in [0..n -> S] /\ g[0] = a
    BY <2>1 DEF Iterates
  <2>3. g[n] \in S
    BY <2>2
  <2>4. F[<<n, g[n]>>] \in S
    BY <2>3
  <2>5. ASSUME NEW i \in 0..(n + 1) PROVE h[i] \in S
    BY <2>2, <2>4
  <2>6. h \in [0..(n + 1) -> S] /\ h[0] = a
    BY <2>2, <2>5
  <2>7. ASSUME NEW i \in 0..n PROVE h[i + 1] = F[<<i, h[i]>>]
    <3>1. h[i] = g[i]
      OBVIOUS
    <3>2. CASE i = n
      <4>1. h[n + 1] = F[<<n, g[n]>>]
        OBVIOUS
      <4> HIDE DEF h
      <4> QED
        BY <3>1, <3>2, <4>1
    <3>3. CASE i < n
      <4>1. h[i + 1] = g[i + 1] /\ i \in 0..(n - 1)
        BY <3>3
      <4>2. g[i + 1] = F[<<i, g[i]>>]
        BY <2>1, <4>1 DEF Iterates
      <4> HIDE DEF h
      <4> QED
        BY <3>1, <4>1, <4>2
    <3> QED
      BY <3>2, <3>3
  <2> HIDE DEF h
  <2>8. Iterates(h, n + 1, S, a, F)
    <3>1. \A i \in 0..((n + 1) - 1) : h[i + 1] = F[<<i, h[i]>>]
      BY <2>7
    <3> QED
      BY <2>6, <3>1 DEF Iterates
  <2> QED
    BY <2>8
<1> HIDE DEF T
<1>3. Nat \subseteq T
  BY <1>1, <1>2, Induct
<1> QED
  BY <1>3 DEF T

\* And for all numbers at once.
Recursive(g, S, a, F) ==
  g \in [Nat -> S] /\ g[0] = a /\ \A i \in Nat : g[i + 1] = F[<<i, g[i]>>]

LEMMA Recursion ==
  ASSUME NEW S, NEW a \in S, NEW F \in [Nat \X S -> S]
  PROVE  \E g : Recursive(g, S, a, F)
<1> DEFINE H(n) == CHOOSE g : Iterates(g, n, S, a, F)
           g == [n \in Nat |-> H(n)[n]]
<1>1. \A n \in Nat : Iterates(H(n), n, S, a, F)
  BY IteratesExist
<1> HIDE DEF H
<1>2. ASSUME NEW n \in Nat, NEW m \in Nat PROVE \A i \in Nat : i <= n /\ i <= m => H(n)[i] = H(m)[i]
  <2> DEFINE T == {i \in Nat : i <= n /\ i <= m => H(n)[i] = H(m)[i]}
  <2>1. 0 \in T
    BY <1>1 DEF Iterates
  <2>2. ASSUME NEW i \in Nat, i \in T PROVE i + 1 \in T
    <3> SUFFICES ASSUME i + 1 <= n, i + 1 <= m PROVE H(n)[i + 1] = H(m)[i + 1]
      OBVIOUS
    <3>1. H(n)[i] = H(m)[i] /\ i \in 0..(n - 1) /\ i \in 0..(m - 1)
      BY <2>2
    <3> QED
      BY <1>1, <3>1 DEF Iterates
  <2> HIDE DEF T
  <2>3. Nat \subseteq T
    BY <2>1, <2>2, Induct
  <2> QED
    BY <2>3 DEF T
<1>3. ASSUME NEW n \in Nat PROVE g[n] \in S
  <2>1. n \in 0..n
    OBVIOUS
  <2> QED
    BY <1>1, <2>1 DEF Iterates
<1>4. g[0] = a
  BY <1>1 DEF Iterates
<1>5. ASSUME NEW i \in Nat PROVE g[i + 1] = F[<<i, g[i]>>]
  <2>1. i + 1 \in Nat /\ i \in 0..((i + 1) - 1)
    OBVIOUS
  <2>2. H(i + 1)[i + 1] = F[<<i, H(i + 1)[i]>>]
    BY <1>1, <2>1 DEF Iterates
  <2>3. H(i + 1)[i] = H(i)[i]
    BY <1>2, <2>1
  <2> QED
    BY <2>1, <2>2, <2>3
<1>6. g \in [Nat -> S]
  BY <1>3
<1> HIDE DEF g
<1> QED
  BY <1>4, <1>5, <1>6 DEF Recursive

-----------------------------------------------------------------------------
(* Loops: what a sequence of steps makes of a, one after the other *)

\* The states of a loop, from before its first step to after its last.
Path(p, S, a, steps) ==
  /\ p \in [0..Len(steps) -> S] /\ p[0] = a
  /\ \A k \in 1..Len(steps) : p[k] = steps[k][p[k - 1]]

LEMMA PathExists ==
  ASSUME NEW S, NEW a \in S, NEW steps \in Seq([S -> S])
  PROVE  \E p : Path(p, S, a, steps)
<1> DEFINE n == Len(steps)
           F == [c \in Nat \X S |-> IF c[1] + 1 \in 1..n THEN steps[c[1] + 1][c[2]] ELSE c[2]]
<1>1. n \in Nat /\ \A k \in 1..n : steps[k] \in [S -> S]
  OBVIOUS
<1> HIDE DEF n
<1>2. ASSUME NEW c \in Nat \X S
      PROVE  (IF c[1] + 1 \in 1..n THEN steps[c[1] + 1][c[2]] ELSE c[2]) \in S
  <2>1. c[1] \in Nat /\ c[2] \in S
    OBVIOUS
  <2> QED
    BY <1>1, <2>1
<1>3. F \in [Nat \X S -> S]
  BY <1>2
<1>4. \A i \in Nat, x \in S : i + 1 \in 1..n => F[<<i, x>>] = steps[i + 1][x]
  OBVIOUS
<1> HIDE DEF F
<1>5. PICK p : Iterates(p, n, S, a, F)
  BY <1>1, <1>3, IteratesExist
<1>6. ASSUME NEW k \in 1..n PROVE p[k] = steps[k][p[k - 1]]
  <2>1. k - 1 \in 0..(n - 1) /\ (k - 1) + 1 = k /\ k - 1 \in Nat /\ k - 1 \in 0..n
    BY <1>1
  <2>2. p[(k - 1) + 1] = F[<<k - 1, p[k - 1]>>] /\ p[k - 1] \in S
    BY <1>5, <2>1 DEF Iterates
  <2>3. F[<<k - 1, p[k - 1]>>] = steps[(k - 1) + 1][p[k - 1]]
    BY <1>4, <2>1, <2>2
  <2> QED
    BY <2>1, <2>2, <2>3
<1> QED
  BY <1>5, <1>6 DEF Iterates, Path, n

\* As many steps as there are; none when their number is below zero.
LEMMA StepsTyped ==
  ASSUME NEW S, NEW n \in Int, NEW steps \in [1..n -> S]
  PROVE  steps \in Seq(S) /\ Len(steps) = (IF n < 0 THEN 0 ELSE n)
<1>1. CASE n < 0
  <2>1. 1..n = 1..0
    BY <1>1
  <2> QED
    BY <1>1, <2>1
<1>2. CASE n >= 0
  BY <1>2
<1> QED
  BY <1>1, <1>2

-----------------------------------------------------------------------------
(* Sequences *)

LEMMA IsSeq ==
  ASSUME NEW X, NEW n \in Nat, NEW f \in [1..n -> X]
  PROVE  f \in Seq(X) /\ Len(f) = n /\ DOMAIN f = 1..n
OBVIOUS

LEMMA SingleSeq ==
  ASSUME NEW X, NEW x \in X
  PROVE  <<x>> \in Seq(X) /\ Len(<<x>>) = 1 /\ <<x>>[1] = x
OBVIOUS

LEMMA EmptyIsSeq == \A X : <<>> \in Seq(X)
OBVIOUS

LEMMA AppendSeq ==
  ASSUME NEW X, NEW s \in Seq(X), NEW x \in X
  PROVE  /\ Append(s, x) \in Seq(X) /\ Len(Append(s, x)) = Len(s) + 1 /\ Len(s) \in Nat
         /\ Append(s, x)[Len(s) + 1] = x
OBVIOUS

LEMMA ConcatSeq ==
  ASSUME NEW X, NEW s \in Seq(X), NEW t \in Seq(X)
  PROVE  /\ s \o t \in Seq(X) /\ Len(s \o t) = Len(s) + Len(t)
         /\ \A i \in 1..Len(s) : (s \o t)[i] = s[i]
         /\ \A i \in 1..Len(t) : (s \o t)[Len(s) + i] = t[i]
OBVIOUS

\* What a concatenation has are the items of both.
HasBoth(all, a, b) ==
  /\ \A i \in DOMAIN all : (\E k \in DOMAIN a : all[i] = a[k]) \/ (\E k \in DOMAIN b : all[i] = b[k])
  /\ \A k \in DOMAIN a : \E i \in DOMAIN all : all[i] = a[k]
  /\ \A k \in DOMAIN b : \E i \in DOMAIN all : all[i] = b[k]

\* One sequence behind another has what both have.
LEMMA ConcatHas ==
  ASSUME NEW X, NEW a \in Seq(X), NEW b \in Seq(X)
  PROVE  HasBoth(a \o b, a, b)
<1> DEFINE all == a \o b
<1>1. /\ all \in Seq(X) /\ Len(all) = Len(a) + Len(b)
      /\ \A i \in 1..Len(a) : all[i] = a[i]
      /\ \A i \in 1..Len(b) : all[Len(a) + i] = b[i]
  BY ConcatSeq
<1>2. /\ DOMAIN a = 1..Len(a) /\ Len(a) \in Nat /\ DOMAIN b = 1..Len(b) /\ Len(b) \in Nat
  OBVIOUS
<1> HIDE DEF all
<1>3. DOMAIN all = 1..(Len(a) + Len(b))
  BY <1>1
<1>4. ASSUME NEW i \in DOMAIN all
      PROVE  (\E k \in DOMAIN a : all[i] = a[k]) \/ (\E k \in DOMAIN b : all[i] = b[k])
  <2>1. CASE i <= Len(a)
    BY <1>1, <1>2, <1>3, <2>1
  <2>2. CASE ~(i <= Len(a))
    <3>1. i - Len(a) \in 1..Len(b) /\ Len(a) + (i - Len(a)) = i
      BY <1>2, <1>3, <2>2
    <3> QED
      BY <1>1, <1>2, <3>1
  <2> QED
    BY <2>1, <2>2
<1>5. ASSUME NEW k \in DOMAIN a PROVE k \in DOMAIN all /\ all[k] = a[k]
  BY <1>1, <1>2, <1>3
<1>6. ASSUME NEW k \in DOMAIN b PROVE Len(a) + k \in DOMAIN all /\ all[Len(a) + k] = b[k]
  BY <1>1, <1>2, <1>3
<1> QED
  BY <1>4, <1>5, <1>6 DEF HasBoth, all

\* What is in a sequence that two make up is in either.
LEMMA ConcatParts ==
  ASSUME NEW X, NEW Y, NEW s \in Seq(Y), NEW t \in Seq(Y), s \o t \in Seq(X)
  PROVE  s \in Seq(X) /\ t \in Seq(X)
<1>1. /\ Len(s) \in Nat /\ Len(t) \in Nat /\ Len(s \o t) = Len(s) + Len(t)
      /\ DOMAIN s = 1..Len(s) /\ DOMAIN t = 1..Len(t)
  OBVIOUS
<1>2. \A i \in 1..Len(s) + Len(t) : (s \o t)[i] \in X
  BY <1>1
<1>3. \A i \in 1..Len(s) : (s \o t)[i] = s[i]
  BY <1>1
<1>4. \A i \in 1..Len(t) : (s \o t)[Len(s) + i] = t[i] /\ Len(s) + i \in 1..Len(s) + Len(t)
  BY <1>1
<1>5. \A i \in 1..Len(s) : s[i] \in X
  <2>1. \A i \in 1..Len(s) : i \in 1..Len(s) + Len(t)
    BY <1>1
  <2> QED
    BY <1>2, <1>3, <2>1
<1>6. \A i \in 1..Len(t) : t[i] \in X
  BY <1>2, <1>4
<1> QED
  BY <1>5, <1>6

LEMMA SeqMono ==
  ASSUME NEW X, NEW Y, X \subseteq Y, NEW s \in Seq(X)
  PROVE  s \in Seq(Y)
OBVIOUS

\* What m makes of the items of a list.
Mapped(m, s) == [i \in DOMAIN s |-> m[s[i]]]

\* What a function makes of the items of a list.
LEMMA MappedType ==
  ASSUME NEW X, NEW Y, NEW m, NEW s \in Seq(X), \A x \in X : m[x] \in Y
  PROVE  Mapped(m, s) \in Seq(Y) /\ Len(Mapped(m, s)) = Len(s) /\ DOMAIN Mapped(m, s) = DOMAIN s
<1>1. DOMAIN s = 1..Len(s) /\ Len(s) \in Nat /\ \A i \in 1..Len(s) : s[i] \in X
  OBVIOUS
<1>2. \A i \in 1..Len(s) : m[s[i]] \in Y
  BY <1>1
<1>3. Mapped(m, s) \in [1..Len(s) -> Y]
  BY <1>1, <1>2 DEF Mapped
<1> QED
  BY <1>1, <1>3, IsSeq

\* Items are mapped one by one.
LEMMA MappedConcat ==
  ASSUME NEW X, NEW m, NEW a \in Seq(X), NEW b \in Seq(X)
  PROVE  Mapped(m, a \o b) = Mapped(m, a) \o Mapped(m, b)
<1> DEFINE Y == {m[x] : x \in X}
<1>1. /\ a \o b \in Seq(X) /\ Len(a \o b) = Len(a) + Len(b)
      /\ \A i \in 1..Len(a) : (a \o b)[i] = a[i]
      /\ \A i \in 1..Len(b) : (a \o b)[Len(a) + i] = b[i]
  BY ConcatSeq
<1>2. /\ Mapped(m, a) \in Seq(Y) /\ Len(Mapped(m, a)) = Len(a)
      /\ Mapped(m, b) \in Seq(Y) /\ Len(Mapped(m, b)) = Len(b)
      /\ Mapped(m, a \o b) \in Seq(Y) /\ Len(Mapped(m, a \o b)) = Len(a \o b)
  <2>1. \A s \in Seq(X) : Mapped(m, s) \in Seq(Y) /\ Len(Mapped(m, s)) = Len(s)
    <3>1. \A x \in X : m[x] \in Y
      OBVIOUS
    <3> HIDE DEF Y
    <3> QED
      BY <3>1, MappedType
  <2> QED
    BY <1>1, <2>1
<1> DEFINE ma == Mapped(m, a)
           mb == Mapped(m, b)
           p == ma \o mb
           q == Mapped(m, a \o b)
<1>3. /\ p \in Seq(Y) /\ Len(p) = Len(a) + Len(b)
      /\ \A i \in 1..Len(a) : p[i] = ma[i]
      /\ \A i \in 1..Len(b) : p[Len(a) + i] = mb[i]
  <2>1. ma \in Seq(Y) /\ mb \in Seq(Y) /\ Len(ma) = Len(a) /\ Len(mb) = Len(b)
    BY <1>2
  <2> HIDE DEF ma, mb
  <2> QED
    BY <2>1
<1>4. Len(a) \in Nat /\ Len(b) \in Nat /\ DOMAIN a = 1..Len(a) /\ DOMAIN b = 1..Len(b)
      /\ DOMAIN (a \o b) = 1..(Len(a) + Len(b))
  BY <1>1
<1>5. ASSUME NEW i \in 1..(Len(a) + Len(b)) PROVE p[i] = q[i]
  <2>1. q[i] = m[(a \o b)[i]]
    BY <1>4 DEF Mapped
  <2>2. CASE i \in 1..Len(a)
    BY <1>1, <1>3, <1>4, <2>1, <2>2 DEF Mapped
  <2>3. CASE i \notin 1..Len(a)
    <3>1. i - Len(a) \in 1..Len(b) /\ Len(a) + (i - Len(a)) = i
      BY <1>4, <2>3
    <3>2. p[i] = Mapped(m, b)[i - Len(a)] /\ (a \o b)[i] = b[i - Len(a)]
      BY <1>1, <1>3, <3>1
    <3> QED
      BY <1>4, <2>1, <3>1, <3>2 DEF Mapped
  <2> QED
    BY <2>2, <2>3
<1> HIDE DEF p, q
<1>6. p \in Seq(Y) /\ q \in Seq(Y) /\ Len(p) = Len(a) + Len(b) /\ Len(q) = Len(a) + Len(b)
  BY <1>1, <1>2, <1>3 DEF q
<1>7. p = q
  BY <1>5, <1>6
<1> QED
  BY <1>7 DEF p, q

=============================================================================
