------------------------- MODULE MessageCodec_proofs -------------------------
(***************************************************************************)
(* For any definitions, messages and depth of nesting: what the two walks  *)
(* of MessageWriter make of a message, that they agree on its size, and    *)
(* that the compiled decoder reads back what was written.                  *)
(***************************************************************************)
EXTENDS MessageCodec, NativeDecoder_proofs, Recursion_proofs

-----------------------------------------------------------------------------
(* Loops *)

LEMMA ThroughPath ==
  ASSUME NEW S, NEW w \in S, NEW steps \in Seq([S -> S])
  PROVE  \E p : Path(p, S, w, steps) /\ Through(w, steps) = p[Len(steps)]
<1> DEFINE n == Len(steps)
           Step(h, k) == IF k = 0 THEN w ELSE steps[k][h[k - 1]]
           after == CHOOSE h : h = [k \in 0..n |-> Step(h, k)]
<1>1. PICK p : Path(p, S, w, steps)
  BY PathExists
<1>2. p = [k \in 0..n |-> Step(p, k)]
  <2>1. \A k \in 0..n : p[k] = Step(p, k)
    BY <1>1 DEF Path
  <2>2. p \in [0..n -> S]
    BY <1>1 DEF Path
  <2> QED
    BY <2>1, <2>2
<1>3. after = [k \in 0..n |-> Step(after, k)]
  BY <1>2
<1>4. Through(w, steps) = after[n]
  BY DEF Through
<1> HIDE DEF after
<1> DEFINE T == {k \in Nat : k <= n => after[k] = p[k]}
<1>5. n \in Nat
  OBVIOUS
<1>6. 0 \in T
  BY <1>1, <1>3, <1>5 DEF Path
<1>7. ASSUME NEW k \in Nat, k \in T PROVE k + 1 \in T
  <2> SUFFICES ASSUME k + 1 <= n PROVE after[k + 1] = p[k + 1]
    OBVIOUS
  <2>1. k + 1 \in 0..n /\ k + 1 # 0 /\ (k + 1) - 1 = k /\ k <= n
    BY <1>5
  <2>2. after[k + 1] = Step(after, k + 1)
    BY <1>3, <2>1
  <2>3. p[k + 1] = Step(p, k + 1)
    BY <1>2, <2>1
  <2>4. after[k] = p[k]
    BY <1>7, <2>1
  <2> QED
    BY <2>1, <2>2, <2>3, <2>4
<1> HIDE DEF T
<1>8. n \in T
  BY <1>5, <1>6, <1>7, Induct
<1>9. after[n] = p[n]
  BY <1>5, <1>8 DEF T
<1> QED
  BY <1>1, <1>4, <1>9

\* A relation that holds over each step of a chain, and over no step and two,
\* holds over any stretch of the chain.
LEMMA ChainRelates ==
  ASSUME NEW S, NEW n \in Nat, NEW p \in [0..n -> S],
         NEW R, \A x \in S : <<x, x>> \in R,
         \A x, y, z \in S : <<x, y>> \in R /\ <<y, z>> \in R => <<x, z>> \in R,
         \A k \in 1..n : <<p[k - 1], p[k]>> \in R
  PROVE  \A i, j \in 0..n : i <= j => <<p[i], p[j]>> \in R
<1> DEFINE T == {k \in Nat : \A i \in 0..n : i <= k /\ k <= n => <<p[i], p[k]>> \in R}
<1>1. \A k \in 0..n : p[k] \in S
  OBVIOUS
<1>2. 0 \in T
  BY <1>1
<1>3. ASSUME NEW k \in Nat, k \in T PROVE k + 1 \in T
  <2> SUFFICES ASSUME NEW i \in 0..n, i <= k + 1, k + 1 <= n PROVE <<p[i], p[k + 1]>> \in R
    OBVIOUS
  <2>1. CASE i = k + 1
    BY <1>1, <2>1
  <2>2. CASE i <= k
    <3>1. <<p[i], p[k]>> \in R /\ k \in 0..n /\ k + 1 \in 1..n /\ (k + 1) - 1 = k
      BY <1>3, <2>2
    <3>2. <<p[k], p[k + 1]>> \in R
      BY <3>1
    <3> QED
      BY <1>1, <3>1, <3>2
  <2> QED
    BY <2>1, <2>2
<1> HIDE DEF T
<1>4. Nat \subseteq T
  BY <1>2, <1>3, Induct
<1> QED
  BY <1>4 DEF T

LEMMA PathRelates ==
  ASSUME NEW S, NEW a \in S, NEW steps, Len(steps) \in Nat, NEW p, Path(p, S, a, steps),
         NEW R, \A x \in S : <<x, x>> \in R,
         \A x, y, z \in S : <<x, y>> \in R /\ <<y, z>> \in R => <<x, z>> \in R,
         \A k \in 1..Len(steps) : <<p[k - 1], p[k]>> \in R
  PROVE  \A i, j \in 0..Len(steps) : i <= j => <<p[i], p[j]>> \in R
<1>1. p \in [0..Len(steps) -> S]
  BY DEF Path
<1> QED
  BY <1>1, ChainRelates

-----------------------------------------------------------------------------
(* Values *)

LEMMA ValueShapes ==
  ASSUME NEW v \in Values
  PROVE  /\ LengthOf(v) \in Nat
         /\ v.is = "list" => LengthOf(v) = Len(v.items)
         /\ \A i : Member(v, i) \in Values
         /\ \A k : \A absent \in Values : Entry(v, k, absent) \in Values
<1>1. LengthOf(v) \in Nat
  BY ValuesAssumption DEF LengthOf
<1>2. v.is = "list" => LengthOf(v) = Len(v.items)
  BY DEF LengthOf
<1>3. \A i : Member(v, i) \in Values
  BY ValuesAssumption DEF Member
<1>4. \A k : \A absent \in Values : Entry(v, k, absent) \in Values
  BY ValuesAssumption DEF Entry
<1> QED
  BY <1>1, <1>2, <1>3, <1>4

LEMMA ZeroTyped == \A kind : ZeroOf(kind) \in Values
BY ValuesAssumption DEF ZeroOf

LEMMA ItemsTyped ==
  ASSUME NEW f \in Field, NEW v \in Values, NEW default \in Values
  PROVE  ItemsOf(f, v, default) \in Seq(Values)
<1>1. f.count \in Int
  BY DEF Field
<1> DEFINE n == IF f.count < 0 THEN 0 ELSE f.count
           zeros == [k \in 1..n |-> ZeroOf(f.kind)]
<1>2. n \in Nat
  BY <1>1
<1> HIDE DEF n
<1>3. zeros \in Seq(Values)
  BY <1>2, ZeroTyped
<1> QED
  BY <1>3, ValuesAssumption DEF ItemsOf, n

\* What is known of a thing that is written.
LEMMA SubjectTyped ==
  ASSUME NEW su \in Subjects, NEW t \in DOMAIN su.schema.plans
  PROVE  /\ su.schema.plans[t] \in Plan
         /\ DefinitionOf(su, t) \in Seq(Field)
         /\ \A i \in DOMAIN DefinitionOf(su, t) :
              /\ DefinitionOf(su, t)[i] \in Field
              /\ DefinitionOf(su, t)[i].kind = "complex" =>
                   DefinitionOf(su, t)[i].target \in DOMAIN su.schema.plans
         /\ \A i : DefaultOf(su, t, i) \in Values
<1>1. su.schema \in Schema /\ WellFormed(su.schema)
  BY SubjectsAssumption
<1>2. su.schema.plans[t] \in Plan
  BY <1>1 DEF Schema
<1>3. DefinitionOf(su, t) \in Seq(Field)
  BY <1>2 DEF Plan, DefinitionOf
<1>4. \A i \in DOMAIN DefinitionOf(su, t) :
        DefinitionOf(su, t)[i] \in Targets(su.schema.plans[t])
  BY DEF DefinitionOf, Targets
<1>5. \A i : DefaultOf(su, t, i) \in Values
  BY SubjectsAssumption, ValuesAssumption DEF DefaultOf
<1> QED
  BY <1>1, <1>2, <1>3, <1>4, <1>5 DEF WellFormed

-----------------------------------------------------------------------------
(* The walk that writes only ever adds *)

\* Lengths lie where they are aligned, each in bytes that were written, and one
\* at one place; everything lies before the writer.
Laid(w) ==
  /\ w.put \subseteq 0..(w.at - 1)
  /\ \A c \in w.cells : c[1] % 4 = 0 /\ c[1]..(c[1] + 3) \subseteq w.put
  /\ \A c, e \in w.cells : c[1] = e[1] => c[2] = e[2]

\* b is a, written further.
Grown(a, b) ==
  /\ a.at <= b.at /\ a.put \subseteq b.put /\ a.cells \subseteq b.cells
  /\ b.error = "none" => a.error = "none"
  /\ a.lost \subseteq b.lost
  /\ Laid(a) => Laid(b)

\* Steps of the walk.
Further == {g \in [Writer -> Writer] : \A w \in Writer : Grown(w, g[w])}

WriterCalls(su) == Writer \X (DOMAIN su.schema.plans) \X Values
Deeper(su) == {g \in [WriterCalls(su) -> Writer] : \A c \in WriterCalls(su) : Grown(c[1], g[c])}

LEMMA GrownAgain ==
  /\ \A a \in Writer : Grown(a, a)
  /\ \A a, b, c \in Writer : Grown(a, b) /\ Grown(b, c) => Grown(a, c)
<1>1. \A a \in Writer : Grown(a, a)
  BY DEF Grown, Writer
<1>2. ASSUME NEW a \in Writer, NEW b \in Writer, NEW c \in Writer, Grown(a, b), Grown(b, c)
      PROVE  Grown(a, c)
  BY <1>2 DEF Grown, Writer
<1> QED
  BY <1>1, <1>2

LEMMA WriterPath ==
  ASSUME NEW w \in Writer, NEW steps \in Seq(Further)
  PROVE  \E p : /\ Path(p, Writer, w, steps) /\ Through(w, steps) = p[Len(steps)]
               /\ \A i, j \in 0..Len(steps) : i <= j => Grown(p[i], p[j])
<1> DEFINE R == {c \in Writer \X Writer : Grown(c[1], c[2])}
<1>1. Further \subseteq [Writer -> Writer] /\ Len(steps) \in Nat
  BY DEF Further
<1>2. steps \in Seq([Writer -> Writer])
  BY <1>1
<1>3. PICK p : Path(p, Writer, w, steps) /\ Through(w, steps) = p[Len(steps)]
  BY <1>2, ThroughPath
<1>4. ASSUME NEW k \in 1..Len(steps) PROVE <<p[k - 1], p[k]>> \in R
  <2>1. k - 1 \in 0..Len(steps) /\ k \in 0..Len(steps)
    OBVIOUS
  <2>2. p[k - 1] \in Writer /\ p[k] \in Writer /\ p[k] = steps[k][p[k - 1]] /\ steps[k] \in Further
    BY <1>3, <2>1 DEF Path
  <2> QED
    BY <2>2 DEF Further
<1>5. \A x \in Writer : <<x, x>> \in R
  BY GrownAgain
<1>6. \A x, y, z \in Writer : <<x, y>> \in R /\ <<y, z>> \in R => <<x, z>> \in R
  BY GrownAgain
<1> HIDE DEF R
<1>7. \A i, j \in 0..Len(steps) : i <= j => <<p[i], p[j]>> \in R
  BY <1>1, <1>3, <1>4, <1>5, <1>6, PathRelates
<1> QED
  BY <1>3, <1>7 DEF R

LEMMA ThroughGrows ==
  ASSUME NEW w \in Writer, NEW steps \in Seq(Further)
  PROVE  Through(w, steps) \in Writer /\ Grown(w, Through(w, steps))
<1>1. PICK p : /\ Path(p, Writer, w, steps) /\ Through(w, steps) = p[Len(steps)]
               /\ \A i, j \in 0..Len(steps) : i <= j => Grown(p[i], p[j])
  BY WriterPath
<1>2. Len(steps) \in Nat
  OBVIOUS
<1> QED
  BY <1>1, <1>2 DEF Path

LEMMA FollowedGrows ==
  ASSUME NEW w \in Writer, NEW byDecoder, NEW bySizer
  PROVE  Followed(w, byDecoder, bySizer) \in Writer /\ Grown(w, Followed(w, byDecoder, bySizer))
BY DEF Followed, Writer, Grown, Laid

LEMMA FailGrows ==
  ASSUME NEW w \in Writer, NEW e \in WalkErrors \ {"none"}
  PROVE  Fail(w, e) \in Writer /\ Grown(w, Fail(w, e)) /\ Fail(w, e).error # "none"
BY DEF Fail, Writer, Grown, Laid

LEMMA PutGrows ==
  ASSUME NEW w \in Writer, NEW n \in Nat, NEW a \in Alignments
  PROVE  Put(w, n, a) \in Writer /\ Grown(w, Put(w, n, a))
<1>1. Padded(w.at, a) \in Nat /\ Padded(w.at, a) >= w.at
  BY PaddedAligned DEF Writer
<1> DEFINE from == Padded(w.at, a)
<1>2. CASE w.error # "none"
  BY <1>2, GrownAgain DEF Put
<1>3. CASE w.error = "none"
  <2>1. Put(w, n, a) = [w EXCEPT !.at = from + n, !.put = w.put \cup from..(from + n - 1)]
    BY <1>3 DEF Put
  <2> HIDE DEF from
  <2>2. from \in Nat /\ from >= w.at
    BY <1>1 DEF from
  <2>3. from..(from + n - 1) \subseteq Nat
    BY <2>2
  <2>4. Put(w, n, a) \in Writer
    <3>1. w.put \cup from..(from + n - 1) \in SUBSET Nat
      BY <2>3 DEF Writer
    <3>2. from + n \in Nat
      BY <2>2
    <3> DEFINE put == w.put \cup from..(from + n - 1)
               at == from + n
    <3> HIDE DEF put, at
    <3>3. [w EXCEPT !.at = at, !.put = put] \in Writer
      BY <3>1, <3>2 DEF Writer, put, at
    <3> QED
      BY <2>1, <3>3 DEF put, at
  <2>5. Laid(w) => Laid(Put(w, n, a))
    BY <2>1, <2>2 DEF Laid, Writer
  <2> QED
    BY <2>1, <2>2, <2>4, <2>5 DEF Grown, Writer
<1> QED
  BY <1>2, <1>3

\* The four bytes of a length, and what is found at their place.
LEMMA PutLengthGrows ==
  ASSUME NEW w \in Writer, NEW v \in Nat
  PROVE  /\ PutLength(w, v) \in Writer /\ Grown(w, PutLength(w, v))
         /\ w.error = "none" =>
              /\ PutLength(w, v).at = Padded(w.at, 4) + 4
              /\ PutLength(w, v).put = w.put \cup Padded(w.at, 4)..(Padded(w.at, 4) + 3)
              /\ <<Padded(w.at, 4), v>> \in PutLength(w, v).cells
              /\ PutLength(w, v).error = "none"
<1> DEFINE from == Padded(w.at, 4)
<1>1. from \in Nat /\ from >= w.at /\ from % 4 = 0
  BY PaddedAligned DEF Writer, Alignments
<1>2. CASE w.error # "none"
  BY <1>2, GrownAgain DEF PutLength
<1>3. CASE w.error = "none"
  <2>1. PutLength(w, v) =
          [w EXCEPT !.at = from + 4, !.put = w.put \cup from..(from + 3),
                    !.cells = w.cells \cup {<<from, v>>}]
    <3>1. Put(w, 4, 4) = [w EXCEPT !.at = from + 4, !.put = w.put \cup from..(from + 4 - 1)]
      BY <1>3 DEF Put
    <3>2. PutLength(w, v) = [Put(w, 4, 4) EXCEPT !.cells = Put(w, 4, 4).cells \cup {<<from, v>>}]
      BY <1>3 DEF PutLength
    <3>3. from + 4 - 1 = from + 3
      BY <1>1
    <3> HIDE DEF from
    <3> QED
      BY <3>1, <3>2, <3>3 DEF Writer
  <2> HIDE DEF from
  <2>2. from..(from + 3) \subseteq Nat
    BY <1>1
  <2>3. PutLength(w, v) \in Writer
    <3> DEFINE put == w.put \cup from..(from + 3)
               kept == w.cells \cup {<<from, v>>}
               at == from + 4
    <3>1. put \in SUBSET Nat /\ kept \in SUBSET (Nat \X Nat) /\ at \in Nat
      BY <1>1, <2>2 DEF Writer
    <3>2. PutLength(w, v) = [w EXCEPT !.at = at, !.put = put, !.cells = kept]
      BY <2>1
    <3> HIDE DEF put, kept, at
    <3> QED
      BY <3>1, <3>2 DEF Writer
  <2>4. ASSUME Laid(w) PROVE Laid(PutLength(w, v))
    <3> DEFINE r == PutLength(w, v)
    <3>1. r.at = from + 4 /\ r.put = w.put \cup from..(from + 3) /\ r.cells = w.cells \cup {<<from, v>>}
      BY <2>1 DEF Writer
    <3>2. w.put \subseteq 0..(w.at - 1) /\ w.at \in Nat
      BY <2>4 DEF Laid, Writer
    <3>3. r.put \subseteq 0..(r.at - 1)
      BY <1>1, <3>1, <3>2
    <3>4. \A c \in w.cells : c[1] % 4 = 0 /\ c[1]..(c[1] + 3) \subseteq w.put
      BY <2>4 DEF Laid
    <3>5. \A c \in r.cells : c[1] % 4 = 0 /\ c[1]..(c[1] + 3) \subseteq r.put
      BY <1>1, <3>1, <3>4
    <3>6. \A c \in w.cells : c \in Nat \X Nat
      BY DEF Writer
    <3>7. ASSUME NEW c \in w.cells PROVE c[1] # from
      <4>1. c[1] \in Nat
        BY <3>6
      <4>2. c[1] \in c[1]..(c[1] + 3)
        BY <4>1
      <4>3. c[1] \in 0..(w.at - 1)
        BY <3>2, <3>4, <4>2
      <4> QED
        BY <1>1, <3>2, <4>3
    <3>8. \A c, e \in r.cells : c[1] = e[1] => c[2] = e[2]
      BY <2>4, <3>1, <3>7 DEF Laid
    <3> QED
      BY <3>3, <3>5, <3>8 DEF Laid
  <2> QED
    BY <1>1, <1>3, <2>1, <2>3, <2>4 DEF Grown, Writer, from
<1> QED
  BY <1>2, <1>3

LEMMA PutTextGrows ==
  ASSUME NEW w \in Writer, NEW v \in Values
  PROVE  PutText(w, v) \in Writer /\ Grown(w, PutText(w, v))
<1> DEFINE n == IF v.is = "text" THEN v.bytes ELSE 0
<1>1. n + 1 \in Nat
  BY ValuesAssumption
<1>2. PutText(w, v) = Put(PutLength(w, n + 1), n + 1, 1)
  BY DEF PutText
<1> HIDE DEF n
<1>3. PutLength(w, n + 1) \in Writer /\ Grown(w, PutLength(w, n + 1))
  BY <1>1, PutLengthGrows
<1>4. /\ Put(PutLength(w, n + 1), n + 1, 1) \in Writer
      /\ Grown(PutLength(w, n + 1), Put(PutLength(w, n + 1), n + 1, 1))
  BY <1>1, <1>3, PutGrows DEF Alignments
<1> QED
  BY <1>2, <1>3, <1>4, GrownAgain

LEMMA KindsApart ==
  /\ "string" \notin SizedKinds /\ "complex" \notin SizedKinds /\ "wstring" \notin SizedKinds
  /\ \A kind \in TimeKinds : kind \notin NumberKinds
  /\ \A kind : Refusal(kind) \in WalkErrors \ {"none"} /\ Unfit(kind) \in WalkErrors \ {"none"}
BY DEF SizedKinds, NumberKinds, TimeKinds, Widths, Refusal, Unfit, WalkErrors

LEMMA PutPrimitiveGrows ==
  ASSUME NEW w \in Writer, NEW kind, NEW v \in Values
  PROVE  PutPrimitive(w, kind, v) \in Writer /\ Grown(w, PutPrimitive(w, kind, v))
<1> DEFINE r == PutPrimitive(w, kind, v)
<1>1. CASE kind \in SizedKinds \ {"bool"} /\ v.is = "huge"
  BY <1>1, FailGrows, KindsApart DEF PutPrimitive
<1>2. CASE ~(kind \in SizedKinds \ {"bool"} /\ v.is = "huge")
  <2>1. CASE kind = "string"
    <3>1. r = PutText(w, v)
      BY <1>2, <2>1, KindsApart DEF PutPrimitive, SizedKinds
    <3> QED
      BY <3>1, PutTextGrows
  <2>2. CASE kind \in TimeKinds
    <3>1. r = Put(Put(w, 4, 4), 4, 4)
      BY <1>2, <2>2, KindsApart DEF PutPrimitive, SizedKinds
    <3>2. Put(w, 4, 4) \in Writer /\ Grown(w, Put(w, 4, 4))
      BY PutGrows DEF Alignments
    <3>3. r \in Writer /\ Grown(Put(w, 4, 4), r)
      BY <3>1, <3>2, PutGrows DEF Alignments
    <3> QED
      BY <3>2, <3>3, GrownAgain
  <2>3. CASE kind \in NumberKinds
    <3>1. r = Put(w, Widths[kind], Widths[kind])
      BY <1>2, <2>3, KindsApart DEF PutPrimitive, SizedKinds
    <3>2. Widths[kind] \in Nat /\ Widths[kind] \in Alignments
      BY <2>3, WidthsTyped DEF Alignments
    <3> QED
      BY <3>1, <3>2, PutGrows
  <2>4. CASE kind \notin NumberKinds \cup TimeKinds \cup {"string"}
    <3>1. r = Fail(w, Refusal(kind))
      BY <1>2, <2>4 DEF PutPrimitive
    <3> QED
      BY <3>1, FailGrows, KindsApart
  <2> QED
    BY <2>1, <2>2, <2>3, <2>4
<1> QED
  BY <1>1, <1>2

LEMMA WriteSingleGrows ==
  ASSUME NEW w \in Writer, NEW kind, NEW v \in Values, NEW default \in Values
  PROVE  WriteSingle(w, kind, v, default) \in Writer /\ Grown(w, WriteSingle(w, kind, v, default))
<1> DEFINE chosen == IF Suits(kind, v) THEN v
                     ELSE IF default.is # "none" THEN default ELSE ZeroOf(kind)
           sizes == IF v.is = "text" THEN v.chars = v.bytes ELSE chosen = EmptyText
           flagged == Followed(w, Suits(kind, chosen), kind = "string" => sizes)
<1>1. WriteSingle(w, kind, v, default) = PutPrimitive(flagged, kind, chosen)
  BY DEF WriteSingle
<1>2. chosen \in Values
  BY ZeroTyped
<1> HIDE DEF chosen
<1>3. flagged \in Writer /\ Grown(w, flagged)
  BY FollowedGrows
<1> HIDE DEF flagged
<1>4. PutPrimitive(flagged, kind, chosen) \in Writer /\ Grown(flagged, PutPrimitive(flagged, kind, chosen))
  BY <1>2, <1>3, PutPrimitiveGrows
<1> QED
  BY <1>1, <1>3, <1>4, GrownAgain

LEMMA LengthTyped ==
  ASSUME NEW f \in Field, NEW v \in Values
  PROVE  /\ ArrayLength(f, v) \in Int
         /\ f.count = -2 => ArrayLength(f, v) \in Nat
         /\ f.count >= 0 => ArrayLength(f, v) \in Nat
         /\ f.count >= -2 /\ f.count # -1 => ArrayLength(f, v) \in Nat
<1>1. f.count \in Int
  BY DEF Field
<1>2. LengthOf(v) \in Nat
  BY ValueShapes
<1> QED
  BY <1>1, <1>2 DEF ArrayLength

\* The parts of WriteArray: what the array is found to be, its length if that is
\* written, and then a step for each element or item.
Flagged(w, f, v, default) == Followed(w, DecoderFollows(f, v, default), SizerFollows(f, v, default))

Announced(w, f, v, default) ==
  IF f.count = -2 THEN PutLength(Flagged(w, f, v, default), ArrayLength(f, v))
  ELSE Flagged(w, f, v, default)

ElementSteps(nested, f, v) ==
  [k \in 1..ArrayLength(f, v) |->
    [r \in Writer |->
      Followed(nested[<<r, f.target, Entry(v, k, None)>>],
               nested[<<r, f.target, Entry(v, k, None)>>].at > r.at, TRUE)]]

ItemSteps(f, items) ==
  [k \in DOMAIN items |-> [r \in Writer |-> PutPrimitive(r, f.kind, items[k])]]

Misfit(f, v) == f.count # -2 /\ v.is # "none" /\ LengthOf(v) # f.count

LEMMA WriteArrayParts ==
  ASSUME NEW nested, NEW w, NEW f, NEW v, NEW default
  PROVE  /\ Misfit(f, v) => WriteArray(nested, w, f, v, default) = Fail(w, "ValueError")
         /\ ~Misfit(f, v) /\ f.kind = "complex" =>
              WriteArray(nested, w, f, v, default) =
                Through(Announced(w, f, v, default), ElementSteps(nested, f, v))
         /\ ~Misfit(f, v) /\ f.kind \in SizedKinds \cup {"string"} =>
              WriteArray(nested, w, f, v, default) =
                Through(Announced(w, f, v, default), ItemSteps(f, ItemsOf(f, v, default)))
         /\ ~Misfit(f, v) /\ f.kind \notin SizedKinds \cup {"string", "complex"} =>
              WriteArray(nested, w, f, v, default) =
                Fail(Announced(w, f, v, default), Refusal(f.kind))
<1>1. CASE Misfit(f, v)
  BY <1>1 DEF WriteArray, Misfit
<1>2. CASE ~Misfit(f, v) /\ f.kind = "complex"
  BY <1>2, KindsApart DEF WriteArray, Misfit, Announced, Flagged, ElementSteps
<1>3. CASE ~Misfit(f, v) /\ f.kind \in SizedKinds \cup {"string"}
  BY <1>3, KindsApart DEF WriteArray, Misfit, Announced, Flagged, ItemSteps
<1>4. CASE ~Misfit(f, v) /\ f.kind \notin SizedKinds \cup {"string", "complex"}
  BY <1>4, KindsApart DEF WriteArray, Misfit, Announced, Flagged
<1> QED
  BY <1>1, <1>2, <1>3, <1>4, KindsApart

LEMMA AnnouncedGrows ==
  ASSUME NEW w \in Writer, NEW f \in Field, NEW v \in Values, NEW default \in Values
  PROVE  /\ Flagged(w, f, v, default) \in Writer /\ Grown(w, Flagged(w, f, v, default))
         /\ Announced(w, f, v, default) \in Writer /\ Grown(w, Announced(w, f, v, default))
         /\ Grown(Flagged(w, f, v, default), Announced(w, f, v, default))
<1> DEFINE flagged == Flagged(w, f, v, default)
           n == ArrayLength(f, v)
<1>1. flagged \in Writer /\ Grown(w, flagged)
  BY FollowedGrows DEF Flagged
<1>2. CASE f.count = -2
  <2>1. n \in Nat
    BY <1>2, LengthTyped
  <2>2. PutLength(flagged, n) \in Writer /\ Grown(flagged, PutLength(flagged, n))
    BY <1>1, <2>1, PutLengthGrows
  <2> QED
    BY <1>1, <1>2, <2>2, GrownAgain DEF Announced
<1>3. CASE f.count # -2
  BY <1>1, <1>3, GrownAgain DEF Announced
<1> QED
  BY <1>1, <1>2, <1>3

LEMMA ElementStepsTyped ==
  ASSUME NEW su \in Subjects, NEW nested \in Deeper(su), NEW f \in Field,
         f.target \in DOMAIN su.schema.plans, NEW v \in Values
  PROVE  /\ ElementSteps(nested, f, v) \in Seq(Further)
         /\ Len(ElementSteps(nested, f, v)) = IF ArrayLength(f, v) < 0 THEN 0 ELSE ArrayLength(f, v)
<1> DEFINE n == ArrayLength(f, v)
           element(r, k) == nested[<<r, f.target, Entry(v, k, None)>>]
           elements == [k \in 1..n |->
                         [r \in Writer |-> Followed(element(r, k), element(r, k).at > r.at, TRUE)]]
<1>1. n \in Int
  BY LengthTyped
<1>2. ElementSteps(nested, f, v) = elements
  BY DEF ElementSteps
<1> HIDE DEF n
<1>3. ASSUME NEW k \in 1..n PROVE elements[k] \in Further
  <2> DEFINE g == [r \in Writer |-> Followed(element(r, k), element(r, k).at > r.at, TRUE)]
  <2>1. ASSUME NEW r \in Writer PROVE g[r] \in Writer /\ Grown(r, g[r])
    <3>1. Entry(v, k, None) \in Values
      BY ValueShapes, ValuesAssumption
    <3>2. <<r, f.target, Entry(v, k, None)>> \in WriterCalls(su)
      BY <3>1 DEF WriterCalls
    <3>3. element(r, k) \in Writer /\ Grown(r, element(r, k))
      BY <3>2 DEF Deeper
    <3> HIDE DEF element
    <3>4. /\ Followed(element(r, k), element(r, k).at > r.at, TRUE) \in Writer
          /\ Grown(element(r, k), Followed(element(r, k), element(r, k).at > r.at, TRUE))
      BY <3>3, FollowedGrows
    <3> QED
      BY <3>3, <3>4, GrownAgain
  <2>2. elements[k] = g /\ g = [r \in Writer |-> g[r]]
    OBVIOUS
  <2> HIDE DEF g, elements
  <2> QED
    BY <2>1, <2>2 DEF Further
<1>4. elements \in [1..n -> Further]
  BY <1>3
<1> HIDE DEF elements
<1> QED
  BY <1>1, <1>2, <1>4, StepsTyped DEF n

LEMMA ItemStepsTyped ==
  ASSUME NEW f, NEW items \in Seq(Values)
  PROVE  ItemSteps(f, items) \in Seq(Further) /\ Len(ItemSteps(f, items)) = Len(items)
<1> DEFINE steps == ItemSteps(f, items)
<1>1. ASSUME NEW k \in DOMAIN items PROVE steps[k] \in Further
  <2> DEFINE g == [r \in Writer |-> PutPrimitive(r, f.kind, items[k])]
  <2>1. items[k] \in Values
    OBVIOUS
  <2>2. \A r \in Writer : g[r] \in Writer /\ Grown(r, g[r])
    BY <2>1, PutPrimitiveGrows
  <2>3. steps[k] = g /\ g = [r \in Writer |-> g[r]]
    BY DEF ItemSteps
  <2> HIDE DEF g, steps
  <2> QED
    BY <2>2, <2>3 DEF Further
<1>2. steps \in [1..Len(items) -> Further] /\ Len(items) \in Nat
  BY <1>1 DEF ItemSteps
<1> HIDE DEF steps
<1>3. steps \in Seq(Further) /\ Len(steps) = Len(items)
  BY <1>2, StepsTyped
<1> QED
  BY <1>3 DEF steps

LEMMA WriteArrayGrows ==
  ASSUME NEW su \in Subjects, NEW nested \in Deeper(su), NEW w \in Writer, NEW f \in Field,
         f.kind = "complex" => f.target \in DOMAIN su.schema.plans,
         NEW v \in Values, NEW default \in Values
  PROVE  /\ WriteArray(nested, w, f, v, default) \in Writer
         /\ Grown(w, WriteArray(nested, w, f, v, default))
         /\ ~Misfit(f, v) =>
              Grown(Announced(w, f, v, default), WriteArray(nested, w, f, v, default))
<1> DEFINE items == ItemsOf(f, v, default)
           announced == Announced(w, f, v, default)
           result == WriteArray(nested, w, f, v, default)
<1>1. announced \in Writer /\ Grown(w, announced)
  BY AnnouncedGrows
<1> HIDE DEF announced
<1>2. CASE Misfit(f, v)
  <2>1. result = Fail(w, "ValueError")
    BY <1>2, WriteArrayParts
  <2>2. "ValueError" \in WalkErrors \ {"none"}
    BY DEF WalkErrors
  <2> QED
    BY <1>2, <2>1, <2>2, FailGrows
<1>3. CASE ~Misfit(f, v) /\ f.kind = "complex"
  <2>1. result = Through(announced, ElementSteps(nested, f, v))
    BY <1>3, WriteArrayParts DEF announced
  <2>2. ElementSteps(nested, f, v) \in Seq(Further)
    BY <1>3, ElementStepsTyped
  <2>3. result \in Writer /\ Grown(announced, result)
    BY <1>1, <2>1, <2>2, ThroughGrows
  <2> QED
    BY <1>1, <2>3, GrownAgain DEF announced
<1>4. CASE ~Misfit(f, v) /\ f.kind \in SizedKinds \cup {"string"}
  <2>1. result = Through(announced, ItemSteps(f, items))
    BY <1>4, WriteArrayParts DEF announced
  <2>2. ItemSteps(f, items) \in Seq(Further)
    BY ItemsTyped, ItemStepsTyped
  <2>3. result \in Writer /\ Grown(announced, result)
    BY <1>1, <2>1, <2>2, ThroughGrows
  <2> QED
    BY <1>1, <2>3, GrownAgain DEF announced
<1>5. CASE ~Misfit(f, v) /\ f.kind \notin SizedKinds \cup {"string", "complex"}
  <2>1. result = Fail(announced, Refusal(f.kind))
    BY <1>5, WriteArrayParts DEF announced
  <2>2. result \in Writer /\ Grown(announced, result)
    BY <1>1, <2>1, FailGrows, KindsApart
  <2> QED
    BY <1>1, <2>2, GrownAgain DEF announced
<1> QED
  BY <1>2, <1>3, <1>4, <1>5

LEMMA WriteFieldGrows ==
  ASSUME NEW su \in Subjects, NEW nested \in Deeper(su), NEW w \in Writer, NEW f \in Field,
         f.kind = "complex" => f.target \in DOMAIN su.schema.plans,
         NEW v \in Values, NEW default \in Values
  PROVE  /\ WriteField(nested, w, f, v, default) \in Writer
         /\ Grown(w, WriteField(nested, w, f, v, default))
<1> DEFINE result == WriteField(nested, w, f, v, default)
<1>1. CASE f.count # -1
  <2>1. result = WriteArray(nested, w, f, v, default)
    BY <1>1 DEF WriteField
  <2> QED
    BY <2>1, WriteArrayGrows
<1>2. CASE f.count = -1 /\ f.kind = "complex"
  <2>1. result = nested[<<w, f.target, v>>]
    BY <1>2 DEF WriteField
  <2>2. <<w, f.target, v>> \in WriterCalls(su)
    BY <1>2 DEF WriterCalls
  <2> QED
    BY <2>1, <2>2 DEF Deeper
<1>3. CASE f.count = -1 /\ f.kind # "complex"
  <2>1. result = WriteSingle(w, f.kind, v, default)
    BY <1>3 DEF WriteField
  <2> QED
    BY <2>1, WriteSingleGrows
<1> QED
  BY <1>1, <1>2, <1>3

LEMMA WriteDefinitionGrows ==
  ASSUME NEW su \in Subjects, NEW nested \in Deeper(su), NEW w \in Writer,
         NEW t \in DOMAIN su.schema.plans, NEW d \in Values
  PROVE  /\ WriteDefinition(su, nested, w, t, d) \in Writer
         /\ Grown(w, WriteDefinition(su, nested, w, t, d))
<1> DEFINE fields == DefinitionOf(su, t)
           steps == [i \in DOMAIN fields |->
                      [r \in Writer |->
                         WriteField(nested, r, fields[i], Member(d, i), DefaultOf(su, t, i))]]
           result == WriteDefinition(su, nested, w, t, d)
<1>1. fields \in Seq(Field)
  BY SubjectTyped
<1>2. CASE fields = <<>>
  <2> DEFINE flagged == Followed(w, ~su.schema.plans[t].union, TRUE)
  <2>1. result = Put(flagged, 1, 1)
    BY <1>2 DEF WriteDefinition
  <2>2. flagged \in Writer /\ Grown(w, flagged)
    BY FollowedGrows
  <2> HIDE DEF flagged
  <2>3. Put(flagged, 1, 1) \in Writer /\ Grown(flagged, Put(flagged, 1, 1))
    BY <2>2, PutGrows DEF Alignments
  <2> QED
    BY <2>1, <2>2, <2>3, GrownAgain
<1>3. CASE fields # <<>>
  <2>1. result = Through(w, steps)
    BY <1>3 DEF WriteDefinition
  <2>2. ASSUME NEW i \in DOMAIN fields PROVE steps[i] \in Further
    <3> DEFINE g == [r \in Writer |->
                       WriteField(nested, r, fields[i], Member(d, i), DefaultOf(su, t, i))]
    <3>1. /\ fields[i] \in Field
          /\ fields[i].kind = "complex" => fields[i].target \in DOMAIN su.schema.plans
          /\ Member(d, i) \in Values /\ DefaultOf(su, t, i) \in Values
      BY SubjectTyped, ValueShapes
    <3> HIDE DEF fields
    <3>2. \A r \in Writer : g[r] \in Writer /\ Grown(r, g[r])
      BY <3>1, WriteFieldGrows
    <3>3. steps[i] = g /\ g = [r \in Writer |-> g[r]]
      OBVIOUS
    <3> HIDE DEF g, steps
    <3> QED
      BY <3>2, <3>3 DEF Further
  <2> HIDE DEF fields
  <2>3. steps \in [1..Len(fields) -> Further] /\ Len(fields) \in Int
    BY <1>1, <2>2
  <2> HIDE DEF steps
  <2>4. steps \in Seq(Further)
    BY <2>3, StepsTyped
  <2> QED
    BY <2>1, <2>4, ThroughGrows
<1> QED
  BY <1>2, <1>3

\* What the walk does at each depth.
LEMMA WritesLevels ==
  ASSUME NEW su \in Subjects
  PROVE  \A n \in Nat :
           /\ Writes(su)[n] \in Deeper(su)
           /\ \A w \in Writer, t \in DOMAIN su.schema.plans, d \in Values :
                Writes(su)[n][<<w, t, d>>] =
                  IF n = 0 THEN Fail(w, "RecursionError")
                  ELSE WriteDefinition(su, Writes(su)[n - 1],
                                       Followed(w, MaxNesting - n <= MaxDepth, TRUE), t, d)
<1> DEFINE Calls == WriterCalls(su)
           Step(h, n) ==
             [c \in Writer \X (DOMAIN su.schema.plans) \X Values |->
                IF n = 0 THEN Fail(c[1], "RecursionError")
                ELSE WriteDefinition(su, h[n - 1], Followed(c[1], MaxNesting - n <= MaxDepth, TRUE),
                                     c[2], c[3])]
           level == CHOOSE h : h = [n \in Nat |-> Step(h, n)]
           first == [c \in Calls |-> Fail(c[1], "RecursionError")]
           F == [x \in Nat \X Deeper(su) |->
                  [c \in Calls |->
                     WriteDefinition(su, x[2],
                       Followed(c[1], MaxNesting - (x[1] + 1) <= MaxDepth, TRUE), c[2], c[3])]]
<1>1. \A c \in Calls : c[1] \in Writer /\ c[2] \in DOMAIN su.schema.plans /\ c[3] \in Values
                       /\ c = <<c[1], c[2], c[3]>>
  BY DEF WriterCalls
<1>2. first \in Deeper(su)
  <2>1. "RecursionError" \in WalkErrors \ {"none"}
    BY DEF WalkErrors
  <2>2. \A c \in Calls : Fail(c[1], "RecursionError") \in Writer /\ Grown(c[1], Fail(c[1], "RecursionError"))
    BY <1>1, <2>1, FailGrows
  <2> QED
    BY <2>2 DEF Deeper
<1>3. F \in [Nat \X Deeper(su) -> Deeper(su)]
  <2> SUFFICES ASSUME NEW x \in Nat \X Deeper(su) PROVE F[x] \in Deeper(su)
    OBVIOUS
  <2> DEFINE flagged(c) == Followed(c[1], MaxNesting - (x[1] + 1) <= MaxDepth, TRUE)
             g == [c \in Calls |-> WriteDefinition(su, x[2], flagged(c), c[2], c[3])]
  <2>1. F[x] = g
    OBVIOUS
  <2>2. ASSUME NEW c \in Calls PROVE g[c] \in Writer /\ Grown(c[1], g[c])
    <3>1. flagged(c) \in Writer /\ Grown(c[1], flagged(c))
      BY <1>1, FollowedGrows
    <3>2. x[2] \in Deeper(su)
      OBVIOUS
    <3>3. g[c] = WriteDefinition(su, x[2], flagged(c), c[2], c[3])
      OBVIOUS
    <3> HIDE DEF flagged, g
    <3>4. /\ WriteDefinition(su, x[2], flagged(c), c[2], c[3]) \in Writer
          /\ Grown(flagged(c), WriteDefinition(su, x[2], flagged(c), c[2], c[3]))
      BY <1>1, <3>1, <3>2, WriteDefinitionGrows
    <3> QED
      BY <1>1, <3>1, <3>3, <3>4, GrownAgain
  <2>3. g = [c \in Calls |-> g[c]]
    OBVIOUS
  <2> HIDE DEF g, F
  <2> QED
    BY <2>1, <2>2, <2>3 DEF Deeper
<1>4. \A n \in Nat, h \in Deeper(su) :
        F[<<n, h>>] = [c \in Calls |->
          WriteDefinition(su, h, Followed(c[1], MaxNesting - (n + 1) <= MaxDepth, TRUE), c[2], c[3])]
  OBVIOUS
<1> HIDE DEF F
<1>5. PICK g : Recursive(g, Deeper(su), first, F)
  BY <1>2, <1>3, Recursion
<1>6. g \in [Nat -> Deeper(su)] /\ g[0] = first
  BY <1>5 DEF Recursive
<1>7. ASSUME NEW n \in Nat PROVE g[n] = Step(g, n)
  <2>1. CASE n = 0
    BY <1>6, <2>1 DEF WriterCalls
  <2>2. CASE n # 0
    <3> DEFINE m == n - 1
    <3>1. m \in Nat /\ m + 1 = n
      BY <2>2
    <3>2. g[m + 1] = F[<<m, g[m]>>]
      BY <1>5, <3>1 DEF Recursive
    <3>3. g[m] \in Deeper(su)
      BY <1>6, <3>1
    <3>4. g[n] = [c \in Calls |->
            WriteDefinition(su, g[m], Followed(c[1], MaxNesting - (m + 1) <= MaxDepth, TRUE), c[2], c[3])]
      BY <1>4, <3>1, <3>2, <3>3
    <3>5. g[n] = [c \in Calls |->
            WriteDefinition(su, g[m], Followed(c[1], MaxNesting - n <= MaxDepth, TRUE), c[2], c[3])]
      BY <3>1, <3>4
    <3>6. Step(g, n) = [c \in Calls |->
            WriteDefinition(su, g[m], Followed(c[1], MaxNesting - n <= MaxDepth, TRUE), c[2], c[3])]
      BY <2>2 DEF WriterCalls
    <3> QED
      BY <3>5, <3>6
  <2> QED
    BY <2>1, <2>2
<1>8. g = [n \in Nat |-> Step(g, n)]
  <2>1. g = [n \in Nat |-> g[n]]
    BY <1>6
  <2> HIDE DEF Step
  <2> QED
    BY <1>7, <2>1
<1>9. level = [n \in Nat |-> Step(level, n)]
  BY <1>8
<1>10. Writes(su) = level
  BY DEF Writes
<1> HIDE DEF level
<1>11. \A n \in Nat : level[n] = Step(level, n)
  <2> HIDE DEF Step
  <2> QED
    BY <1>9
<1> DEFINE T == {n \in Nat : level[n] = g[n]}
<1>12. 0 \in T
  BY <1>7, <1>11
<1>13. ASSUME NEW n \in Nat, n \in T PROVE n + 1 \in T
  <2>1. level[n] = g[n] /\ (n + 1) - 1 = n /\ n + 1 # 0
    BY <1>13
  <2>2. Step(level, n + 1) = Step(g, n + 1)
    BY <2>1
  <2> HIDE DEF Step
  <2> QED
    BY <1>7, <1>11, <2>2
<1> HIDE DEF T
<1>14. Nat \subseteq T
  BY <1>12, <1>13, Induct
<1>15. \A n \in Nat : level[n] \in Deeper(su)
  BY <1>6, <1>14 DEF T
<1>16. ASSUME NEW n \in Nat, NEW w \in Writer, NEW t \in DOMAIN su.schema.plans, NEW d \in Values
       PROVE  level[n][<<w, t, d>>] =
                IF n = 0 THEN Fail(w, "RecursionError")
                ELSE WriteDefinition(su, level[n - 1],
                                     Followed(w, MaxNesting - n <= MaxDepth, TRUE), t, d)
  BY <1>11
<1> QED
  BY <1>10, <1>15, <1>16

-----------------------------------------------------------------------------
(* The walk that sizes *)

\* An error that was met stays.
Stays(a, b) == b.error = "none" => a.error = "none"

SizerFurther == {g \in [Sizer -> Sizer] : \A s \in Sizer : Stays(s, g[s])}
SizerCalls(su) == Sizer \X (DOMAIN su.schema.plans) \X Values
SizerDeeper(su) == {g \in [SizerCalls(su) -> Sizer] : \A c \in SizerCalls(su) : Stays(c[1], g[c])}

LEMMA SizerPath ==
  ASSUME NEW s \in Sizer, NEW steps \in Seq(SizerFurther)
  PROVE  \E p : /\ Path(p, Sizer, s, steps) /\ Through(s, steps) = p[Len(steps)]
               /\ \A i, j \in 0..Len(steps) : i <= j => Stays(p[i], p[j])
<1> DEFINE R == {c \in Sizer \X Sizer : Stays(c[1], c[2])}
<1>1. SizerFurther \subseteq [Sizer -> Sizer] /\ Len(steps) \in Nat
  BY DEF SizerFurther
<1>2. steps \in Seq([Sizer -> Sizer])
  BY <1>1
<1>3. PICK p : Path(p, Sizer, s, steps) /\ Through(s, steps) = p[Len(steps)]
  BY <1>2, ThroughPath
<1>4. ASSUME NEW k \in 1..Len(steps) PROVE <<p[k - 1], p[k]>> \in R
  <2>1. k - 1 \in 0..Len(steps) /\ k \in 0..Len(steps)
    OBVIOUS
  <2>2. p[k - 1] \in Sizer /\ p[k] \in Sizer /\ p[k] = steps[k][p[k - 1]] /\ steps[k] \in SizerFurther
    BY <1>3, <2>1 DEF Path
  <2> QED
    BY <2>2 DEF SizerFurther
<1>5. \A x \in Sizer : <<x, x>> \in R
  BY DEF Stays
<1>6. \A x, y, z \in Sizer : <<x, y>> \in R /\ <<y, z>> \in R => <<x, z>> \in R
  BY DEF Stays
<1> HIDE DEF R
<1>7. \A i, j \in 0..Len(steps) : i <= j => <<p[i], p[j]>> \in R
  BY <1>1, <1>3, <1>4, <1>5, <1>6, PathRelates
<1> QED
  BY <1>3, <1>7 DEF R

LEMMA ThroughStays ==
  ASSUME NEW s \in Sizer, NEW steps \in Seq(SizerFurther)
  PROVE  Through(s, steps) \in Sizer /\ Stays(s, Through(s, steps))
<1>1. PICK p : /\ Path(p, Sizer, s, steps) /\ Through(s, steps) = p[Len(steps)]
               /\ \A i, j \in 0..Len(steps) : i <= j => Stays(p[i], p[j])
  BY SizerPath
<1>2. Len(steps) \in Nat
  OBVIOUS
<1> QED
  BY <1>1, <1>2 DEF Path

LEMMA GrowStays ==
  ASSUME NEW s \in Sizer, NEW n \in Int, NEW a \in Alignments
  PROVE  Grow(s, n, a) \in Sizer /\ Stays(s, Grow(s, n, a))
<1>1. Padded(s.at, a) \in Int
  BY DEF Padded, Padding, Sizer, Alignments
<1> QED
  BY <1>1 DEF Grow, Stays, Sizer

LEMMA SizerFails ==
  ASSUME NEW s \in Sizer, NEW e \in WalkErrors \ {"none"}
  PROVE  Fail(s, e) \in Sizer /\ Stays(s, Fail(s, e)) /\ Fail(s, e).error # "none"
BY DEF Fail, Stays, Sizer

LEMMA SizeTextStays ==
  ASSUME NEW s \in Sizer, NEW v \in Values
  PROVE  SizeText(s, v) \in Sizer /\ Stays(s, SizeText(s, v))
<1>1. LengthOf(v) \in Nat /\ "TypeError" \in WalkErrors \ {"none"}
  BY ValueShapes DEF WalkErrors
<1>2. 4 + LengthOf(v) + 1 \in Int /\ 4 \in Alignments
  BY <1>1 DEF Alignments
<1> QED
  BY <1>1, <1>2, GrowStays, SizerFails DEF SizeText

LEMMA SizesOfKinds ==
  ASSUME NEW kind \in SizedKinds
  PROVE  SizeOf(kind) \in {1, 2, 4, 8} /\ AlignmentOf(kind) \in Alignments
BY WidthsTyped DEF SizedKinds, SizeOf, AlignmentOf, Alignments

LEMMA SizeArrayStays ==
  ASSUME NEW su \in Subjects, NEW nested \in SizerDeeper(su), NEW s \in Sizer, NEW f \in Field,
         f.kind = "complex" => f.target \in DOMAIN su.schema.plans, NEW v \in Values
  PROVE  SizeArray(nested, s, f, v) \in Sizer /\ Stays(s, SizeArray(nested, s, f, v))
<1> DEFINE n == ArrayLength(f, v)
           counted == IF f.count = -2 THEN Grow(s, 4, 4) ELSE s
           elements == [k \in 1..n |-> [r \in Sizer |-> nested[<<r, f.target, Entry(v, k, None)>>]]]
           texts == [k \in 1..n |-> [r \in Sizer |-> SizeText(r, Entry(v, k, EmptyText))]]
           result == SizeArray(nested, s, f, v)
<1>1. n \in Int
  BY LengthTyped
<1> HIDE DEF n
<1>2. counted \in Sizer /\ Stays(s, counted)
  BY GrowStays DEF Alignments, Stays
<1> HIDE DEF counted
<1>3. \A a \in {None, EmptyText}, k \in 1..n : Entry(v, k, a) \in Values
  BY ValueShapes, ValuesAssumption
<1>4. CASE f.kind = "complex"
  <2>1. result = Through(counted, elements)
    BY <1>4, KindsApart DEF SizeArray, counted, n
  <2>2. ASSUME NEW k \in 1..n PROVE elements[k] \in SizerFurther
    <3> DEFINE g == [r \in Sizer |-> nested[<<r, f.target, Entry(v, k, None)>>]]
    <3>1. ASSUME NEW r \in Sizer PROVE g[r] \in Sizer /\ Stays(r, g[r])
      <4>1. <<r, f.target, Entry(v, k, None)>> \in SizerCalls(su)
        BY <1>3, <1>4 DEF SizerCalls
      <4> QED
        BY <4>1 DEF SizerDeeper
    <3>2. elements[k] = g /\ g = [r \in Sizer |-> g[r]]
      OBVIOUS
    <3> HIDE DEF g, elements
    <3> QED
      BY <3>1, <3>2 DEF SizerFurther
  <2>3. elements \in [1..n -> SizerFurther]
    BY <2>2
  <2> HIDE DEF elements
  <2>4. elements \in Seq(SizerFurther)
    BY <1>1, <2>3, StepsTyped
  <2> QED
    BY <1>2, <2>1, <2>4, ThroughStays DEF Stays
<1>5. CASE f.kind = "string"
  <2>1. result = Through(counted, texts)
    BY <1>5, KindsApart DEF SizeArray, counted, n
  <2>2. ASSUME NEW k \in 1..n PROVE texts[k] \in SizerFurther
    <3> DEFINE g == [r \in Sizer |-> SizeText(r, Entry(v, k, EmptyText))]
    <3>1. \A r \in Sizer : g[r] \in Sizer /\ Stays(r, g[r])
      BY <1>3, SizeTextStays
    <3>2. texts[k] = g /\ g = [r \in Sizer |-> g[r]]
      OBVIOUS
    <3> HIDE DEF g, texts
    <3> QED
      BY <3>1, <3>2 DEF SizerFurther
  <2>3. texts \in [1..n -> SizerFurther]
    BY <2>2
  <2> HIDE DEF texts
  <2>4. texts \in Seq(SizerFurther)
    BY <1>1, <2>3, StepsTyped
  <2> QED
    BY <1>2, <2>1, <2>4, ThroughStays DEF Stays
<1>6. CASE f.kind \in SizedKinds
  <2>1. result = Grow(counted, n * SizeOf(f.kind), AlignmentOf(f.kind))
    BY <1>6, KindsApart DEF SizeArray, counted, n
  <2>2. n * SizeOf(f.kind) \in Int /\ AlignmentOf(f.kind) \in Alignments
    BY <1>1, <1>6, SizesOfKinds
  <2> QED
    BY <1>2, <2>1, <2>2, GrowStays DEF Stays
<1>7. CASE f.kind \notin SizedKinds \cup {"string", "complex"}
  <2>1. result = Fail(counted, Refusal(f.kind))
    BY <1>7 DEF SizeArray, counted, n
  <2> QED
    BY <1>2, <2>1, SizerFails, KindsApart DEF Stays
<1> QED
  BY <1>4, <1>5, <1>6, <1>7

LEMMA SizeFieldStays ==
  ASSUME NEW su \in Subjects, NEW nested \in SizerDeeper(su), NEW s \in Sizer, NEW f \in Field,
         f.kind = "complex" => f.target \in DOMAIN su.schema.plans, NEW v \in Values
  PROVE  SizeField(nested, s, f, v) \in Sizer /\ Stays(s, SizeField(nested, s, f, v))
<1> DEFINE result == SizeField(nested, s, f, v)
<1>1. CASE f.count # -1
  <2>1. result = SizeArray(nested, s, f, v)
    BY <1>1 DEF SizeField
  <2> QED
    BY <2>1, SizeArrayStays
<1>2. CASE f.count = -1 /\ f.kind = "complex"
  <2>1. result = nested[<<s, f.target, v>>]
    BY <1>2, KindsApart DEF SizeField
  <2>2. <<s, f.target, v>> \in SizerCalls(su)
    BY <1>2 DEF SizerCalls
  <2> QED
    BY <2>1, <2>2 DEF SizerDeeper
<1>3. CASE f.count = -1 /\ f.kind = "string"
  <2>1. result = SizeText(s, IF v.is = "text" THEN v ELSE EmptyText)
    BY <1>3, KindsApart DEF SizeField
  <2> QED
    BY <2>1, SizeTextStays, ValuesAssumption
<1>4. CASE f.count = -1 /\ f.kind \in SizedKinds
  <2>1. result = Grow(s, SizeOf(f.kind), AlignmentOf(f.kind))
    BY <1>4, KindsApart DEF SizeField
  <2>2. SizeOf(f.kind) \in Int /\ AlignmentOf(f.kind) \in Alignments
    BY <1>4, SizesOfKinds
  <2> QED
    BY <2>1, <2>2, GrowStays
<1>5. CASE f.count = -1 /\ f.kind \notin SizedKinds \cup {"string", "complex"}
  <2>1. result = Fail(s, Refusal(f.kind))
    BY <1>5 DEF SizeField
  <2> QED
    BY <2>1, SizerFails, KindsApart
<1> QED
  BY <1>1, <1>2, <1>3, <1>4, <1>5

LEMMA SizeDefinitionStays ==
  ASSUME NEW su \in Subjects, NEW nested \in SizerDeeper(su), NEW s \in Sizer,
         NEW t \in DOMAIN su.schema.plans, NEW d \in Values
  PROVE  /\ SizeDefinition(su, nested, s, t, d) \in Sizer
         /\ Stays(s, SizeDefinition(su, nested, s, t, d))
<1> DEFINE fields == DefinitionOf(su, t)
           steps == [i \in DOMAIN fields |->
                      [r \in Sizer |-> SizeField(nested, r, fields[i], Member(d, i))]]
           result == SizeDefinition(su, nested, s, t, d)
<1>1. fields \in Seq(Field)
  BY SubjectTyped
<1>2. CASE fields = <<>>
  <2>1. result = Grow(s, 1, 1)
    BY <1>2 DEF SizeDefinition
  <2> QED
    BY <2>1, GrowStays DEF Alignments
<1>3. CASE fields # <<>>
  <2>1. result = Through(s, steps)
    BY <1>3 DEF SizeDefinition
  <2>2. ASSUME NEW i \in DOMAIN fields PROVE steps[i] \in SizerFurther
    <3> DEFINE g == [r \in Sizer |-> SizeField(nested, r, fields[i], Member(d, i))]
    <3>1. /\ fields[i] \in Field
          /\ fields[i].kind = "complex" => fields[i].target \in DOMAIN su.schema.plans
          /\ Member(d, i) \in Values
      BY SubjectTyped, ValueShapes
    <3> HIDE DEF fields
    <3>2. \A r \in Sizer : g[r] \in Sizer /\ Stays(r, g[r])
      BY <3>1, SizeFieldStays
    <3>3. steps[i] = g /\ g = [r \in Sizer |-> g[r]]
      OBVIOUS
    <3> HIDE DEF g, steps
    <3> QED
      BY <3>2, <3>3 DEF SizerFurther
  <2> HIDE DEF fields
  <2>3. steps \in [1..Len(fields) -> SizerFurther] /\ Len(fields) \in Int
    BY <1>1, <2>2
  <2> HIDE DEF steps
  <2>4. steps \in Seq(SizerFurther)
    BY <2>3, StepsTyped
  <2> QED
    BY <2>1, <2>4, ThroughStays
<1> QED
  BY <1>2, <1>3

\* What the walk that sizes does at each depth.
LEMMA SizesLevels ==
  ASSUME NEW su \in Subjects
  PROVE  \A n \in Nat :
           /\ Sizes(su)[n] \in SizerDeeper(su)
           /\ \A s \in Sizer, t \in DOMAIN su.schema.plans, d \in Values :
                Sizes(su)[n][<<s, t, d>>] =
                  IF n = 0 THEN Fail(s, "RecursionError")
                  ELSE SizeDefinition(su, Sizes(su)[n - 1], s, t, d)
<1> DEFINE Calls == SizerCalls(su)
           Step(h, n) ==
             [c \in Sizer \X (DOMAIN su.schema.plans) \X Values |->
                IF n = 0 THEN Fail(c[1], "RecursionError")
                ELSE SizeDefinition(su, h[n - 1], c[1], c[2], c[3])]
           level == CHOOSE h : h = [n \in Nat |-> Step(h, n)]
           first == [c \in Calls |-> Fail(c[1], "RecursionError")]
           F == [x \in Nat \X SizerDeeper(su) |->
                  [c \in Calls |-> SizeDefinition(su, x[2], c[1], c[2], c[3])]]
<1>1. \A c \in Calls : c[1] \in Sizer /\ c[2] \in DOMAIN su.schema.plans /\ c[3] \in Values
                       /\ c = <<c[1], c[2], c[3]>>
  BY DEF SizerCalls
<1>2. first \in SizerDeeper(su)
  <2>1. "RecursionError" \in WalkErrors \ {"none"}
    BY DEF WalkErrors
  <2>2. \A c \in Calls : Fail(c[1], "RecursionError") \in Sizer /\ Stays(c[1], Fail(c[1], "RecursionError"))
    BY <1>1, <2>1, SizerFails
  <2> QED
    BY <2>2 DEF SizerDeeper
<1>3. F \in [Nat \X SizerDeeper(su) -> SizerDeeper(su)]
  <2> SUFFICES ASSUME NEW x \in Nat \X SizerDeeper(su) PROVE F[x] \in SizerDeeper(su)
    OBVIOUS
  <2> DEFINE g == [c \in Calls |-> SizeDefinition(su, x[2], c[1], c[2], c[3])]
  <2>1. F[x] = g
    OBVIOUS
  <2>2. ASSUME NEW c \in Calls PROVE g[c] \in Sizer /\ Stays(c[1], g[c])
    BY <1>1, SizeDefinitionStays
  <2>3. g = [c \in Calls |-> g[c]]
    OBVIOUS
  <2> HIDE DEF g, F
  <2> QED
    BY <2>1, <2>2, <2>3 DEF SizerDeeper
<1>4. \A n \in Nat, h \in SizerDeeper(su) :
        F[<<n, h>>] = [c \in Calls |-> SizeDefinition(su, h, c[1], c[2], c[3])]
  OBVIOUS
<1> HIDE DEF F
<1>5. PICK g : Recursive(g, SizerDeeper(su), first, F)
  BY <1>2, <1>3, Recursion
<1>6. g \in [Nat -> SizerDeeper(su)] /\ g[0] = first
  BY <1>5 DEF Recursive
<1>7. ASSUME NEW n \in Nat PROVE g[n] = Step(g, n)
  <2>1. CASE n = 0
    BY <1>6, <2>1 DEF SizerCalls
  <2>2. CASE n # 0
    <3> DEFINE m == n - 1
    <3>1. m \in Nat /\ m + 1 = n
      BY <2>2
    <3>2. g[m + 1] = F[<<m, g[m]>>]
      BY <1>5, <3>1 DEF Recursive
    <3>3. g[m] \in SizerDeeper(su)
      BY <1>6, <3>1
    <3>4. g[n] = [c \in Calls |-> SizeDefinition(su, g[m], c[1], c[2], c[3])]
      BY <1>4, <3>1, <3>2, <3>3
    <3>5. Step(g, n) = [c \in Calls |-> SizeDefinition(su, g[m], c[1], c[2], c[3])]
      BY <2>2 DEF SizerCalls
    <3> QED
      BY <3>4, <3>5
  <2> QED
    BY <2>1, <2>2
<1>8. g = [n \in Nat |-> Step(g, n)]
  <2>1. g = [n \in Nat |-> g[n]]
    BY <1>6
  <2> HIDE DEF Step
  <2> QED
    BY <1>7, <2>1
<1>9. level = [n \in Nat |-> Step(level, n)]
  BY <1>8
<1>10. Sizes(su) = level
  BY DEF Sizes
<1> HIDE DEF level
<1>11. \A n \in Nat : level[n] = Step(level, n)
  <2> HIDE DEF Step
  <2> QED
    BY <1>9
<1> DEFINE T == {n \in Nat : level[n] = g[n]}
<1>12. 0 \in T
  BY <1>7, <1>11
<1>13. ASSUME NEW n \in Nat, n \in T PROVE n + 1 \in T
  <2>1. level[n] = g[n] /\ (n + 1) - 1 = n /\ n + 1 # 0
    BY <1>13
  <2>2. Step(level, n + 1) = Step(g, n + 1)
    BY <2>1
  <2> HIDE DEF Step
  <2> QED
    BY <1>7, <1>11, <2>2
<1> HIDE DEF T
<1>14. Nat \subseteq T
  BY <1>12, <1>13, Induct
<1>15. \A n \in Nat : level[n] \in SizerDeeper(su)
  BY <1>6, <1>14 DEF T
<1>16. ASSUME NEW n \in Nat, NEW s \in Sizer, NEW t \in DOMAIN su.schema.plans, NEW d \in Values
       PROVE  level[n][<<s, t, d>>] =
                IF n = 0 THEN Fail(s, "RecursionError")
                ELSE SizeDefinition(su, level[n - 1], s, t, d)
  BY <1>11
<1> QED
  BY <1>10, <1>15, <1>16

-----------------------------------------------------------------------------
(* What the calls keep *)

\* The size and the body are those of the subject, once there are any.
CodecInv ==
  /\ subject \in Subjects /\ schema = subject.schema
  /\ phase \in {"new", "sized", "refused", "written"}
  /\ calculated # -1 =>
       SizeOfMessage(subject).error = "none" /\ calculated = SizeOfMessage(subject).at + 4
  /\ body \in {Nothing, BodyOfMessage(subject)}
  /\ phase = "written" =>
       /\ body = BodyOfMessage(subject) /\ body.error = "none"
       /\ payload = [size |-> body.at + 4, reserved |-> 0, kind |-> 1]

LEMMA MessageTyped ==
  ASSUME NEW su \in Subjects
  PROVE  /\ SizeOfMessage(su) \in Sizer
         /\ BodyOfMessage(su) \in Writer /\ Laid(BodyOfMessage(su))
         /\ Grown(Nothing, BodyOfMessage(su))
<1>1. su.schema.root \in DOMAIN su.schema.plans /\ su.message \in Values
  BY SubjectsAssumption DEF WellFormed
<1>2. Unsized \in Sizer /\ Nothing \in Writer /\ Laid(Nothing)
  BY DEF Unsized, Nothing, Sizer, Writer, Laid, WalkErrors
<1>3. /\ <<Unsized, su.schema.root, su.message>> \in SizerCalls(su)
      /\ <<Nothing, su.schema.root, su.message>> \in WriterCalls(su)
  BY <1>1, <1>2 DEF SizerCalls, WriterCalls
<1>4. Sizes(su)[MaxNesting] \in SizerDeeper(su) /\ Writes(su)[MaxNesting] \in Deeper(su)
  BY NestingAssumption, SizesLevels, WritesLevels
<1>5. SizeOfMessage(su) \in Sizer
  BY <1>3, <1>4 DEF SizeOfMessage, SizerDeeper
<1>6. BodyOfMessage(su) \in Writer /\ Grown(Nothing, BodyOfMessage(su))
  BY <1>3, <1>4 DEF BodyOfMessage, Deeper
<1> QED
  BY <1>2, <1>5, <1>6 DEF Grown

LEMMA CodecInvImpliesTypeOK == CodecInv => CodecTypeOK
<1> SUFFICES ASSUME CodecInv PROVE CodecTypeOK
  OBVIOUS
<1>1. SizeOfMessage(subject) \in Sizer
  BY MessageTyped DEF CodecInv
<1>2. calculated \in Int
  BY <1>1 DEF CodecInv, Sizer
<1>3. Nothing \in Writer /\ Laid(Nothing)
  BY DEF Nothing, Writer, Laid, WalkErrors
<1>4. body \in Writer /\ Laid(body)
  BY <1>3, MessageTyped DEF CodecInv
<1> QED
  BY <1>2, <1>4 DEF CodecTypeOK, CodecInv, Laid, Writer

LEMMA CodecInvInit == CodecInit => CodecInv
BY DEF CodecInit, CodecInv

LEMMA NextConfigures == Next => schema' = schema /\ payload' = payload
BY DEF Next, Build, Open, Finish, Enter, TooDeep, EnterUnion, BadSwitch,
       EnterEmpty, EnterStruct, FieldStep, Wide, One, ReadCount, FixedCount, NegativeCount,
       ArrayStep, LengthExceeds, ReadBytes, EmptyArray, Bulk, StartLoop, ElementStep, EndLoop,
       Nested, Number, StringLength, Text, Seconds, Nanoseconds, Unrecognized, Truncated,
       Raise, Continue

LEMMA CodecInvStep == CodecInv /\ [CodecNext]_allVars => CodecInv'
<1> SUFFICES ASSUME CodecInv, [CodecNext]_allVars PROVE CodecInv'
  OBVIOUS
<1>1. CASE Calculate
  <2>1. UNCHANGED <<subject, schema, body, payload>>
    BY <1>1 DEF Calculate, vars
  <2>2. phase' \in {"sized", "refused"}
    BY <1>1 DEF Calculate
  <2>3. calculated' # -1 =>
          SizeOfMessage(subject).error = "none" /\ calculated' = SizeOfMessage(subject).at + 4
    BY <1>1 DEF Calculate
  <2> QED
    BY <2>1, <2>2, <2>3 DEF CodecInv
<1>2. CASE WriteMessage
  <2>1. UNCHANGED <<subject, schema, calculated>> /\ body' = BodyOfMessage(subject)
    BY <1>2 DEF WriteMessage
  <2>2. /\ phase' = IF body'.error = "none" THEN "written" ELSE "refused"
        /\ payload' = [size |-> body'.at + 4, reserved |-> 0, kind |-> 1]
    BY <1>2 DEF WriteMessage
  <2> QED
    BY <2>1, <2>2 DEF CodecInv
<1>3. CASE Decode
  <2>1. UNCHANGED <<subject, phase, calculated, body, schema, payload>>
    BY <1>3, NextConfigures DEF Decode, codecVars
  <2> QED
    BY <2>1 DEF CodecInv
<1>4. CASE UNCHANGED allVars
  BY <1>4 DEF CodecInv, allVars, vars, codecVars
<1> QED
  BY <1>1, <1>2, <1>3, <1>4 DEF CodecNext

\* Whatever is given to the writer, the lengths it writes lie where they are
\* aligned, in bytes it wrote, and nothing lies behind its end: the calls of
\* MessageWriter leave a body in order even when they refuse the message.
THEOREM CodecTypeCorrect == CodecSpec => []CodecTypeOK
<1>1. CodecInit => CodecInv
  BY CodecInvInit
<1>2. CodecInv /\ [CodecNext]_allVars => CodecInv'
  BY CodecInvStep
<1>3. CodecInv => CodecTypeOK
  BY CodecInvImpliesTypeOK
<1> QED
  BY <1>1, <1>2, <1>3, PTL DEF CodecSpec

-----------------------------------------------------------------------------
(* The two walks agree on the size *)

\* While neither has met an error nor what the model tells them apart by, the
\* walk that sizes stands where the writer does.
Agree(s, w) == s.error = "none" /\ w.error = "none" /\ w.lost = {} => s.at = w.at

LEMMA ThroughAgrees ==
  ASSUME NEW s \in Sizer, NEW w \in Writer, Agree(s, w),
         NEW ss \in Seq(SizerFurther), NEW ws \in Seq(Further), Len(ss) = Len(ws),
         \A k \in 1..Len(ws) : \A x \in Sizer, y \in Writer : Agree(x, y) => Agree(ss[k][x], ws[k][y])
  PROVE  Agree(Through(s, ss), Through(w, ws))
<1> DEFINE n == Len(ws)
<1>0. n \in Nat
  OBVIOUS
<1>1. PICK p : /\ Path(p, Sizer, s, ss) /\ Through(s, ss) = p[Len(ss)]
  BY SizerPath
<1>2. PICK q : /\ Path(q, Writer, w, ws) /\ Through(w, ws) = q[Len(ws)]
  BY WriterPath
<1> DEFINE T == {k \in Nat : k <= n => Agree(p[k], q[k])}
<1>3. 0 \in T
  BY <1>0, <1>1, <1>2 DEF Path
<1>4. ASSUME NEW k \in Nat, k \in T PROVE k + 1 \in T
  <2> SUFFICES ASSUME k + 1 <= n PROVE Agree(p[k + 1], q[k + 1])
    OBVIOUS
  <2>1. k \in 0..n /\ k + 1 \in 1..n /\ (k + 1) - 1 = k /\ k <= n
    BY <1>0
  <2>2. p[k + 1] = ss[k + 1][p[k]] /\ p[k] \in Sizer
    BY <1>1, <2>1 DEF Path
  <2>3. q[k + 1] = ws[k + 1][q[k]] /\ q[k] \in Writer
    BY <1>2, <2>1 DEF Path
  <2>4. Agree(p[k], q[k])
    BY <1>4, <2>1
  <2> QED
    BY <2>1, <2>2, <2>3, <2>4
<1> HIDE DEF T
<1>5. n \in T
  BY <1>0, <1>3, <1>4, Induct
<1> QED
  BY <1>0, <1>1, <1>2, <1>5 DEF T

\* What a put does, when there was no error.
LEMMA PutAdds ==
  ASSUME NEW w \in Writer, NEW n \in Nat, NEW a \in Alignments
  PROVE  /\ Put(w, n, a).error = w.error
         /\ Put(w, n, a).lost = w.lost
         /\ w.error = "none" =>
              /\ Put(w, n, a).at = Padded(w.at, a) + n
              /\ Put(w, n, a).put = w.put \cup Padded(w.at, a)..(Padded(w.at, a) + n - 1)
BY DEF Put, Writer

LEMMA PaddedOnce ==
  /\ \A at \in Nat : Padded(at, 1) = at
  /\ \A at \in Nat, a \in Alignments : at % a = 0 => Padded(at, a) = at
<1>1. \A at \in Nat : Padded(at, 1) = at
  BY DEF Padded, Padding
<1>2. ASSUME NEW at \in Nat, NEW a \in Alignments, at % a = 0 PROVE Padded(at, a) = at
  <2>1. CASE a = 1
    BY <1>1, <2>1
  <2>2. CASE a = 2
    BY <1>2, <2>2 DEF Padded, Padding
  <2>3. CASE a = 4
    BY <1>2, <2>3 DEF Padded, Padding
  <2>4. CASE a = 8
    BY <1>2, <2>4 DEF Padded, Padding
  <2> QED
    BY <2>1, <2>2, <2>3, <2>4 DEF Alignments
<1> QED
  BY <1>1, <1>2

\* A length and as many bytes as it says.
LEMMA PutTextAdds ==
  ASSUME NEW w \in Writer, NEW v \in Values, w.error = "none"
  PROVE  LET n == (IF v.is = "text" THEN v.bytes ELSE 0) + 1
         IN  /\ n \in Nat
             /\ PutText(w, v) = Put(PutLength(w, n), n, 1)
             /\ PutText(w, v).at = Padded(w.at, 4) + 4 + n
             /\ PutText(w, v).error = "none"
<1> DEFINE n == (IF v.is = "text" THEN v.bytes ELSE 0) + 1
<1>1. n \in Nat
  BY ValuesAssumption
<1>2. PutText(w, v) = Put(PutLength(w, n), n, 1)
  BY DEF PutText
<1> HIDE DEF n
<1>3. /\ PutLength(w, n) \in Writer /\ PutLength(w, n).error = "none"
      /\ PutLength(w, n).at = Padded(w.at, 4) + 4
  BY <1>1, PutLengthGrows
<1>4. PutLength(w, n).at \in Nat
  BY <1>3 DEF Writer
<1>5. Padded(PutLength(w, n).at, 1) = PutLength(w, n).at
  BY <1>4, PaddedOnce
<1>6. 1 \in Alignments
  BY DEF Alignments
<1>7. /\ Put(PutLength(w, n), n, 1).error = "none"
      /\ Put(PutLength(w, n), n, 1).at = Padded(PutLength(w, n).at, 1) + n
  BY <1>1, <1>3, <1>6, PutAdds
<1>8. PutText(w, v).at = Padded(w.at, 4) + 4 + n
  BY <1>2, <1>3, <1>5, <1>7
<1> QED
  BY <1>1, <1>2, <1>7, <1>8 DEF n

\* What is put for a number or a time takes the size that is counted for it.
LEMMA PutPrimitiveAdds ==
  ASSUME NEW w \in Writer, NEW kind \in SizedKinds, NEW v \in Values,
         PutPrimitive(w, kind, v).error = "none"
  PROVE  /\ w.error = "none"
         /\ PutPrimitive(w, kind, v).at = Padded(w.at, AlignmentOf(kind)) + SizeOf(kind)
         /\ kind \in NumberKinds => PutPrimitive(w, kind, v) = Put(w, SizeOf(kind), AlignmentOf(kind))
         /\ kind \in TimeKinds => PutPrimitive(w, kind, v) = Put(Put(w, 4, 4), 4, 4)
<1> DEFINE r == PutPrimitive(w, kind, v)
<1>1. PutPrimitive(w, kind, v) \in Writer /\ Grown(w, PutPrimitive(w, kind, v))
  BY PutPrimitiveGrows
<1>2. w.error = "none"
  BY <1>1 DEF Grown
<1>3. ~(kind \in SizedKinds \ {"bool"} /\ v.is = "huge")
  <2> SUFFICES ASSUME kind \in SizedKinds \ {"bool"} /\ v.is = "huge" PROVE FALSE
    OBVIOUS
  <2>1. r = Fail(w, Unfit(kind))
    BY DEF PutPrimitive
  <2> QED
    BY <2>1, FailGrows, KindsApart
<1>4. CASE kind \in TimeKinds
  <2>1. r = Put(Put(w, 4, 4), 4, 4)
    BY <1>3, <1>4, KindsApart DEF PutPrimitive, SizedKinds
  <2>2. SizeOf(kind) = 8 /\ AlignmentOf(kind) = 4 /\ kind \notin NumberKinds /\ 4 \in Alignments
    BY <1>4, KindsApart DEF SizeOf, AlignmentOf, Alignments
  <2>3. Put(w, 4, 4) \in Writer /\ Put(w, 4, 4).error = "none" /\ Put(w, 4, 4).at = Padded(w.at, 4) + 4
    BY <1>2, <2>2, PutGrows, PutAdds
  <2>4. r.at = Padded(Put(w, 4, 4).at, 4) + 4
    BY <2>1, <2>2, <2>3, PutAdds
  <2>5. Padded(w.at, 4) \in Nat /\ Padded(w.at, 4) % 4 = 0
    BY <2>2, PaddedAligned DEF Writer
  <2>6. Padded(Padded(w.at, 4) + 4, 4) = Padded(w.at, 4) + 4
    <3> DEFINE x == Padded(w.at, 4)
    <3> HIDE DEF x
    <3>1. x \in Nat /\ x % 4 = 0
      BY <2>5 DEF x
    <3>2. x + 4 \in Nat /\ (x + 4) % 4 = 0
      BY <3>1
    <3>3. Padded(x + 4, 4) = x + 4
      BY <2>2, <3>2, PaddedOnce
    <3> QED
      BY <3>3 DEF x
  <2>7. r.at = Padded(w.at, 4) + 8
    BY <2>3, <2>4, <2>5, <2>6
  <2> QED
    BY <1>2, <2>1, <2>2, <2>7
<1>5. CASE kind \in NumberKinds
  <2>1. r = Put(w, Widths[kind], Widths[kind])
    BY <1>3, <1>5, KindsApart DEF PutPrimitive, SizedKinds
  <2>2. SizeOf(kind) = Widths[kind] /\ AlignmentOf(kind) = Widths[kind] /\ kind \notin TimeKinds
    BY <1>5, KindsApart DEF SizeOf, AlignmentOf
  <2>3. Widths[kind] \in Nat /\ Widths[kind] \in Alignments
    BY <1>5, WidthsTyped DEF Alignments
  <2>4. r.at = Padded(w.at, Widths[kind]) + Widths[kind]
    BY <1>2, <2>1, <2>3, PutAdds
  <2> QED
    BY <1>2, <2>1, <2>2, <2>4
<1> QED
  BY <1>4, <1>5 DEF SizedKinds

\* As many items as were counted, of one size: the first is padded for, the
\* others need no padding.
LEMMA RunOfItems ==
  ASSUME NEW kind \in SizedKinds, NEW n \in Nat, NEW p \in [0..n -> Writer],
         NEW items \in [1..n -> Values],
         \A k \in 1..n : p[k] = PutPrimitive(p[k - 1], kind, items[k]),
         \A k \in 1..n : p[k].error = "none"
  PROVE  \A k \in 1..n :
           p[k].at = Padded(p[0].at, AlignmentOf(kind)) + k * SizeOf(kind)
<1> DEFINE a == AlignmentOf(kind)
           z == SizeOf(kind)
           from == Padded(p[0].at, a)
           T == {k \in Nat : k \in 1..n => p[k].at = from + k * z}
<1>1. <<a, z>> \in {<<1, 1>>, <<2, 2>>, <<4, 4>>, <<8, 8>>, <<4, 8>>}
  <2>1. CASE kind \in TimeKinds
    BY <2>1 DEF SizeOf, AlignmentOf
  <2>2. CASE kind \notin TimeKinds
    <3>1. kind \in NumberKinds
      BY <2>2 DEF SizedKinds
    <3>2. Widths[kind] \in {1, 2, 4, 8}
      BY <3>1, WidthsTyped
    <3> QED
      BY <2>2, <3>2 DEF SizeOf, AlignmentOf
  <2> QED
    BY <2>1, <2>2
<1>2. a \in Alignments /\ z \in {1, 2, 4, 8}
  BY <1>1 DEF Alignments
<1>3. from \in Nat /\ from % a = 0
  BY <1>2, PaddedAligned DEF Writer
<1>4. \A k \in 1..n : p[k].at = Padded(p[k - 1].at, a) + z
  BY PutPrimitiveAdds
<1> HIDE DEF a, z
<1>5. 0 \in T
  OBVIOUS
<1>6. ASSUME NEW k \in Nat, k \in T PROVE k + 1 \in T
  <2> SUFFICES ASSUME k + 1 \in 1..n PROVE p[k + 1].at = from + (k + 1) * z
    OBVIOUS
  <2>1. p[k + 1].at = Padded(p[k].at, a) + z
    BY <1>4
  <2>2. CASE k = 0
    <3>1. (k + 1) * z = z
      BY <1>2, <2>2
    <3> QED
      BY <2>1, <2>2, <3>1
  <2>3. CASE k # 0
    <3>1. p[k].at = from + k * z
      BY <1>6, <2>3
    <3> HIDE DEF from
    <3>2. from + k * z \in Nat /\ (from + k * z) % a = 0 /\ from + k * z + z = from + (k + 1) * z
      <4>1. from \in Nat /\ from % a = 0
        BY <1>3
      <4>2. CASE <<a, z>> = <<1, 1>>
        BY <4>1, <4>2
      <4>3. CASE <<a, z>> = <<2, 2>>
        BY <4>1, <4>3
      <4>4. CASE <<a, z>> = <<4, 4>>
        BY <4>1, <4>4
      <4>5. CASE <<a, z>> = <<8, 8>>
        BY <4>1, <4>5
      <4>6. CASE <<a, z>> = <<4, 8>>
        BY <4>1, <4>6
      <4> QED
        BY <1>1, <4>2, <4>3, <4>4, <4>5, <4>6
    <3>3. Padded(from + k * z, a) = from + k * z
      BY <1>2, <3>2, PaddedOnce
    <3> QED
      BY <2>1, <3>1, <3>2, <3>3
  <2> QED
    BY <2>2, <2>3
<1> HIDE DEF T, from
<1>7. Nat \subseteq T
  BY <1>5, <1>6, Induct
<1> QED
  BY <1>7 DEF T, from, a, z

\* What is followed stays as it is.
LEMMA FollowedSame ==
  ASSUME NEW w \in Writer, NEW byDecoder \in BOOLEAN, NEW bySizer \in BOOLEAN
  PROVE  LET r == Followed(w, byDecoder, bySizer)
         IN  /\ r.at = w.at /\ r.put = w.put /\ r.cells = w.cells /\ r.error = w.error
             /\ "decoder" \in r.lost <=> "decoder" \in w.lost \/ ~byDecoder
             /\ "sizer" \in r.lost <=> "sizer" \in w.lost \/ ~bySizer
             /\ byDecoder /\ bySizer => r = w
<1> DEFINE r == Followed(w, byDecoder, bySizer)
<1>1. r.at = w.at /\ r.put = w.put /\ r.cells = w.cells /\ r.error = w.error
  BY DEF Followed, Writer
<1>2. r.lost = w.lost \cup (IF byDecoder THEN {} ELSE {"decoder"})
                      \cup (IF bySizer THEN {} ELSE {"sizer"})
  BY DEF Followed, Writer
<1>3. "decoder" \in r.lost <=> "decoder" \in w.lost \/ ~byDecoder
  BY <1>2
<1>4. "sizer" \in r.lost <=> "sizer" \in w.lost \/ ~bySizer
  BY <1>2
<1>5. byDecoder /\ bySizer => r = w
  <2> SUFFICES ASSUME byDecoder, bySizer PROVE r = w
    OBVIOUS
  <2>1. w.lost \cup (IF byDecoder THEN {} ELSE {"decoder"})
               \cup (IF bySizer THEN {} ELSE {"sizer"}) = w.lost
    OBVIOUS
  <2>2. r = [w EXCEPT !.lost = w.lost]
    BY <2>1 DEF Followed
  <2> QED
    BY <2>2 DEF Writer
<1> QED
  BY <1>1, <1>3, <1>4, <1>5

LEMMA FollowedStands ==
  ASSUME NEW w \in Writer, NEW byDecoder, NEW bySizer
  PROVE  /\ Followed(w, byDecoder, bySizer).at = w.at
         /\ Followed(w, byDecoder, bySizer).error = w.error
BY DEF Followed, Writer

LEMMA ConditionsTyped ==
  ASSUME NEW f, NEW v, NEW default
  PROVE  /\ DecoderFollows(f, v, default) \in BOOLEAN
         /\ SizerFollows(f, v, default) \in BOOLEAN
         /\ \A kind : Suits(kind, v) \in BOOLEAN
BY DEF DecoderFollows, SizerFollows, Suits

\* An array that the decoder can follow has as many items as are counted.
LEMMA ItemsCounted ==
  ASSUME NEW f \in Field, NEW v \in Values, NEW default \in Values, f.kind # "complex",
         DecoderFollows(f, v, default), ~Misfit(f, v), f.count # -1
  PROVE  /\ Len(ItemsOf(f, v, default)) = ArrayLength(f, v)
         /\ f.count # -2 => ArrayLength(f, v) = f.count
<1>1. f.count \in Int /\ f.count >= -2
  BY DEF Field, DecoderFollows
<1>2. CASE f.count = -2
  BY <1>2 DEF DecoderFollows
<1>3. CASE f.count # -2
  <2>1. Len(ItemsOf(f, v, default)) = f.count
    BY <1>3 DEF DecoderFollows
  <2>2. f.count = 0 => LengthOf(v) = 0
    BY <1>3 DEF Misfit, LengthOf
  <2>3. ArrayLength(f, v) = f.count
    BY <1>3, <2>2 DEF ArrayLength
  <2> QED
    BY <2>1, <2>3
<1> QED
  BY <1>2, <1>3

LEMMA GrowAdds ==
  ASSUME NEW s \in Sizer, NEW n \in Int, NEW a \in Alignments, s.error = "none"
  PROVE  Grow(s, n, a).at = Padded(s.at, a) + n
BY DEF Grow, Sizer

LEMMA TextAgrees ==
  ASSUME NEW s \in Sizer, NEW w \in Writer, Agree(s, w), NEW v \in Values, v.is = "text",
         v.chars = v.bytes
  PROVE  Agree(SizeText(s, v), PutText(w, v))
<1> SUFFICES ASSUME SizeText(s, v).error = "none", PutText(w, v).error = "none",
                    PutText(w, v).lost = {}
             PROVE  SizeText(s, v).at = PutText(w, v).at
  BY DEF Agree
<1>1. Grown(w, PutText(w, v)) /\ Stays(s, SizeText(s, v))
  BY PutTextGrows, SizeTextStays
<1>2. s.error = "none" /\ w.error = "none" /\ s.at = w.at
  BY <1>1 DEF Grown, Stays, Agree
<1>3. PutText(w, v).at = Padded(w.at, 4) + 4 + (v.bytes + 1)
  BY <1>2, PutTextAdds
<1>4. v.bytes \in Nat /\ LengthOf(v) = v.bytes
  BY ValuesAssumption DEF LengthOf
<1>5. SizeText(s, v) = Grow(s, 4 + LengthOf(v) + 1, 4)
  BY DEF SizeText
<1>6. SizeText(s, v).at = Padded(s.at, 4) + (4 + LengthOf(v) + 1)
  BY <1>2, <1>4, <1>5, GrowAdds DEF Alignments
<1>7. Padded(w.at, 4) \in Nat
  BY PaddedAligned DEF Writer, Alignments
<1> QED
  BY <1>2, <1>3, <1>4, <1>6, <1>7

LEMMA AnnouncedAgrees ==
  ASSUME NEW s \in Sizer, NEW w \in Writer, Agree(s, w), NEW f \in Field, NEW v \in Values,
         NEW default \in Values
  PROVE  Agree(IF f.count = -2 THEN Grow(s, 4, 4) ELSE s, Announced(w, f, v, default))
<1> DEFINE flagged == Flagged(w, f, v, default)
           n == ArrayLength(f, v)
<1>1. flagged \in Writer /\ Grown(w, flagged) /\ flagged.at = w.at
  BY AnnouncedGrows, FollowedSame, ConditionsTyped DEF Flagged
<1>2. Agree(s, flagged)
  BY <1>1 DEF Agree, Grown, Writer
<1> HIDE DEF flagged
<1>3. CASE f.count = -2
  <2> SUFFICES ASSUME Grow(s, 4, 4).error = "none", PutLength(flagged, n).error = "none",
                      PutLength(flagged, n).lost = {}
               PROVE  Grow(s, 4, 4).at = PutLength(flagged, n).at
    BY <1>3 DEF Agree, Announced, flagged
  <2>1. n \in Nat
    BY <1>3, LengthTyped
  <2>2. Grown(flagged, PutLength(flagged, n)) /\ Stays(s, Grow(s, 4, 4))
    <3>1. Grown(flagged, PutLength(flagged, n))
      BY <1>1, <2>1, PutLengthGrows
    <3>2. 4 \in Alignments
      BY DEF Alignments
    <3> QED
      BY <3>1, <3>2, GrowStays
  <2>3. s.error = "none" /\ flagged.error = "none" /\ s.at = flagged.at
    BY <1>2, <2>2 DEF Grown, Stays, Agree
  <2>4. PutLength(flagged, n).at = Padded(flagged.at, 4) + 4
    BY <1>1, <2>1, <2>3, PutLengthGrows
  <2>5. Grow(s, 4, 4).at = Padded(s.at, 4) + 4
    BY <2>3, GrowAdds DEF Alignments
  <2> QED
    BY <2>3, <2>4, <2>5
<1>4. CASE f.count # -2
  BY <1>2, <1>4 DEF Announced, flagged
<1> QED
  BY <1>3, <1>4

\* The walks of the definitions one level further down agree.
Alike(su, gs, gw) ==
  \A s \in Sizer, w \in Writer, t \in DOMAIN su.schema.plans, d \in Values :
    Agree(s, w) => Agree(gs[<<s, t, d>>], gw[<<w, t, d>>])

LEMMA ArrayAgrees ==
  ASSUME NEW su \in Subjects, NEW gs \in SizerDeeper(su), NEW gw \in Deeper(su), Alike(su, gs, gw),
         NEW s \in Sizer, NEW w \in Writer, Agree(s, w), NEW f \in Field, f.count # -1,
         f.kind = "complex" => f.target \in DOMAIN su.schema.plans,
         NEW v \in Values, NEW default \in Values
  PROVE  Agree(SizeArray(gs, s, f, v), WriteArray(gw, w, f, v, default))
<1> DEFINE items == ItemsOf(f, v, default)
           n == ArrayLength(f, v)
           flagged == Flagged(w, f, v, default)
           announced == Announced(w, f, v, default)
           counted == IF f.count = -2 THEN Grow(s, 4, 4) ELSE s
           sr == SizeArray(gs, s, f, v)
           wr == WriteArray(gw, w, f, v, default)
<1>1. sr \in Sizer /\ Stays(s, sr) /\ wr \in Writer /\ Grown(w, wr)
  BY SizeArrayStays, WriteArrayGrows
<1> SUFFICES ASSUME sr.error = "none", wr.error = "none", wr.lost = {} PROVE Agree(sr, wr)
  BY DEF Agree
<1>2. ~Misfit(f, v)
  <2> SUFFICES ASSUME Misfit(f, v) PROVE FALSE
    OBVIOUS
  <2>1. wr = Fail(w, "ValueError") /\ "ValueError" \in WalkErrors \ {"none"}
    BY WriteArrayParts DEF WalkErrors
  <2> QED
    BY <2>1, FailGrows
<1>3. announced \in Writer /\ flagged \in Writer /\ Grown(announced, wr) /\ Grown(flagged, announced)
  BY <1>2, AnnouncedGrows, WriteArrayGrows
<1>4. announced.error = "none" /\ announced.lost = {} /\ flagged.lost = {}
  BY <1>3 DEF Grown
<1>5. DecoderFollows(f, v, default) /\ SizerFollows(f, v, default)
  BY <1>4, FollowedSame, ConditionsTyped DEF Flagged
<1>6. counted \in Sizer /\ Agree(counted, announced)
  BY AnnouncedAgrees, GrowStays DEF Alignments
<1>7. n \in Int
  BY LengthTyped
<1>8. items \in Seq(Values)
  BY ItemsTyped
<1>9. CASE f.kind = "complex"
  <2> DEFINE sizes == [k \in 1..n |-> [r \in Sizer |-> gs[<<r, f.target, Entry(v, k, None)>>]]]
             writes == ElementSteps(gw, f, v)
  <2>1. sr = Through(counted, sizes)
    BY <1>9, KindsApart DEF SizeArray
  <2>2. wr = Through(announced, writes)
    BY <1>2, <1>9, WriteArrayParts
  <2>3. writes \in Seq(Further) /\ Len(writes) = (IF n < 0 THEN 0 ELSE n)
    BY <1>9, ElementStepsTyped
  <2> HIDE DEF n
  <2>4. ASSUME NEW k \in 1..n PROVE Entry(v, k, None) \in Values
    BY ValueShapes, ValuesAssumption
  <2>5. ASSUME NEW k \in 1..n PROVE sizes[k] \in SizerFurther
    <3> DEFINE g == [r \in Sizer |-> gs[<<r, f.target, Entry(v, k, None)>>]]
    <3>1. ASSUME NEW r \in Sizer PROVE g[r] \in Sizer /\ Stays(r, g[r])
      <4>1. <<r, f.target, Entry(v, k, None)>> \in SizerCalls(su)
        BY <1>9, <2>4 DEF SizerCalls
      <4> QED
        BY <4>1 DEF SizerDeeper
    <3>2. sizes[k] = g /\ g = [r \in Sizer |-> g[r]]
      OBVIOUS
    <3> HIDE DEF g, sizes
    <3> QED
      BY <3>1, <3>2 DEF SizerFurther
  <2>6. sizes \in Seq(SizerFurther) /\ Len(sizes) = (IF n < 0 THEN 0 ELSE n)
    <3>1. sizes \in [1..n -> SizerFurther]
      BY <2>5
    <3> HIDE DEF sizes
    <3> QED
      BY <1>7, <3>1, StepsTyped
  <2>7. ASSUME NEW k \in 1..Len(writes), NEW x \in Sizer, NEW y \in Writer, Agree(x, y)
        PROVE  Agree(sizes[k][x], writes[k][y])
    <3>1. k \in 1..n
      BY <1>7, <2>3
    <3> DEFINE e == Entry(v, k, None)
               r == gw[<<y, f.target, e>>]
    <3>2. e \in Values
      BY <2>4, <3>1
    <3>3. sizes[k][x] = gs[<<x, f.target, e>>]
      BY <3>1
    <3>4. writes[k][y] = Followed(r, r.at > y.at, TRUE)
      BY <3>1 DEF ElementSteps, n
    <3>5. Agree(gs[<<x, f.target, e>>], r)
      BY <1>9, <2>7, <3>2 DEF Alike
    <3>6. <<y, f.target, e>> \in WriterCalls(su)
      BY <1>9, <3>2 DEF WriterCalls
    <3>7. r \in Writer
      BY <3>6 DEF Deeper
    <3> HIDE DEF r, e, writes, sizes
    <3>8. /\ Followed(r, r.at > y.at, TRUE).at = r.at
          /\ Followed(r, r.at > y.at, TRUE).error = r.error
          /\ Grown(r, Followed(r, r.at > y.at, TRUE))
      BY <3>7, FollowedStands, FollowedGrows
    <3> QED
      BY <3>3, <3>4, <3>5, <3>7, <3>8 DEF Agree, Grown
  <2> HIDE DEF sizes, writes, counted, announced
  <2>8. Agree(Through(counted, sizes), Through(announced, writes))
    BY <1>3, <1>6, <2>3, <2>6, <2>7, ThroughAgrees
  <2> QED
    BY <2>1, <2>2, <2>8
<1>10. CASE f.kind = "string"
  <2> DEFINE sizes == [k \in 1..n |-> [r \in Sizer |-> SizeText(r, Entry(v, k, EmptyText))]]
             writes == ItemSteps(f, items)
  <2>1. sr = Through(counted, sizes)
    BY <1>10, KindsApart DEF SizeArray
  <2>2. wr = Through(announced, writes)
    BY <1>2, <1>10, WriteArrayParts
  <2>3. writes \in Seq(Further) /\ Len(writes) = Len(items)
    BY <1>8, ItemStepsTyped
  <2>4. Len(items) = n /\ n \in Nat
    BY <1>2, <1>5, <1>8, <1>10, ItemsCounted
  <2>5. ASSUME NEW k \in 1..n PROVE Entry(v, k, EmptyText) = items[k]
    <3>1. k \in DOMAIN items
      BY <1>8, <2>4
    <3>2. CASE v.is = "list"
      <4>1. items = v.items
        BY <3>2 DEF ItemsOf
      <4> QED
        BY <3>1, <3>2, <4>1 DEF Entry
    <3>3. CASE v.is # "list"
      <4>1. items[k] = EmptyText
        BY <1>5, <1>10, <3>1, <3>3 DEF SizerFollows
      <4> QED
        BY <3>3, <4>1 DEF Entry
    <3> QED
      BY <3>2, <3>3
  <2>6. ASSUME NEW k \in 1..n
        PROVE  items[k] \in Values /\ items[k].is = "text" /\ items[k].chars = items[k].bytes
    BY <1>5, <1>8, <1>10, <2>4 DEF SizerFollows
  <2> HIDE DEF n, items
  <2>7. ASSUME NEW k \in 1..n PROVE sizes[k] \in SizerFurther
    <3> DEFINE g == [r \in Sizer |-> SizeText(r, Entry(v, k, EmptyText))]
    <3>1. \A r \in Sizer : g[r] \in Sizer /\ Stays(r, g[r])
      BY <2>5, <2>6, SizeTextStays
    <3>2. sizes[k] = g /\ g = [r \in Sizer |-> g[r]]
      OBVIOUS
    <3> HIDE DEF g, sizes
    <3> QED
      BY <3>1, <3>2 DEF SizerFurther
  <2>8. sizes \in Seq(SizerFurther) /\ Len(sizes) = n
    <3>1. sizes \in [1..n -> SizerFurther]
      BY <2>7
    <3> HIDE DEF sizes
    <3> QED
      BY <2>4, <3>1, StepsTyped
  <2>9. ASSUME NEW k \in 1..Len(writes), NEW x \in Sizer, NEW y \in Writer, Agree(x, y)
        PROVE  Agree(sizes[k][x], writes[k][y])
    <3>1. k \in 1..n /\ k \in DOMAIN items
      BY <1>8, <2>3, <2>4
    <3>2. sizes[k][x] = SizeText(x, items[k])
      BY <2>5, <3>1
    <3>3. writes[k][y] = PutPrimitive(y, f.kind, items[k])
      BY <3>1 DEF ItemSteps
    <3>4. PutPrimitive(y, f.kind, items[k]) = PutText(y, items[k])
      BY <1>10, KindsApart DEF PutPrimitive, SizedKinds
    <3> QED
      BY <2>6, <2>9, <3>1, <3>2, <3>3, <3>4, TextAgrees
  <2> HIDE DEF sizes, writes, counted, announced
  <2>10. Agree(Through(counted, sizes), Through(announced, writes))
    BY <1>3, <1>6, <2>3, <2>4, <2>8, <2>9, ThroughAgrees
  <2> QED
    BY <2>1, <2>2, <2>10
<1>11. CASE f.kind \in SizedKinds
  <2> DEFINE z == SizeOf(f.kind)
             a == AlignmentOf(f.kind)
             writes == ItemSteps(f, items)
  <2>1. sr = Grow(counted, n * z, a)
    BY <1>11, KindsApart DEF SizeArray
  <2>2. wr = Through(announced, writes)
    BY <1>2, <1>11, WriteArrayParts
  <2>3. writes \in Seq(Further) /\ Len(writes) = Len(items)
    BY <1>8, ItemStepsTyped
  <2>4. Len(items) = n /\ n \in Nat /\ n # 0
    <3>1. Len(items) = n
      BY <1>2, <1>5, <1>11, KindsApart, ItemsCounted
    <3>2. items # <<>>
      BY <1>5, <1>11 DEF SizerFollows
    <3> HIDE DEF items
    <3> QED
      BY <1>8, <3>1, <3>2
  <2>5. PICK p : /\ Path(p, Writer, announced, writes) /\ wr = p[Len(writes)]
                 /\ \A i, j \in 0..Len(writes) : i <= j => Grown(p[i], p[j])
    BY <1>3, <2>2, <2>3, WriterPath
  <2> HIDE DEF n, z, a
  <2>6. p \in [0..n -> Writer] /\ p[0] = announced /\ wr = p[n]
    BY <2>3, <2>4, <2>5 DEF Path
  <2>7. ASSUME NEW k \in 1..n PROVE p[k].error = "none"
    <3>1. Grown(p[k], p[n])
      BY <2>3, <2>4, <2>5
    <3> QED
      BY <2>6, <3>1 DEF Grown
  <2>8. ASSUME NEW k \in 1..n PROVE p[k] = PutPrimitive(p[k - 1], f.kind, items[k])
    <3>1. k \in DOMAIN items /\ p[k - 1] \in Writer
      BY <1>8, <2>4, <2>6
    <3>2. p[k] = writes[k][p[k - 1]]
      BY <2>3, <2>4, <2>5 DEF Path
    <3> QED
      BY <3>1, <3>2 DEF ItemSteps
  <2>9. items \in [1..n -> Values]
    BY <1>8, <2>4
  <2>10. wr.at = Padded(announced.at, a) + n * z
    <3> HIDE DEF items
    <3>1. p \in [0..n -> Writer] /\ n \in Nat
      BY <2>4, <2>6
    <3>2. \A k \in 1..n : p[k] = PutPrimitive(p[k - 1], f.kind, items[k])
      BY <2>8
    <3>3. \A k \in 1..n : p[k].error = "none"
      BY <2>7
    <3>4. \A k \in 1..n : p[k].at = Padded(p[0].at, AlignmentOf(f.kind)) + k * SizeOf(f.kind)
      BY <1>11, <2>9, <3>1, <3>2, <3>3, RunOfItems
    <3>5. n \in 1..n
      BY <2>4
    <3>6. p[n].at = Padded(p[0].at, a) + n * z
      BY <3>4, <3>5 DEF a, z
    <3> QED
      BY <2>6, <3>6
  <2>11. n * z \in Int /\ a \in Alignments
    BY <1>11, <2>4, SizesOfKinds DEF a, z
  <2>12. Stays(counted, Grow(counted, n * z, a))
    BY <1>6, <2>11, GrowStays
  <2>13. counted.error = "none"
    BY <2>1, <2>12 DEF Stays
  <2>14. sr.at = Padded(counted.at, a) + n * z
    BY <1>6, <2>1, <2>11, <2>13, GrowAdds
  <2>15. counted.at = announced.at
    BY <1>4, <1>6, <2>13 DEF Agree
  <2> QED
    BY <2>10, <2>14, <2>15 DEF Agree
<1>12. CASE f.kind \notin SizedKinds \cup {"string", "complex"}
  <2>1. wr = Fail(announced, Refusal(f.kind))
    BY <1>2, <1>12, WriteArrayParts
  <2> QED
    BY <1>3, <2>1, FailGrows, KindsApart
<1> QED
  BY <1>9, <1>10, <1>11, <1>12

LEMMA SingleAgrees ==
  ASSUME NEW su \in Subjects, NEW gs \in SizerDeeper(su), NEW s \in Sizer, NEW w \in Writer,
         Agree(s, w), NEW f \in Field, f.count = -1, f.kind # "complex",
         NEW v \in Values, NEW default \in Values
  PROVE  Agree(SizeField(gs, s, f, v), WriteSingle(w, f.kind, v, default))
<1> DEFINE kind == f.kind
           chosen == IF Suits(kind, v) THEN v
                     ELSE IF default.is # "none" THEN default ELSE ZeroOf(kind)
           sizes == IF v.is = "text" THEN v.chars = v.bytes ELSE chosen = EmptyText
           known == kind = "string" => sizes
           flagged == Followed(w, Suits(kind, chosen), known)
           sr == SizeField(gs, s, f, v)
           wr == WriteSingle(w, kind, v, default)
<1>1. wr = PutPrimitive(flagged, kind, chosen)
  BY DEF WriteSingle
<1>2. chosen \in Values
  BY ZeroTyped
<1>3. known \in BOOLEAN /\ Suits(kind, chosen) \in BOOLEAN
  BY ConditionsTyped
<1>4. kind = "string" =>
        /\ Suits(kind, v) <=> v.is = "text"
        /\ v.is = "text" => chosen = v
  BY KindsApart DEF Suits, NumberKinds, Widths
<1>5. kind = "string" /\ known =>
        /\ (IF v.is = "text" THEN v ELSE EmptyText) = chosen
        /\ chosen.is = "text" /\ chosen.chars = chosen.bytes
  <2> SUFFICES ASSUME kind = "string", known
               PROVE  /\ (IF v.is = "text" THEN v ELSE EmptyText) = chosen
                      /\ chosen.is = "text" /\ chosen.chars = chosen.bytes
    OBVIOUS
  <2>1. CASE v.is = "text"
    <3>1. v.chars = v.bytes /\ chosen = v
      BY <1>4, <2>1
    <3> HIDE DEF chosen
    <3> QED
      BY <2>1, <3>1
  <2>2. CASE v.is # "text"
    <3>1. chosen = EmptyText
      BY <2>2
    <3> HIDE DEF chosen
    <3> QED
      BY <2>2, <3>1 DEF EmptyText
  <2> QED
    BY <2>1, <2>2
<1> HIDE DEF chosen, known
<1>6. flagged \in Writer /\ Grown(w, flagged) /\ flagged.at = w.at
  BY <1>3, FollowedGrows, FollowedSame
<1>7. "sizer" \notin flagged.lost => known
  BY <1>3, FollowedSame
<1> HIDE DEF flagged
<1>8. wr \in Writer /\ Grown(flagged, wr)
  BY <1>1, <1>2, <1>6, PutPrimitiveGrows
<1> SUFFICES ASSUME wr.error = "none", wr.lost = {} PROVE Agree(sr, wr)
  BY DEF Agree
<1>9. known /\ Agree(s, flagged) /\ flagged.error = "none"
  BY <1>6, <1>7, <1>8 DEF Grown, Agree
<1>10. CASE kind = "string"
  <2>1. sr = SizeText(s, chosen)
    BY <1>5, <1>9, <1>10, KindsApart DEF SizeField
  <2>2. wr = PutText(flagged, chosen)
    BY <1>1, <1>10, KindsApart DEF PutPrimitive, SizedKinds
  <2> QED
    BY <1>2, <1>5, <1>6, <1>9, <1>10, <2>1, <2>2, TextAgrees
<1>11. CASE kind \in SizedKinds
  <2>1. sr = Grow(s, SizeOf(kind), AlignmentOf(kind))
    BY <1>11, KindsApart DEF SizeField
  <2>2. wr.at = Padded(flagged.at, AlignmentOf(kind)) + SizeOf(kind)
    BY <1>1, <1>2, <1>6, <1>11, PutPrimitiveAdds
  <2>3. SizeOf(kind) \in Int /\ AlignmentOf(kind) \in Alignments
    BY <1>11, SizesOfKinds
  <2>4. Stays(s, sr) /\ (s.error = "none" => sr.at = Padded(s.at, AlignmentOf(kind)) + SizeOf(kind))
    BY <2>1, <2>3, GrowStays, GrowAdds
  <2>5. s.error = "none" => s.at = flagged.at
    BY <1>6, <1>8, <1>9 DEF Agree, Grown
  <2> QED
    BY <2>2, <2>4, <2>5 DEF Agree, Stays
<1>12. CASE kind \notin SizedKinds \cup {"string"}
  <2>1. wr = Fail(flagged, Refusal(kind))
    BY <1>1, <1>12 DEF PutPrimitive, SizedKinds
  <2> QED
    BY <1>6, <2>1, FailGrows, KindsApart
<1> QED
  BY <1>10, <1>11, <1>12

LEMMA FieldAgrees ==
  ASSUME NEW su \in Subjects, NEW gs \in SizerDeeper(su), NEW gw \in Deeper(su), Alike(su, gs, gw),
         NEW s \in Sizer, NEW w \in Writer, Agree(s, w), NEW f \in Field,
         f.kind = "complex" => f.target \in DOMAIN su.schema.plans,
         NEW v \in Values, NEW default \in Values
  PROVE  Agree(SizeField(gs, s, f, v), WriteField(gw, w, f, v, default))
<1>1. CASE f.count # -1
  <2>1. SizeField(gs, s, f, v) = SizeArray(gs, s, f, v)
    BY <1>1 DEF SizeField
  <2>2. WriteField(gw, w, f, v, default) = WriteArray(gw, w, f, v, default)
    BY <1>1 DEF WriteField
  <2> QED
    BY <1>1, <2>1, <2>2, ArrayAgrees
<1>2. CASE f.count = -1 /\ f.kind = "complex"
  <2>1. SizeField(gs, s, f, v) = gs[<<s, f.target, v>>]
    BY <1>2, KindsApart DEF SizeField
  <2>2. WriteField(gw, w, f, v, default) = gw[<<w, f.target, v>>]
    BY <1>2 DEF WriteField
  <2> QED
    BY <1>2, <2>1, <2>2 DEF Alike
<1>3. CASE f.count = -1 /\ f.kind # "complex"
  <2>1. WriteField(gw, w, f, v, default) = WriteSingle(w, f.kind, v, default)
    BY <1>3 DEF WriteField
  <2> QED
    BY <1>3, <2>1, SingleAgrees
<1> QED
  BY <1>1, <1>2, <1>3

\* The fields of a definition, one step each.
FieldSteps(su, nested, t, d) ==
  [i \in DOMAIN DefinitionOf(su, t) |->
    [r \in Writer |->
       WriteField(nested, r, DefinitionOf(su, t)[i], Member(d, i), DefaultOf(su, t, i))]]

LEMMA FieldStepsTyped ==
  ASSUME NEW su \in Subjects, NEW nested \in Deeper(su), NEW t \in DOMAIN su.schema.plans,
         NEW d \in Values
  PROVE  /\ FieldSteps(su, nested, t, d) \in Seq(Further)
         /\ Len(FieldSteps(su, nested, t, d)) = Len(DefinitionOf(su, t))
<1> DEFINE fields == DefinitionOf(su, t)
           steps == FieldSteps(su, nested, t, d)
<1>1. fields \in Seq(Field)
  BY SubjectTyped
<1>2. ASSUME NEW i \in DOMAIN fields PROVE steps[i] \in Further
  <2> DEFINE g == [r \in Writer |->
                     WriteField(nested, r, fields[i], Member(d, i), DefaultOf(su, t, i))]
  <2>1. steps[i] = g
    BY DEF FieldSteps
  <2>2. /\ fields[i] \in Field
        /\ fields[i].kind = "complex" => fields[i].target \in DOMAIN su.schema.plans
        /\ Member(d, i) \in Values /\ DefaultOf(su, t, i) \in Values
    BY SubjectTyped, ValueShapes
  <2> HIDE DEF fields, steps
  <2>3. \A r \in Writer : g[r] \in Writer /\ Grown(r, g[r])
    BY <2>2, WriteFieldGrows
  <2>4. g = [r \in Writer |-> g[r]]
    OBVIOUS
  <2> HIDE DEF g
  <2> QED
    BY <2>1, <2>3, <2>4 DEF Further
<1>3. DOMAIN fields = 1..Len(fields) /\ Len(fields) \in Int /\ Len(fields) >= 0
  BY <1>1
<1>4. steps = [i \in DOMAIN fields |-> steps[i]]
  BY DEF FieldSteps
<1> HIDE DEF steps, fields
<1>5. steps \in [1..Len(fields) -> Further]
  BY <1>2, <1>3, <1>4
<1>6. steps \in Seq(Further) /\ Len(steps) = Len(fields)
  BY <1>3, <1>5, StepsTyped
<1> QED
  BY <1>6 DEF steps, fields

LEMMA DefinitionAgrees ==
  ASSUME NEW su \in Subjects, NEW gs \in SizerDeeper(su), NEW gw \in Deeper(su), Alike(su, gs, gw),
         NEW s \in Sizer, NEW w \in Writer, Agree(s, w),
         NEW t \in DOMAIN su.schema.plans, NEW d \in Values
  PROVE  Agree(SizeDefinition(su, gs, s, t, d), WriteDefinition(su, gw, w, t, d))
<1> DEFINE fields == DefinitionOf(su, t)
           sizes == [i \in DOMAIN fields |->
                      [r \in Sizer |-> SizeField(gs, r, fields[i], Member(d, i))]]
           writes == FieldSteps(su, gw, t, d)
           sr == SizeDefinition(su, gs, s, t, d)
           wr == WriteDefinition(su, gw, w, t, d)
<1>1. fields \in Seq(Field)
  BY SubjectTyped
<1>2. CASE fields = <<>>
  <2> DEFINE b == ~su.schema.plans[t].union
             flagged == Followed(w, b, TRUE)
  <2>1. sr = Grow(s, 1, 1) /\ wr = Put(flagged, 1, 1)
    BY <1>2 DEF SizeDefinition, WriteDefinition
  <2>2. b \in BOOLEAN
    OBVIOUS
  <2> HIDE DEF b
  <2>3. flagged \in Writer /\ Grown(w, flagged) /\ flagged.at = w.at
    BY <2>2, FollowedGrows, FollowedSame
  <2> HIDE DEF flagged
  <2>4. 1 \in Alignments
    BY DEF Alignments
  <2>5. /\ Put(flagged, 1, 1).error = flagged.error /\ Put(flagged, 1, 1).lost = flagged.lost
        /\ flagged.error = "none" => Put(flagged, 1, 1).at = Padded(flagged.at, 1) + 1
    BY <2>3, <2>4, PutAdds
  <2>6. Stays(s, Grow(s, 1, 1)) /\ (s.error = "none" => Grow(s, 1, 1).at = Padded(s.at, 1) + 1)
    BY <2>4, GrowStays, GrowAdds
  <2> QED
    BY <2>1, <2>3, <2>5, <2>6 DEF Agree, Stays, Grown, Writer
<1>3. CASE fields # <<>>
  <2>1. sr = Through(s, sizes)
    BY <1>3 DEF SizeDefinition
  <2>2. wr = Through(w, writes)
    BY <1>3 DEF WriteDefinition, FieldSteps
  <2>3. writes \in Seq(Further) /\ Len(writes) = Len(fields)
    BY FieldStepsTyped
  <2>4. ASSUME NEW i \in DOMAIN fields
        PROVE  /\ fields[i] \in Field
               /\ fields[i].kind = "complex" => fields[i].target \in DOMAIN su.schema.plans
               /\ Member(d, i) \in Values /\ DefaultOf(su, t, i) \in Values
    BY SubjectTyped, ValueShapes
  <2>5. ASSUME NEW i \in DOMAIN fields PROVE sizes[i] \in SizerFurther
    <3> DEFINE g == [r \in Sizer |-> SizeField(gs, r, fields[i], Member(d, i))]
    <3>1. sizes[i] = g
      OBVIOUS
    <3> HIDE DEF fields, sizes
    <3>2. \A r \in Sizer : g[r] \in Sizer /\ Stays(r, g[r])
      BY <2>4, SizeFieldStays
    <3>3. g = [r \in Sizer |-> g[r]]
      OBVIOUS
    <3> HIDE DEF g
    <3> QED
      BY <3>1, <3>2, <3>3 DEF SizerFurther
  <2>6. ASSUME NEW k \in 1..Len(writes), NEW x \in Sizer, NEW y \in Writer, Agree(x, y)
        PROVE  Agree(sizes[k][x], writes[k][y])
    <3>1. k \in DOMAIN fields
      BY <1>1, <2>3
    <3>2. sizes[k][x] = SizeField(gs, x, fields[k], Member(d, k))
      BY <3>1
    <3>3. writes[k][y] = WriteField(gw, y, fields[k], Member(d, k), DefaultOf(su, t, k))
      BY <3>1 DEF FieldSteps
    <3> HIDE DEF fields, sizes, writes
    <3> QED
      BY <2>4, <2>6, <3>1, <3>2, <3>3, FieldAgrees
  <2>7. sizes = [i \in DOMAIN fields |-> sizes[i]] /\ DOMAIN fields = 1..Len(fields) /\ Len(fields) \in Nat
    BY <1>1
  <2> HIDE DEF sizes, writes, fields
  <2>8. sizes \in [1..Len(fields) -> SizerFurther]
    BY <2>5, <2>7
  <2>9. sizes \in Seq(SizerFurther) /\ Len(sizes) = Len(fields)
    BY <2>7, <2>8, StepsTyped
  <2>10. Agree(Through(s, sizes), Through(w, writes))
    BY <2>3, <2>6, <2>9, ThroughAgrees
  <2> QED
    BY <2>1, <2>2, <2>10
<1> QED
  BY <1>2, <1>3

LEMMA LevelsAgree ==
  ASSUME NEW su \in Subjects
  PROVE  \A n \in Nat : Alike(su, Sizes(su)[n], Writes(su)[n])
<1> DEFINE T == {n \in Nat : Alike(su, Sizes(su)[n], Writes(su)[n])}
<1>1. 0 \in T
  <2> SUFFICES ASSUME NEW s \in Sizer, NEW w \in Writer, NEW t \in DOMAIN su.schema.plans,
                      NEW d \in Values, Agree(s, w)
               PROVE  Agree(Sizes(su)[0][<<s, t, d>>], Writes(su)[0][<<w, t, d>>])
    BY DEF Alike
  <2>1. Writes(su)[0][<<w, t, d>>] = Fail(w, "RecursionError")
    BY WritesLevels
  <2>2. Fail(w, "RecursionError").error # "none"
    BY FailGrows DEF WalkErrors
  <2> QED
    BY <2>1, <2>2 DEF Agree
<1>2. ASSUME NEW n \in Nat, n \in T PROVE n + 1 \in T
  <2> SUFFICES ASSUME NEW s \in Sizer, NEW w \in Writer, NEW t \in DOMAIN su.schema.plans,
                      NEW d \in Values, Agree(s, w)
               PROVE  Agree(Sizes(su)[n + 1][<<s, t, d>>], Writes(su)[n + 1][<<w, t, d>>])
    BY DEF Alike
  <2> DEFINE b == MaxNesting - (n + 1) <= MaxDepth
             flagged == Followed(w, b, TRUE)
  <2>1. n + 1 \in Nat /\ n + 1 # 0 /\ (n + 1) - 1 = n
    OBVIOUS
  <2>2. Sizes(su)[n + 1][<<s, t, d>>] = SizeDefinition(su, Sizes(su)[n], s, t, d)
    BY <2>1, SizesLevels
  <2>3. Writes(su)[n + 1][<<w, t, d>>] = WriteDefinition(su, Writes(su)[n], flagged, t, d)
    BY <2>1, WritesLevels
  <2>4. b \in BOOLEAN
    BY NestingAssumption, LimitsAssumption
  <2> HIDE DEF b
  <2>5. flagged \in Writer /\ Grown(w, flagged) /\ flagged.at = w.at
    BY <2>4, FollowedGrows, FollowedSame
  <2> HIDE DEF flagged
  <2>6. Agree(s, flagged)
    BY <2>5 DEF Agree, Grown, Writer
  <2>7. Sizes(su)[n] \in SizerDeeper(su) /\ Writes(su)[n] \in Deeper(su)
    BY SizesLevels, WritesLevels
  <2>8. Alike(su, Sizes(su)[n], Writes(su)[n])
    BY <1>2
  <2> QED
    BY <2>2, <2>3, <2>5, <2>6, <2>7, <2>8, DefinitionAgrees
<1> HIDE DEF T
<1>3. Nat \subseteq T
  BY <1>1, <1>2, Induct
<1> QED
  BY <1>3 DEF T

LEMMA MessageAgrees ==
  ASSUME NEW su \in Subjects PROVE Agree(SizeOfMessage(su), BodyOfMessage(su))
<1>1. su.schema.root \in DOMAIN su.schema.plans /\ su.message \in Values
  BY SubjectsAssumption DEF WellFormed
<1>2. Unsized \in Sizer /\ Nothing \in Writer /\ Agree(Unsized, Nothing)
  BY DEF Unsized, Nothing, Sizer, Writer, Agree, WalkErrors
<1>3. Alike(su, Sizes(su)[MaxNesting], Writes(su)[MaxNesting])
  BY NestingAssumption, LevelsAgree
<1> QED
  BY <1>1, <1>2, <1>3 DEF Alike, SizeOfMessage, BodyOfMessage

\* calculate_byte_size returns the size of what write_message returns, for
\* every message, schema and nesting, unless the texts differ in characters and
\* bytes, an array is empty or a default stands in for a text.
THEOREM SizesHold == CodecSpec => []SizesAgree
<1>1. CodecInit => CodecInv
  BY CodecInvInit
<1>2. CodecInv /\ [CodecNext]_allVars => CodecInv'
  BY CodecInvStep
<1>3. CodecInv => SizesAgree
  <2> SUFFICES ASSUME CodecInv, phase = "written", calculated # -1, body.lost = {}
               PROVE  calculated = payload.size
    BY DEF SizesAgree
  <2>1. Agree(SizeOfMessage(subject), body)
    BY MessageAgrees DEF CodecInv
  <2> QED
    BY <2>1 DEF CodecInv, Agree
<1> QED
  BY <1>1, <1>2, <1>3, PTL DEF CodecSpec

-----------------------------------------------------------------------------
(* What is written for each call of the decoder *)

\* A message the decoder can follow, so far.
Clean(w) == w.error = "none" /\ "decoder" \notin w.lost

LEMMA CleanBefore ==
  ASSUME NEW a, NEW b, Grown(a, b), Clean(b) PROVE Clean(a)
BY DEF Grown, Clean

\* x and y are the writer before and after an element of an array, or the only
\* value of a field that is none.
Element(su, f, depth, x, y) ==
  /\ f.kind = "complex" =>
       /\ depth < MaxNesting
       /\ \E d \in Values : y = Writes(su)[MaxNesting - (depth + 1)][<<x, f.target, d>>]
  /\ f.kind # "complex" => \E item \in Values : y = PutPrimitive(x, f.kind, item)
  /\ f.count # -1 => x.at < y.at

Elements(su, f, depth, a, b, m) ==
  \E p \in [0..m -> Writer] :
    /\ p[0] = a /\ p[m] = b
    /\ \A k \in 1..m : Element(su, f, depth, p[k - 1], p[k])

\* A field of the definitions of su.
FieldOf(su, f) == f \in Field /\ (f.kind = "complex" => f.target \in DOMAIN su.schema.plans)

LEMMA ElementGrows ==
  ASSUME NEW su \in Subjects, NEW f, FieldOf(su, f), NEW depth \in Nat, NEW x \in Writer, NEW y,
         Element(su, f, depth, x, y)
  PROVE  y \in Writer /\ Grown(x, y)
<1>1. CASE f.kind = "complex"
  <2>1. PICK d \in Values : y = Writes(su)[MaxNesting - (depth + 1)][<<x, f.target, d>>]
    BY <1>1 DEF Element
  <2>2. MaxNesting - (depth + 1) \in Nat
    BY <1>1, NestingAssumption DEF Element
  <2>3. Writes(su)[MaxNesting - (depth + 1)] \in Deeper(su)
    BY <2>2, WritesLevels
  <2>4. <<x, f.target, d>> \in WriterCalls(su)
    BY <1>1 DEF WriterCalls, FieldOf
  <2> QED
    BY <2>1, <2>3, <2>4 DEF Deeper
<1>2. CASE f.kind # "complex"
  BY <1>2, PutPrimitiveGrows DEF Element
<1> QED
  BY <1>1, <1>2

\* All along the way to where the decoder can follow, it can.
LEMMA ChainClean ==
  ASSUME NEW su \in Subjects, NEW f, FieldOf(su, f), NEW depth \in Nat,
         NEW m \in Nat, NEW p \in [0..m -> Writer],
         \A k \in 1..m : Element(su, f, depth, p[k - 1], p[k]), Clean(p[m])
  PROVE  \A i \in 0..m : Clean(p[i]) /\ \A j \in 0..m : i <= j => Grown(p[i], p[j])
<1> DEFINE R == {c \in Writer \X Writer : Grown(c[1], c[2])}
<1>1. ASSUME NEW k \in 1..m PROVE <<p[k - 1], p[k]>> \in R
  <2>1. p[k - 1] \in Writer /\ p[k] \in Writer
    OBVIOUS
  <2>2. Grown(p[k - 1], p[k])
    BY <2>1, ElementGrows
  <2> QED
    BY <2>1, <2>2
<1>2. \A x \in Writer : <<x, x>> \in R
  BY GrownAgain
<1>3. \A x, y, z \in Writer : <<x, y>> \in R /\ <<y, z>> \in R => <<x, z>> \in R
  BY GrownAgain
<1> HIDE DEF R
<1>4. \A i, j \in 0..m : i <= j => <<p[i], p[j]>> \in R
  BY <1>1, <1>2, <1>3, ChainRelates
<1>5. \A i, j \in 0..m : i <= j => Grown(p[i], p[j])
  BY <1>4 DEF R
<1>6. ASSUME NEW i \in 0..m PROVE Clean(p[i])
  <2>1. Grown(p[i], p[m])
    BY <1>5
  <2> QED
    BY <2>1, CleanBefore
<1> QED
  BY <1>5, <1>6

LEMMA NoElements ==
  ASSUME NEW su, NEW f, NEW depth, NEW a, NEW b, Elements(su, f, depth, a, b, 0) PROVE a = b
BY DEF Elements

\* The first of several elements, and the others.
LEMMA FirstElement ==
  ASSUME NEW su \in Subjects, NEW f, FieldOf(su, f), NEW depth \in Nat, NEW a, NEW b,
         NEW m \in Nat \ {0}, Elements(su, f, depth, a, b, m), Clean(b)
  PROVE  \E x \in Writer : /\ Element(su, f, depth, a, x) /\ Grown(x, b) /\ Clean(x)
                           /\ Elements(su, f, depth, x, b, m - 1)
<1>1. PICK p \in [0..m -> Writer] :
        /\ p[0] = a /\ p[m] = b
        /\ \A k \in 1..m : Element(su, f, depth, p[k - 1], p[k])
  BY DEF Elements
<1>2. \A i \in 0..m : Clean(p[i]) /\ \A j \in 0..m : i <= j => Grown(p[i], p[j])
  BY <1>1, ChainClean
<1> DEFINE q == [k \in 0..(m - 1) |-> p[k + 1]]
<1>3. q \in [0..(m - 1) -> Writer] /\ q[0] = p[1] /\ q[m - 1] = b
  BY <1>1
<1>4. ASSUME NEW k \in 1..(m - 1) PROVE Element(su, f, depth, q[k - 1], q[k])
  <2>1. q[k - 1] = p[k] /\ q[k] = p[k + 1] /\ k + 1 \in 1..m /\ (k + 1) - 1 = k
    OBVIOUS
  <2> HIDE DEF q
  <2> QED
    BY <1>1, <2>1
<1> HIDE DEF q
<1>5. Elements(su, f, depth, p[1], b, m - 1)
  BY <1>3, <1>4 DEF Elements
<1>6. Element(su, f, depth, a, p[1])
  <2>1. 1 \in 1..m /\ 1 - 1 = 0
    OBVIOUS
  <2>2. Element(su, f, depth, p[1 - 1], p[1])
    BY <1>1, <2>1
  <2> QED
    BY <1>1, <2>1, <2>2
<1>7. p[1] \in Writer /\ Grown(p[1], b) /\ Clean(p[1])
  BY <1>1, <1>2
<1> QED
  BY <1>5, <1>6, <1>7

\* Each element of an array takes a byte at least.
LEMMA ElementsMove ==
  ASSUME NEW su, NEW f, f.count # -1, NEW depth, NEW a, NEW b, NEW m \in Nat,
         Elements(su, f, depth, a, b, m)
  PROVE  a \in Writer /\ b \in Writer /\ a.at + m <= b.at
<1>1. PICK p \in [0..m -> Writer] :
        /\ p[0] = a /\ p[m] = b
        /\ \A k \in 1..m : Element(su, f, depth, p[k - 1], p[k])
  BY DEF Elements
<1> DEFINE T == {k \in Nat : k <= m => a.at + k <= p[k].at}
<1>2. \A k \in 0..m : p[k].at \in Nat
  BY DEF Writer
<1>3. 0 \in T
  BY <1>1, <1>2
<1>4. ASSUME NEW k \in Nat, k \in T PROVE k + 1 \in T
  <2> SUFFICES ASSUME k + 1 <= m PROVE a.at + (k + 1) <= p[k + 1].at
    OBVIOUS
  <2>1. k + 1 \in 1..m /\ (k + 1) - 1 = k /\ k \in 0..m /\ k + 1 \in 0..m
    OBVIOUS
  <2>2. p[k].at < p[k + 1].at
    BY <1>1, <2>1 DEF Element
  <2>3. a.at + k <= p[k].at
    BY <1>4, <2>1
  <2>4. a.at \in Nat
    BY <1>1, <1>2
  <2> QED
    BY <1>2, <2>1, <2>2, <2>3, <2>4
<1> HIDE DEF T
<1>5. m \in T
  BY <1>3, <1>4, Induct
<1> QED
  BY <1>1, <1>5 DEF T

LEMMA PutPrimitiveMoves ==
  ASSUME NEW w \in Writer, NEW kind, NEW v \in Values, PutPrimitive(w, kind, v).error = "none"
  PROVE  w.at < PutPrimitive(w, kind, v).at /\ kind \in SizedKinds \cup {"string"}
<1> DEFINE r == PutPrimitive(w, kind, v)
<1>1. w.error = "none" /\ w.at \in Nat
  BY PutPrimitiveGrows DEF Grown, Writer
<1>2. CASE kind \in SizedKinds
  <2>1. r.at = Padded(w.at, AlignmentOf(kind)) + SizeOf(kind)
    BY <1>2, PutPrimitiveAdds
  <2>2. SizeOf(kind) \in {1, 2, 4, 8} /\ AlignmentOf(kind) \in Alignments
    BY <1>2, SizesOfKinds
  <2>3. Padded(w.at, AlignmentOf(kind)) \in Nat /\ Padded(w.at, AlignmentOf(kind)) >= w.at
    BY <1>1, <2>2, PaddedAligned
  <2> QED
    BY <1>1, <1>2, <2>1, <2>2, <2>3
<1>3. CASE kind = "string"
  <2>1. r = PutText(w, v)
    BY <1>3, KindsApart DEF PutPrimitive, SizedKinds
  <2> DEFINE n == (IF v.is = "text" THEN v.bytes ELSE 0) + 1
  <2>2. n \in Nat /\ r.at = Padded(w.at, 4) + 4 + n
    BY <1>1, <2>1, PutTextAdds
  <2> HIDE DEF n
  <2>3. Padded(w.at, 4) \in Nat /\ Padded(w.at, 4) >= w.at
    BY <1>1, PaddedAligned DEF Alignments
  <2> QED
    BY <1>1, <1>3, <2>2, <2>3
<1>4. CASE kind \notin SizedKinds \cup {"string"}
  <2>1. r = Fail(w, Refusal(kind))
    BY <1>4 DEF PutPrimitive, SizedKinds
  <2> QED
    BY <2>1, FailGrows, KindsApart
<1> QED
  BY <1>2, <1>3, <1>4

\* Numbers in a row are the bytes of all of them, behind one padding.
LEMMA RunOfNumbers ==
  ASSUME NEW su \in Subjects, NEW f, FieldOf(su, f), f.kind \in NumberKinds, NEW depth \in Nat,
         NEW a, NEW b, NEW m \in Nat \ {0}, Elements(su, f, depth, a, b, m), Clean(b)
  PROVE  LET z == Widths[f.kind]
             from == Padded(a.at, z)
         IN  b.at = from + m * z /\ b.put = a.put \cup from..(from + m * z - 1)
<1> DEFINE z == Widths[f.kind]
           from == Padded(a.at, z)
<1>1. PICK p \in [0..m -> Writer] :
        /\ p[0] = a /\ p[m] = b
        /\ \A k \in 1..m : Element(su, f, depth, p[k - 1], p[k])
  BY DEF Elements
<1>2. \A i \in 0..m : Clean(p[i])
  BY <1>1, ChainClean
<1>3. z \in {1, 2, 4, 8} /\ z \in Alignments /\ f.kind # "complex" /\ f.kind \in SizedKinds
  BY WidthsTyped, KindsApart DEF Alignments, SizedKinds
<1>4. SizeOf(f.kind) = z /\ AlignmentOf(f.kind) = z
  BY KindsApart DEF SizeOf, AlignmentOf
<1> HIDE DEF z
<1>5. ASSUME NEW k \in 1..m
      PROVE  /\ p[k].at = Padded(p[k - 1].at, z) + z
             /\ p[k].put = p[k - 1].put
                  \cup Padded(p[k - 1].at, z)..(Padded(p[k - 1].at, z) + z - 1)
  <2>1. p[k - 1] \in Writer /\ k \in 0..m /\ k - 1 \in 0..m
    OBVIOUS
  <2>2. PICK item \in Values : p[k] = PutPrimitive(p[k - 1], f.kind, item)
    BY <1>1, <1>3 DEF Element
  <2>3. p[k].error = "none"
    BY <1>2, <2>1 DEF Clean
  <2>4. p[k] = Put(p[k - 1], z, z) /\ p[k - 1].error = "none"
    BY <1>3, <1>4, <2>1, <2>2, <2>3, PutPrimitiveAdds
  <2>5. z \in Nat
    BY <1>3
  <2> QED
    BY <1>3, <2>1, <2>4, <2>5, PutAdds
<1>6. from \in Nat /\ from % z = 0
  <2>1. a.at \in Nat
    BY <1>1 DEF Writer
  <2> QED
    BY <1>3, <2>1, PaddedAligned
<1> DEFINE T == {k \in Nat : k \in 1..m =>
                   p[k].at = from + k * z /\ p[k].put = a.put \cup from..(from + k * z - 1)}
<1>7. 0 \in T
  OBVIOUS
<1>8. ASSUME NEW k \in Nat, k \in T PROVE k + 1 \in T
  <2> SUFFICES ASSUME k + 1 \in 1..m
               PROVE  /\ p[k + 1].at = from + (k + 1) * z
                      /\ p[k + 1].put = a.put \cup from..(from + (k + 1) * z - 1)
    OBVIOUS
  <2>1. /\ p[k + 1].at = Padded(p[k].at, z) + z
        /\ p[k + 1].put = p[k].put \cup Padded(p[k].at, z)..(Padded(p[k].at, z) + z - 1)
    <3>1. (k + 1) - 1 = k
      OBVIOUS
    <3> QED
      BY <1>5, <3>1
  <2>2. CASE k = 0
    <3>1. (k + 1) * z = z
      BY <1>3, <2>2
    <3>2. Padded(p[k].at, z) = from
      BY <1>1, <2>2
    <3> HIDE DEF from
    <3> QED
      BY <1>1, <2>1, <2>2, <3>1, <3>2
  <2>3. CASE k # 0
    <3>1. k \in 1..m
      BY <2>3
    <3>2. p[k].at = from + k * z /\ p[k].put = a.put \cup from..(from + k * z - 1)
      BY <1>8, <3>1
    <3> HIDE DEF from
    <3>3. /\ from + k * z \in Nat /\ (from + k * z) % z = 0 /\ from + k * z + z = from + (k + 1) * z
          /\ k * z \in Nat
      <4>1. CASE z = 1
        BY <1>6, <4>1
      <4>2. CASE z = 2
        BY <1>6, <4>2
      <4>3. CASE z = 4
        BY <1>6, <4>3
      <4>4. CASE z = 8
        BY <1>6, <4>4
      <4> QED
        BY <1>3, <4>1, <4>2, <4>3, <4>4
    <3>4. Padded(p[k].at, z) = from + k * z
      BY <1>3, <3>2, <3>3, PaddedOnce
    <3> DEFINE mid == k * z
               all == (k + 1) * z
    <3>5. mid \in Nat /\ all = mid + z /\ z \in Nat
      BY <1>3, <1>6, <3>3
    <3> HIDE DEF mid, all
    <3>6. from..(from + mid - 1) \cup (from + mid)..(from + mid + z - 1) = from..(from + all - 1)
      BY <1>6, <3>5
    <3>7. /\ p[k + 1].at = from + mid + z
          /\ p[k + 1].put = (a.put \cup from..(from + mid - 1)) \cup (from + mid)..(from + mid + z - 1)
      BY <2>1, <3>2, <3>4 DEF mid
    <3>8. p[k + 1].put = a.put \cup from..(from + all - 1)
      BY <3>6, <3>7
    <3>9. p[k + 1].at = from + all
      BY <1>6, <3>5, <3>7
    <3> QED
      BY <3>8, <3>9 DEF all
  <2> QED
    BY <2>2, <2>3
<1> HIDE DEF T
<1>9. m \in T
  BY <1>7, <1>8, Induct
<1> QED
  BY <1>1, <1>9 DEF T, z

\* The elements of an array that the decoder can follow are as many as were
\* announced, each of some size.
LEMMA ArrayOwed ==
  ASSUME NEW su \in Subjects, NEW f, FieldOf(su, f), f.count # -1, NEW depth \in Nat,
         depth < MaxNesting, NEW a \in Writer, NEW v \in Values, NEW default \in Values, NEW b,
         b = WriteArray(Writes(su)[MaxNesting - (depth + 1)], a, f, v, default), Clean(b)
  PROVE  LET n == ArrayLength(f, v)
             x == Announced(a, f, v, default)
         IN  /\ f.count >= -2 /\ f.kind \in SizedKinds \cup {"string", "complex"}
             /\ n \in Nat /\ (f.count # -2 => n = f.count)
             /\ x \in Writer /\ Grown(x, b) /\ Elements(su, f, depth, x, b, n)
<1> DEFINE n == ArrayLength(f, v)
           x == Announced(a, f, v, default)
           flagged == Flagged(a, f, v, default)
           nested == Writes(su)[MaxNesting - (depth + 1)]
           items == ItemsOf(f, v, default)
<1>1. f \in Field /\ nested \in Deeper(su)
  <2>1. MaxNesting - (depth + 1) \in Nat
    BY NestingAssumption
  <2> QED
    BY <2>1, WritesLevels DEF FieldOf
<1>2. ~Misfit(f, v)
  <2> SUFFICES ASSUME Misfit(f, v) PROVE FALSE
    OBVIOUS
  <2>1. b = Fail(a, "ValueError") /\ "ValueError" \in WalkErrors \ {"none"}
    BY WriteArrayParts DEF WalkErrors
  <2> QED
    BY <2>1, FailGrows DEF Clean
<1>3. x \in Writer /\ flagged \in Writer /\ Grown(flagged, x) /\ Grown(x, b) /\ b \in Writer
  BY <1>1, <1>2, AnnouncedGrows, WriteArrayGrows DEF FieldOf
<1>4. DecoderFollows(f, v, default)
  <2>1. Clean(flagged)
    BY <1>3, CleanBefore
  <2> QED
    BY <2>1, FollowedSame, ConditionsTyped DEF Flagged, Clean
<1>5. f.count >= -2 /\ n \in Nat
  BY <1>1, <1>4, LengthTyped DEF DecoderFollows
<1>6. f.count # -2 => n = f.count
  <2> SUFFICES ASSUME f.count # -2 PROVE n = f.count
    OBVIOUS
  <2>1. f.count = 0 => LengthOf(v) = 0
    BY <1>2 DEF Misfit, LengthOf
  <2> QED
    BY <2>1 DEF ArrayLength
<1>7. CASE f.kind = "complex"
  <2> DEFINE steps == ElementSteps(nested, f, v)
  <2>1. b = Through(x, steps)
    BY <1>2, <1>7, WriteArrayParts
  <2>2. steps \in Seq(Further) /\ Len(steps) = n
    BY <1>1, <1>5, <1>7, ElementStepsTyped DEF FieldOf
  <2>3. PICK p : /\ Path(p, Writer, x, steps) /\ Through(x, steps) = p[Len(steps)]
                 /\ \A i, j \in 0..Len(steps) : i <= j => Grown(p[i], p[j])
    BY <1>3, <2>2, WriterPath
  <2>4. p \in [0..n -> Writer] /\ p[0] = x /\ p[n] = b
    BY <2>1, <2>2, <2>3 DEF Path
  <2>5. ASSUME NEW k \in 1..n PROVE Element(su, f, depth, p[k - 1], p[k])
    <3> DEFINE d == Entry(v, k, None)
               r == nested[<<p[k - 1], f.target, d>>]
    <3>1. p[k - 1] \in Writer /\ p[k] \in Writer /\ k \in 0..n
      BY <1>5, <2>4
    <3>2. p[k] = Followed(r, r.at > p[k - 1].at, TRUE)
      <4>1. p[k] = steps[k][p[k - 1]]
        BY <2>2, <2>3 DEF Path
      <4> QED
        BY <3>1, <4>1 DEF ElementSteps
    <3>3. d \in Values
      BY ValueShapes, ValuesAssumption
    <3>4. r \in Writer
      <4>1. <<p[k - 1], f.target, d>> \in WriterCalls(su)
        BY <1>7, <3>1, <3>3 DEF WriterCalls, FieldOf
      <4> QED
        BY <1>1, <4>1 DEF Deeper
    <3>5. Clean(p[k])
      BY <1>5, <2>2, <2>3, <2>4, <3>1, CleanBefore
    <3> DEFINE moved == r.at > p[k - 1].at
    <3>6. moved \in BOOLEAN
      BY <3>1, <3>4 DEF Writer
    <3>7. p[k] = Followed(r, moved, TRUE)
      BY <3>2
    <3> HIDE DEF moved
    <3>8. moved
      <4>1. "decoder" \notin Followed(r, moved, TRUE).lost
        BY <3>5, <3>7 DEF Clean
      <4> HIDE DEF r
      <4> QED
        BY <3>4, <3>6, <4>1, FollowedSame
    <3>9. p[k] = r
      BY <3>4, <3>6, <3>7, <3>8, FollowedSame
    <3>10. p[k - 1].at < p[k].at
      BY <3>1, <3>4, <3>8, <3>9 DEF moved, Writer
    <3> QED
      BY <1>7, <3>3, <3>9, <3>10 DEF Element
  <2> HIDE DEF n, x
  <2>6. Elements(su, f, depth, x, b, n)
    BY <2>4, <2>5 DEF Elements
  <2> QED
    BY <1>3, <1>5, <1>6, <1>7, <2>6 DEF n, x
<1>8. CASE f.kind \in SizedKinds \cup {"string"}
  <2> DEFINE steps == ItemSteps(f, items)
  <2>1. b = Through(x, steps)
    BY <1>2, <1>8, WriteArrayParts
  <2>2. items \in Seq(Values)
    BY <1>1, ItemsTyped
  <2>3. f.kind # "complex" /\ Len(items) = n
    BY <1>1, <1>2, <1>4, <1>8, KindsApart, ItemsCounted
  <2>4. steps \in Seq(Further) /\ Len(steps) = n
    BY <2>2, <2>3, ItemStepsTyped
  <2>5. PICK p : /\ Path(p, Writer, x, steps) /\ Through(x, steps) = p[Len(steps)]
                 /\ \A i, j \in 0..Len(steps) : i <= j => Grown(p[i], p[j])
    BY <1>3, <2>4, WriterPath
  <2>6. p \in [0..n -> Writer] /\ p[0] = x /\ p[n] = b
    BY <2>1, <2>4, <2>5 DEF Path
  <2>7. ASSUME NEW k \in 1..n PROVE Element(su, f, depth, p[k - 1], p[k])
    <3>1. p[k - 1] \in Writer /\ p[k] \in Writer /\ k \in 0..n /\ k \in DOMAIN items
      BY <1>5, <2>2, <2>3, <2>6
    <3>2. p[k] = PutPrimitive(p[k - 1], f.kind, items[k])
      <4>1. p[k] = steps[k][p[k - 1]]
        BY <2>4, <2>5 DEF Path
      <4> QED
        BY <3>1, <4>1 DEF ItemSteps
    <3>3. Clean(p[k])
      BY <1>5, <2>4, <2>5, <2>6, <3>1, CleanBefore
    <3>4. items[k] \in Values
      BY <2>2, <3>1
    <3>5. p[k - 1].at < p[k].at
      BY <3>1, <3>2, <3>3, <3>4, PutPrimitiveMoves DEF Clean
    <3> QED
      BY <2>3, <3>2, <3>4, <3>5 DEF Element
  <2> HIDE DEF n, x
  <2>8. Elements(su, f, depth, x, b, n)
    BY <2>6, <2>7 DEF Elements
  <2> QED
    BY <1>3, <1>5, <1>6, <1>8, <2>8 DEF n, x
<1>9. CASE f.kind \notin SizedKinds \cup {"string", "complex"}
  <2>1. b = Fail(x, Refusal(f.kind))
    BY <1>2, <1>9, WriteArrayParts
  <2> QED
    BY <1>3, <2>1, FailGrows, KindsApart DEF Clean
<1> QED
  BY <1>7, <1>8, <1>9

\* x is w, but for what is known of it.
Like(x, w) == x \in Writer /\ x.at = w.at /\ x.put = w.put /\ x.error = w.error

LEMMA FlaggedLike ==
  ASSUME NEW w \in Writer, NEW f, NEW v, NEW default
  PROVE  Like(Flagged(w, f, v, default), w)
BY FollowedGrows, FollowedSame, ConditionsTyped DEF Flagged, Like

\* What is written of a field is what the decoder expects of it: one element, a
\* fixed number, or their number and then as many.
LEMMA FieldOwed ==
  ASSUME NEW su \in Subjects, NEW f, FieldOf(su, f), NEW depth \in Nat, depth < MaxNesting,
         NEW a \in Writer, NEW v \in Values, NEW default \in Values, NEW b,
         b = WriteField(Writes(su)[MaxNesting - (depth + 1)], a, f, v, default), Clean(b)
  PROVE  /\ f.kind \in SizedKinds \cup {"string", "complex"}
         /\ f.count >= -2
         /\ f.count \in Nat \cup {-1} =>
              \E x \in Writer :
                /\ Like(x, a) /\ Grown(x, b)
                /\ Elements(su, f, depth, x, b, IF f.count = -1 THEN 1 ELSE f.count)
         /\ f.count = -2 =>
              \E x \in Writer, n \in Nat :
                /\ Like(x, a) /\ Grown(PutLength(x, n), b)
                /\ Elements(su, f, depth, PutLength(x, n), b, n)
<1> DEFINE nested == Writes(su)[MaxNesting - (depth + 1)]
<1>0. f.count \in Int /\ nested \in Deeper(su)
  <2>1. MaxNesting - (depth + 1) \in Nat
    BY NestingAssumption
  <2> QED
    BY <2>1, WritesLevels DEF FieldOf, Field
<1>1. CASE f.count # -1
  <2> DEFINE n == ArrayLength(f, v)
             x == Announced(a, f, v, default)
             flagged == Flagged(a, f, v, default)
  <2>1. b = WriteArray(nested, a, f, v, default)
    BY <1>1 DEF WriteField
  <2>2. /\ f.count >= -2 /\ f.kind \in SizedKinds \cup {"string", "complex"}
        /\ n \in Nat /\ (f.count # -2 => n = f.count)
        /\ x \in Writer /\ Grown(x, b) /\ Elements(su, f, depth, x, b, n)
    BY <1>1, <2>1, ArrayOwed
  <2>3. Like(flagged, a) /\ flagged \in Writer
    BY FlaggedLike DEF Like
  <2>4. x = IF f.count = -2 THEN PutLength(flagged, n) ELSE flagged
    BY DEF Announced
  <2> HIDE DEF x, flagged, n
  <2>5. CASE f.count = -2
    BY <2>2, <2>3, <2>4, <2>5
  <2>6. CASE f.count # -2
    BY <1>1, <2>2, <2>3, <2>4, <2>6
  <2> QED
    BY <2>5, <2>6
<1>2. CASE f.count = -1 /\ f.kind = "complex"
  <2>1. b = nested[<<a, f.target, v>>]
    BY <1>2 DEF WriteField
  <2>2. Element(su, f, depth, a, b)
    BY <1>2, <2>1 DEF Element
  <2>3. b \in Writer /\ Grown(a, b)
    BY <2>2, ElementGrows
  <2> DEFINE p == [k \in 0..1 |-> IF k = 0 THEN a ELSE b]
  <2>4. p \in [0..1 -> Writer] /\ p[0] = a /\ p[1] = b
    BY <2>3
  <2>5. \A k \in 1..1 : k = 1 /\ k - 1 = 0
    OBVIOUS
  <2> HIDE DEF p
  <2>6. Elements(su, f, depth, a, b, 1)
    BY <2>2, <2>4, <2>5 DEF Elements
  <2>7. Like(a, a)
    BY DEF Like
  <2> QED
    BY <1>2, <2>3, <2>6, <2>7
<1>3. CASE f.count = -1 /\ f.kind # "complex"
  <2> DEFINE kind == f.kind
             chosen == IF Suits(kind, v) THEN v
                       ELSE IF default.is # "none" THEN default ELSE ZeroOf(kind)
             sizes == IF v.is = "text" THEN v.chars = v.bytes ELSE chosen = EmptyText
             known == kind = "string" => sizes
             flagged == Followed(a, Suits(kind, chosen), known)
  <2>1. b = PutPrimitive(flagged, kind, chosen)
    BY <1>3 DEF WriteField, WriteSingle
  <2>2. chosen \in Values /\ known \in BOOLEAN /\ Suits(kind, chosen) \in BOOLEAN
    BY ZeroTyped, ConditionsTyped
  <2> HIDE DEF chosen, known
  <2>3. Like(flagged, a)
    BY <2>2, FollowedGrows, FollowedSame DEF Like
  <2>4. flagged \in Writer
    BY <2>3 DEF Like
  <2> HIDE DEF flagged
  <2>5. b \in Writer /\ Grown(flagged, b)
    BY <2>1, <2>2, <2>4, PutPrimitiveGrows
  <2>6. kind \in SizedKinds \cup {"string"}
    BY <2>1, <2>2, <2>4, PutPrimitiveMoves DEF Clean
  <2>7. Element(su, f, depth, flagged, b)
    BY <1>3, <2>1, <2>2 DEF Element
  <2> DEFINE p == [k \in 0..1 |-> IF k = 0 THEN flagged ELSE b]
  <2>8. p \in [0..1 -> Writer] /\ p[0] = flagged /\ p[1] = b
    BY <2>4, <2>5
  <2>9. \A k \in 1..1 : k = 1 /\ k - 1 = 0
    OBVIOUS
  <2> HIDE DEF p
  <2>10. Elements(su, f, depth, flagged, b, 1)
    BY <2>7, <2>8, <2>9 DEF Elements
  <2> QED
    BY <1>3, <2>3, <2>4, <2>5, <2>6, <2>10
<1> QED
  BY <1>1, <1>2, <1>3

\* A plan that the decoder enters is no deeper than it can go and no union, and
\* what was written of it is its fields one after the other.
LEMMA PlanOwed ==
  ASSUME NEW su \in Subjects, NEW t \in DOMAIN su.schema.plans, NEW depth \in Nat,
         depth <= MaxNesting, NEW a \in Writer, NEW d \in Values, NEW b,
         b = Writes(su)[MaxNesting - depth][<<a, t, d>>], Clean(b)
  PROVE  /\ depth < MaxNesting /\ depth <= MaxDepth
         /\ ~su.schema.plans[t].union
         /\ DefinitionOf(su, t) = <<>> => b = Put(a, 1, 1)
         /\ DefinitionOf(su, t) # <<>> =>
              \E p \in [0..Len(DefinitionOf(su, t)) -> Writer] :
                /\ p[0] = a /\ p[Len(DefinitionOf(su, t))] = b
                /\ \A i \in 1..Len(DefinitionOf(su, t)) :
                     /\ Grown(p[i - 1], b)
                     /\ \E v \in Values, default \in Values :
                          p[i] = WriteField(Writes(su)[MaxNesting - (depth + 1)], p[i - 1],
                                            DefinitionOf(su, t)[i], v, default)
<1> DEFINE n == MaxNesting - depth
           fields == DefinitionOf(su, t)
           shallow == MaxNesting - n <= MaxDepth
           flagged == Followed(a, shallow, TRUE)
<1>1. n \in Nat /\ depth \in Nat /\ MaxNesting \in Nat /\ MaxDepth \in Nat
  BY NestingAssumption, LimitsAssumption
<1>2. n # 0
  <2> SUFFICES ASSUME n = 0 PROVE FALSE
    OBVIOUS
  <2>1. b = Fail(a, "RecursionError")
    BY <1>1, WritesLevels
  <2>2. "RecursionError" \in WalkErrors \ {"none"}
    BY DEF WalkErrors
  <2> QED
    BY <2>1, <2>2, FailGrows DEF Clean
<1>3. n - 1 = MaxNesting - (depth + 1) /\ n - 1 \in Nat /\ depth < MaxNesting
  BY <1>1, <1>2
<1> DEFINE nested == Writes(su)[n - 1]
<1>4. b = WriteDefinition(su, nested, flagged, t, d)
  BY <1>1, <1>2, WritesLevels
<1>5. nested \in Deeper(su)
  BY <1>3, WritesLevels
<1>6. shallow \in BOOLEAN /\ (shallow => depth <= MaxDepth)
  BY <1>1
<1> HIDE DEF shallow, nested
<1>7. flagged \in Writer
  BY FollowedGrows
<1>8. Grown(flagged, b)
  BY <1>4, <1>5, <1>7, WriteDefinitionGrows
<1>9. Clean(flagged)
  BY <1>8, CleanBefore
<1>10. shallow /\ flagged = a
  BY <1>6, <1>9, FollowedSame DEF Clean
<1>11. b = WriteDefinition(su, nested, a, t, d)
  BY <1>4, <1>10
<1>12. CASE fields = <<>>
  <2> DEFINE apart == ~su.schema.plans[t].union
             x == Followed(a, apart, TRUE)
  <2>1. b = Put(x, 1, 1)
    BY <1>11, <1>12 DEF WriteDefinition
  <2>2. apart \in BOOLEAN
    OBVIOUS
  <2> HIDE DEF apart
  <2>3. x \in Writer
    BY FollowedGrows
  <2>4. x.lost = b.lost
    <3>1. 1 \in Alignments
      BY DEF Alignments
    <3> HIDE DEF x
    <3> QED
      BY <2>1, <2>3, <3>1, PutAdds
  <2>5. apart
    <3>1. "decoder" \notin x.lost
      BY <2>4 DEF Clean
    <3> QED
      BY <2>2, <3>1, FollowedSame
  <2>6. x = a
    BY <2>2, <2>5, FollowedSame
  <2> QED
    BY <1>3, <1>6, <1>10, <1>12, <2>1, <2>5, <2>6 DEF apart
<1>13. CASE fields # <<>>
  <2> DEFINE steps == FieldSteps(su, nested, t, d)
  <2>1. b = Through(a, steps)
    BY <1>11, <1>13 DEF WriteDefinition, FieldSteps
  <2>2. steps \in Seq(Further) /\ Len(steps) = Len(fields)
    BY <1>5, FieldStepsTyped
  <2>3. PICK p : /\ Path(p, Writer, a, steps) /\ Through(a, steps) = p[Len(steps)]
                 /\ \A i, j \in 0..Len(steps) : i <= j => Grown(p[i], p[j])
    BY <2>2, WriterPath
  <2>4. p \in [0..Len(fields) -> Writer] /\ p[0] = a /\ p[Len(fields)] = b
    BY <2>1, <2>2, <2>3 DEF Path
  <2>5. Len(fields) \in Nat /\ DOMAIN fields = 1..Len(fields)
    BY SubjectTyped
  <2>6. ASSUME NEW i \in 1..Len(fields)
        PROVE  /\ Grown(p[i - 1], b)
               /\ \E v \in Values, default \in Values :
                    p[i] = WriteField(nested, p[i - 1], fields[i], v, default)
    <3>1. i - 1 \in 0..Len(fields) /\ Len(fields) \in 0..Len(fields) /\ i - 1 <= Len(fields)
          /\ p[i - 1] \in Writer
      BY <2>4, <2>5
    <3>2. Grown(p[i - 1], b)
      BY <2>2, <2>3, <2>4, <3>1
    <3>3. p[i] = steps[i][p[i - 1]]
      BY <2>2, <2>3 DEF Path
    <3>4. p[i] = WriteField(nested, p[i - 1], fields[i], Member(d, i), DefaultOf(su, t, i))
      BY <2>5, <3>1, <3>3 DEF FieldSteps
    <3>5. Member(d, i) \in Values /\ DefaultOf(su, t, i) \in Values
      BY ValueShapes, SubjectTyped
    <3> QED
      BY <3>2, <3>4, <3>5
  <2>7. ~su.schema.plans[t].union
    BY <1>13, SubjectsAssumption DEF DefinitionOf
  <2>8. nested = Writes(su)[MaxNesting - (depth + 1)]
    BY <1>3 DEF nested
  <2>9. \E q \in [0..Len(fields) -> Writer] :
          /\ q[0] = a /\ q[Len(fields)] = b
          /\ \A i \in 1..Len(fields) :
               /\ Grown(q[i - 1], b)
               /\ \E v \in Values, default \in Values :
                    q[i] = WriteField(Writes(su)[MaxNesting - (depth + 1)], q[i - 1],
                                      fields[i], v, default)
    <3> HIDE DEF fields
    <3> QED
      BY <2>4, <2>6, <2>8
  <2> QED
    BY <1>3, <1>6, <1>10, <1>13, <2>7, <2>9
<1> QED
  BY <1>12, <1>13

-----------------------------------------------------------------------------
(* The decoder reads what was written *)

\* What the writer wrote for the call fr, between a and b.
Owes(su, fr, a, b) ==
  /\ fr.op = "plan" =>
       /\ fr.depth <= MaxNesting
       /\ \E d \in Values : b = Writes(su)[MaxNesting - fr.depth][<<a, fr.field.target, d>>]
  /\ fr.op = "field" =>
       /\ fr.depth < MaxNesting
       /\ \E v \in Values, default \in Values :
            b = WriteField(Writes(su)[MaxNesting - (fr.depth + 1)], a, fr.field, v, default)
  /\ fr.op = "array" => fr.field.count # -1 /\ Elements(su, fr.field, fr.depth, a, b, fr.n)
  /\ fr.op = "elems" =>
       fr.done <= fr.n /\ Elements(su, fr.field, fr.depth, a, b, fr.n - fr.done)
  /\ fr.op = "text" => b = Put(a, fr.n, 1)
  /\ fr.op = "nsec" => b = Put(a, 4, 4)

\* ws are the writer as it was when it wrote what the decoder reads now, what it
\* will read when the innermost call has returned, and so on to the end.
Reading(ws) ==
  /\ ws \in Seq(Writer) /\ Len(ws) = Len(stack) + 1
  /\ ws[1].at = offset - 4 /\ ws[1].put = BytesRead
  /\ ws[Len(ws)] = body
  /\ \A i \in 1..Len(stack) : Owes(subject, stack[i], ws[i], ws[i + 1])
  /\ \A i \in 1..Len(ws) : Grown(ws[i], body)

Followable == phase = "written" /\ "decoder" \notin body.lost

Live(ws) ==
  /\ CodecInv /\ TypeInv /\ Followable
  /\ outcome = "running" /\ align8 = 8 /\ cells = CellsOf(body)
  /\ Reading(ws)

LEMMA LiveBody ==
  ASSUME NEW ws, Live(ws)
  PROVE  /\ subject \in Subjects /\ schema = subject.schema
         /\ body \in Writer /\ Laid(body) /\ Clean(body) /\ payload.size = body.at + 4
         /\ offset \in Nat /\ offset >= 4 /\ spans \in Seq(Span)
         /\ ws[1] \in Writer /\ ws[1].at = offset - 4 /\ ws[1].put = BytesRead
         /\ Clean(ws[1]) /\ Grown(ws[1], body)
<1>1. subject \in Subjects /\ schema = subject.schema
  BY DEF Live, CodecInv
<1>2. body \in Writer /\ Laid(body) /\ Clean(body) /\ payload.size = body.at + 4
  BY <1>1, MessageTyped DEF Live, CodecInv, Clean, Followable
<1>3. offset \in Nat /\ offset >= 4 /\ spans \in Seq(Span)
  BY DEF Live, TypeInv, ReaderTyped
<1>4. stack \in Seq(GoodFrame)
  BY DEF Live, TypeInv
<1>5. 1 \in 1..Len(ws)
  BY <1>4 DEF Live, Reading
<1>6. ws[1] \in Writer /\ ws[1].at = offset - 4 /\ ws[1].put = BytesRead /\ Grown(ws[1], body)
  BY <1>5 DEF Live, Reading
<1> QED
  BY <1>1, <1>2, <1>3, <1>6, CleanBefore

LEMMA LiveTop ==
  ASSUME NEW ws, Live(ws), stack # <<>>
  PROVE  /\ FieldOf(subject, Top.field) /\ Top \in GoodFrame
         /\ Top.n \in Nat /\ Top.done \in Nat /\ Top.depth \in Nat
         /\ Top.op = "plan" => Top.field.target \in DOMAIN schema.plans
         /\ ws[2] \in Writer /\ Owes(subject, Top, ws[1], ws[2])
         /\ Grown(ws[2], body) /\ Clean(ws[2]) /\ ws[2].at <= body.at
<1>1. schema = subject.schema
  BY DEF Live, CodecInv
<1>2. stack \in Seq(GoodFrame) /\ TypeInv
  BY DEF Live, TypeInv
<1>3. /\ Top \in GoodFrame /\ GoodField(Top.field)
      /\ Top.n \in Nat /\ Top.done \in Nat /\ Top.depth \in Nat
  BY <1>2, TopGood
<1>4. FieldOf(subject, Top.field) /\ (Top.op = "plan" => Top.field.target \in DOMAIN schema.plans)
  BY <1>1, <1>3 DEF GoodField, FieldOf, GoodFrame
<1>5. Len(stack) \in Nat /\ Len(stack) # 0 /\ Top = stack[1]
  BY <1>2 DEF Top
<1>6. 2 \in 1..Len(ws) /\ 1 \in 1..Len(stack) /\ ws \in Seq(Writer)
  BY <1>5 DEF Live, Reading
<1>7. ws[2] \in Writer /\ Owes(subject, Top, ws[1], ws[2]) /\ Grown(ws[2], body)
  <2>1. Owes(subject, stack[1], ws[1], ws[1 + 1])
    BY <1>6 DEF Live, Reading
  <2>2. 1 + 1 = 2
    OBVIOUS
  <2> QED
    BY <1>5, <1>6, <2>1, <2>2 DEF Live, Reading
<1>8. Clean(body)
  BY LiveBody
<1> QED
  BY <1>3, <1>4, <1>7, <1>8, CleanBefore DEF Grown

\* A read that takes what was put.
LEMMA TakesPut ==
  ASSUME NEW ws, Live(ws), NEW n \in Nat, NEW al \in Alignments, NEW b \in Writer,
         b.at = Padded(ws[1].at, al) + n, b.at <= body.at,
         b.put = ws[1].put \cup Padded(ws[1].at, al)..(Padded(ws[1].at, al) + n - 1)
  PROVE  /\ Start(al) - 4 = Padded(ws[1].at, al)
         /\ Fits(n, al)
         /\ Take(n, al) => b.at = offset' - 4 /\ b.put = BytesRead'
<1> DEFINE from == Padded(ws[1].at, al)
<1>1. /\ offset \in Nat /\ offset >= 4 /\ ws[1].at = offset - 4 /\ ws[1].put = BytesRead
      /\ spans \in Seq(Span) /\ payload.size = body.at + 4 /\ body \in Writer
  BY LiveBody
<1>2. Start(al) \in Nat /\ Start(al) - 4 = from
  BY <1>1, StartInBody
<1>3. b.at \in Nat /\ body.at \in Nat
  BY <1>1 DEF Writer
<1> HIDE DEF from
<1>4. b.at = from + n
  BY DEF from
<1>5. Fits(n, al)
  BY <1>1, <1>2, <1>3, <1>4 DEF Fits
<1>6. Take(n, al) => b.at = offset' - 4 /\ b.put = BytesRead'
  <2>1. ReaderTyped
    BY DEF Live, TypeInv
  <2> QED
    BY <1>1, <2>1, TakeReads
<1> QED
  BY <1>2, <1>5, <1>6 DEF from

LEMMA Joined ==
  ASSUME NEW S, NEW s \in Seq(S), NEW t \in Seq(S)
  PROVE  s \o t \in Seq(S) /\ Len(s \o t) = Len(s) + Len(t)
OBVIOUS

\* The innermost call gives way to frames, for which xs were written.
LEMMA ReadsOn ==
  ASSUME NEW ws, Live(ws), stack # <<>>, NEW frames \in Seq(GoodFrame), Continue(frames),
         UNCHANGED codecVars, NEW xs \in Seq(Writer), Len(xs) = Len(frames),
         NEW ys, ys = Append(xs, ws[2]),
         \A i \in 1..Len(frames) : Owes(subject, frames[i], ys[i], ys[i + 1]) /\ Grown(xs[i], ws[2]),
         ys[1].at = offset' - 4, ys[1].put = BytesRead'
  PROVE  \E zs : Reading(zs)'
<1> DEFINE m == Len(frames)
           n == Len(stack)
           zs == xs \o Tail(ws)
<1>1. /\ ws \in Seq(Writer) /\ Len(ws) = n + 1 /\ ws[Len(ws)] = body
      /\ \A i \in 1..n : Owes(subject, stack[i], ws[i], ws[i + 1])
      /\ \A i \in 1..Len(ws) : Grown(ws[i], body)
  BY DEF Live, Reading
<1>2. stack \in Seq(GoodFrame) /\ n \in Nat /\ n # 0 /\ m \in Nat
  BY DEF Live, TypeInv
<1>3. stack' = frames \o Tail(stack) /\ UNCHANGED <<subject, body>>
  BY DEF Continue, codecVars
<1>4. Tail(stack) \in Seq(GoodFrame) /\ Len(Tail(stack)) = n - 1
      /\ \A i \in 1..(n - 1) : Tail(stack)[i] = stack[i + 1]
  BY <1>2
<1>5. /\ Len(stack') = m + n - 1
      /\ \A i \in 1..m : stack'[i] = frames[i]
      /\ \A i \in 1..(n - 1) : stack'[m + i] = stack[i + 1]
  <2>1. Len(stack') = m + (n - 1)
    BY <1>2, <1>3, <1>4
  <2>2. \A i \in 1..m : stack'[i] = frames[i]
    BY <1>2, <1>3, <1>4
  <2>3. \A i \in 1..(n - 1) : stack'[m + i] = Tail(stack)[i]
    BY <1>2, <1>3, <1>4
  <2> QED
    BY <1>2, <1>4, <2>1, <2>2, <2>3
<1>6. Tail(ws) \in Seq(Writer) /\ Len(Tail(ws)) = n /\ \A i \in 1..n : Tail(ws)[i] = ws[i + 1]
  BY <1>1, <1>2
<1>7. /\ zs \in Seq(Writer) /\ Len(zs) = m + n
      /\ \A i \in 1..m : zs[i] = xs[i]
      /\ \A i \in 1..n : zs[m + i] = ws[i + 1]
  <2>1. zs \in Seq(Writer) /\ Len(zs) = m + n
    <3> DEFINE rest == Tail(ws)
    <3>1. rest \in Seq(Writer) /\ Len(rest) = n
      BY <1>6
    <3> HIDE DEF rest
    <3>2. xs \in Seq(Writer) /\ Len(xs) = m
      OBVIOUS
    <3> HIDE DEF m, n
    <3>3. xs \o rest \in Seq(Writer) /\ Len(xs \o rest) = m + n
      BY <3>1, <3>2, Joined
    <3> QED
      BY <3>3 DEF rest
  <2>2. \A i \in 1..m : zs[i] = xs[i]
    BY <1>2, <1>6
  <2>3. \A i \in 1..n : zs[m + i] = Tail(ws)[i]
    BY <1>2, <1>6
  <2> QED
    BY <1>6, <2>1, <2>2, <2>3
<1>8. \A i \in 1..m : ys[i] = xs[i]
  OBVIOUS
<1>9. ys[m + 1] = ws[2]
  OBVIOUS
<1> HIDE DEF zs
<1>10. \A i \in 1..(m + 1) : ys[i] = zs[i]
  <2> SUFFICES ASSUME NEW i \in 1..(m + 1) PROVE ys[i] = zs[i]
    OBVIOUS
  <2>1. CASE i = m + 1
    <3>1. 1 \in 1..n /\ 1 + 1 = 2
      BY <1>2
    <3>2. zs[m + 1] = ws[2]
      BY <1>7, <3>1
    <3> QED
      BY <1>9, <2>1, <3>2
  <2>2. CASE i # m + 1
    <3>1. i \in 1..m
      BY <1>2, <2>2
    <3> QED
      BY <1>7, <1>8, <3>1
  <2> QED
    BY <2>1, <2>2
<1>11. zs[1].at = offset' - 4 /\ zs[1].put = BytesRead'
  <2>1. 1 \in 1..(m + 1)
    BY <1>2
  <2> QED
    BY <1>10, <2>1
<1>12. zs[Len(zs)] = body
  <2>1. n \in 1..n /\ zs[m + n] = ws[n + 1]
    BY <1>2, <1>7
  <2> QED
    BY <1>1, <1>7, <2>1
<1>13. ASSUME NEW i \in 1..(m + n - 1) PROVE Owes(subject, stack'[i], zs[i], zs[i + 1])
  <2>1. CASE i \in 1..m
    <3>1. i \in 1..(m + 1) /\ i + 1 \in 1..(m + 1)
      BY <1>2, <2>1
    <3>2. Owes(subject, frames[i], ys[i], ys[i + 1])
      BY <2>1
    <3> QED
      BY <1>5, <1>10, <2>1, <3>1, <3>2
  <2>2. CASE i \notin 1..m
    <3> DEFINE j == i - m
    <3>1. j \in 1..(n - 1) /\ j \in 1..n /\ j + 1 \in 1..n /\ m + j = i /\ m + (j + 1) = i + 1
      BY <1>2, <2>2
    <3> HIDE DEF j
    <3>2. stack'[i] = stack[j + 1] /\ zs[i] = ws[j + 1] /\ zs[i + 1] = ws[(j + 1) + 1]
      <4>1. stack'[m + j] = stack[j + 1]
        BY <1>5, <3>1
      <4>2. zs[m + j] = ws[j + 1]
        BY <1>7, <3>1
      <4>3. zs[m + (j + 1)] = ws[(j + 1) + 1]
        BY <1>7, <3>1
      <4> QED
        BY <3>1, <4>1, <4>2, <4>3
    <3>3. Owes(subject, stack[j + 1], ws[j + 1], ws[(j + 1) + 1])
      BY <1>1, <3>1
    <3> QED
      BY <3>2, <3>3
  <2> QED
    BY <2>1, <2>2
<1>14. ASSUME NEW i \in 1..(m + n) PROVE Grown(zs[i], body)
  <2>1. CASE i \in 1..m
    <3>1. xs[i] \in Writer /\ ws[2] \in Writer /\ body \in Writer /\ Grown(ws[2], body)
      BY <2>1, LiveTop, LiveBody
    <3>2. Grown(xs[i], ws[2])
      BY <2>1
    <3> QED
      BY <1>7, <2>1, <3>1, <3>2, GrownAgain
  <2>2. CASE i \notin 1..m
    <3> DEFINE j == i - m
    <3>1. j \in 1..n /\ m + j = i /\ j + 1 \in 1..Len(ws)
      BY <1>1, <1>2, <2>2
    <3> HIDE DEF j
    <3>2. zs[m + j] = ws[j + 1]
      BY <1>7, <3>1
    <3> QED
      BY <1>1, <3>1, <3>2
  <2> QED
    BY <2>1, <2>2
<1>15. Reading(zs)'
  <2>1. Len(zs) = Len(stack') + 1
    BY <1>2, <1>5, <1>7
  <2> QED
    BY <1>3, <1>5, <1>7, <1>11, <1>12, <1>13, <1>14, <2>1 DEF Reading
<1> QED
  BY <1>15
\* The walk goes on, and what is left to read is still what was written.
Onward ==
  /\ outcome' = "running" /\ align8' = 8 /\ cells' = CellsOf(body)'
  /\ \E zs : Reading(zs)'

LEMMA ReadsOnWithNothing ==
  ASSUME NEW ws, Live(ws), stack # <<>>, Continue(<<>>), UNCHANGED codecVars, cells' = cells,
         ws[2].at = offset' - 4, ws[2].put = BytesRead'
  PROVE  Onward
<1>1. \E zs : Reading(zs)'
  <2> DEFINE none == <<>>
             ys == Append(none, ws[2])
  <2>1. none \in Seq(GoodFrame) /\ none \in Seq(Writer) /\ Len(none) = 0
    OBVIOUS
  <2>2. ys[1] = ws[2]
    OBVIOUS
  <2>3. \A i \in 1..Len(none) : Owes(subject, none[i], ys[i], ys[i + 1]) /\ Grown(none[i], ws[2])
    BY <2>1
  <2> HIDE DEF ys
  <2>4. Continue(none) /\ ys = Append(none, ws[2])
    BY DEF ys
  <2> HIDE DEF none
  <2>5. Len(none) = Len(none) /\ ys[1].at = offset' - 4 /\ ys[1].put = BytesRead'
    BY <2>2
  <2> QED
    BY <2>1, <2>3, <2>4, <2>5, ReadsOn
<1> QED
  BY <1>1 DEF Onward, Live, Continue, codecVars, CellsOf

LEMMA ReadsOnWithOne ==
  ASSUME NEW ws, Live(ws), stack # <<>>, NEW fr \in GoodFrame, Continue(<<fr>>),
         UNCHANGED codecVars, cells' = cells,
         NEW x \in Writer, Owes(subject, fr, x, ws[2]), Grown(x, ws[2]),
         x.at = offset' - 4, x.put = BytesRead'
  PROVE  Onward
<1>1. \E zs : Reading(zs)'
  <2> DEFINE frames == <<fr>>
             xs == <<x>>
             ys == Append(xs, ws[2])
  <2>1. /\ frames \in Seq(GoodFrame) /\ xs \in Seq(Writer) /\ Len(xs) = 1 /\ Len(frames) = 1
        /\ frames[1] = fr /\ xs[1] = x
    OBVIOUS
  <2>2. ys[1] = x /\ ys[2] = ws[2]
    OBVIOUS
  <2> HIDE DEF ys
  <2>3. ys = Append(xs, ws[2]) /\ Continue(frames)
    BY DEF ys
  <2> HIDE DEF frames, xs
  <2>4. \A i \in 1..Len(frames) : Owes(subject, frames[i], ys[i], ys[i + 1]) /\ Grown(xs[i], ws[2])
    <3> SUFFICES ASSUME NEW i \in 1..Len(frames)
                 PROVE  Owes(subject, frames[i], ys[i], ys[i + 1]) /\ Grown(xs[i], ws[2])
      OBVIOUS
    <3>1. i = 1 /\ i + 1 = 2
      BY <2>1
    <3> QED
      BY <2>1, <2>2, <3>1
  <2>5. Len(xs) = Len(frames) /\ ys[1].at = offset' - 4 /\ ys[1].put = BytesRead'
    BY <2>1, <2>2
  <2> QED
    BY <2>1, <2>3, <2>4, <2>5, ReadsOn
<1> QED
  BY <1>1 DEF Onward, Live, Continue, codecVars, CellsOf

LEMMA ReadsOnWithTwo ==
  ASSUME NEW ws, Live(ws), stack # <<>>, NEW fr, NEW gr, <<fr, gr>> \in Seq(GoodFrame),
         Continue(<<fr, gr>>), UNCHANGED codecVars, cells' = cells,
         NEW x \in Writer, NEW y \in Writer,
         Owes(subject, fr, x, y), Owes(subject, gr, y, ws[2]), Grown(x, y), Grown(y, ws[2]),
         x.at = offset' - 4, x.put = BytesRead'
  PROVE  Onward
<1>0. Grown(x, ws[2])
  BY LiveTop, GrownAgain
<1>1. \E zs : Reading(zs)'
  <2> DEFINE frames == <<fr, gr>>
             xs == <<x, y>>
             ys == Append(xs, ws[2])
  <2>1. /\ frames \in Seq(GoodFrame) /\ xs \in Seq(Writer) /\ Len(xs) = 2 /\ Len(frames) = 2
        /\ frames[1] = fr /\ xs[1] = x /\ frames[2] = gr /\ xs[2] = y
    OBVIOUS
  <2>2. ys[1] = x /\ ys[2] = y /\ ys[3] = ws[2]
    OBVIOUS
  <2> HIDE DEF ys
  <2>3. ys = Append(xs, ws[2]) /\ Continue(frames)
    BY DEF ys
  <2> HIDE DEF frames, xs
  <2>4. \A i \in 1..Len(frames) : Owes(subject, frames[i], ys[i], ys[i + 1]) /\ Grown(xs[i], ws[2])
    <3> SUFFICES ASSUME NEW i \in 1..Len(frames)
                 PROVE  Owes(subject, frames[i], ys[i], ys[i + 1]) /\ Grown(xs[i], ws[2])
      OBVIOUS
    <3>1. CASE i = 1
      <4>1. i + 1 = 2
        BY <3>1
      <4> QED
        BY <1>0, <2>1, <2>2, <3>1, <4>1
    <3>2. CASE i = 2
      <4>1. i + 1 = 3
        BY <3>2
      <4> QED
        BY <2>1, <2>2, <3>2, <4>1
    <3> QED
      BY <2>1, <3>1, <3>2
  <2>5. Len(xs) = Len(frames) /\ ys[1].at = offset' - 4 /\ ys[1].put = BytesRead'
    BY <2>1, <2>2
  <2> QED
    BY <2>1, <2>3, <2>4, <2>5, ReadsOn
<1> QED
  BY <1>1 DEF Onward, Live, Continue, codecVars, CellsOf

\* Without a read the decoder stands where the writer stood.
LEMMA StandsStill ==
  ASSUME NEW ws, Live(ws), NoRead
  PROVE  ws[1].at = offset' - 4 /\ ws[1].put = BytesRead' /\ cells' = cells
<1>1. spans' = spans /\ offset' = offset /\ cells' = cells
  BY DEF NoRead
<1>2. BytesRead' = BytesRead
  BY <1>1 DEF BytesRead
<1> QED
  BY <1>1, <1>2, LiveBody

\* At the place of a length the decoder finds what the writer wrote there.
LEMMA FoundWritten ==
  ASSUME NEW ws, Live(ws), NEW b, Grown(b, body), NEW n \in Nat,
         <<Start(4) - 4, n>> \in b.cells
  PROVE  /\ \A choices : Found(4, choices) = {n}
         /\ TakeNumber(4, 4, n) => cells' = cells
<1> DEFINE at == Start(4) - 4
<1>1. <<at, n>> \in body.cells
  BY DEF Grown
<1>2. Laid(body) /\ cells = CellsOf(body)
  BY LiveBody DEF Live
<1> HIDE DEF at
<1>3. at \in DOMAIN cells /\ cells[at] = n
  <2>1. at \in {c[1] : c \in body.cells}
    BY <1>1
  <2>2. cells[at] = (CHOOSE c \in body.cells : c[1] = at)[2]
    BY <1>2, <2>1 DEF CellsOf
  <2> DEFINE e == CHOOSE c \in body.cells : c[1] = at
  <2>3. e \in body.cells /\ e[1] = at
    BY <1>1
  <2> HIDE DEF e
  <2>4. e[2] = <<at, n>>[2]
    BY <1>1, <1>2, <2>3 DEF Laid
  <2> QED
    BY <1>2, <2>1, <2>2, <2>4 DEF CellsOf, e
<1>4. \A choices : Found(4, choices) = {n}
  BY <1>3 DEF Found, at
<1>5. ASSUME TakeNumber(4, 4, n) PROVE cells' = cells
  <2>1. cells' = [x \in DOMAIN cells \cup {at} |-> IF x = at THEN n ELSE cells[x]]
    BY <1>5 DEF TakeNumber, at
  <2>2. DOMAIN cells \cup {at} = DOMAIN cells
    BY <1>3
  <2>3. cells = [x \in DOMAIN cells |-> cells[x]]
    BY <1>2 DEF CellsOf
  <2> QED
    BY <1>3, <2>1, <2>2, <2>3
<1> QED
  BY <1>4, <1>5

LEMMA EnterReads ==
  ASSUME NEW ws, Live(ws), Enter, UNCHANGED codecVars
  PROVE  Onward
<1>1. stack # <<>> /\ At("plan") /\ Top.op = "plan"
  BY DEF Enter, TooDeep, EnterUnion, BadSwitch, EnterEmpty, EnterStruct, InPlan, At, Top
<1> DEFINE t == Top.field.target
           depth == Top.depth
           b == ws[2]
<1>2. /\ subject \in Subjects /\ schema = subject.schema
      /\ t \in DOMAIN subject.schema.plans /\ depth \in Nat /\ b \in Writer
      /\ Owes(subject, Top, ws[1], b) /\ Clean(b) /\ Grown(b, body) /\ b.at <= body.at
      /\ GoodField(Top.field) /\ ws[1] \in Writer /\ Clean(ws[1])
  BY <1>1, LiveTop, LiveBody DEF GoodFrame
<1>3. /\ depth <= MaxNesting
      /\ \E d \in Values : b = Writes(subject)[MaxNesting - depth][<<ws[1], t, d>>]
  BY <1>1, <1>2 DEF Owes
<1>4. ThePlan = subject.schema.plans[t] /\ DefinitionOf(subject, t) = ThePlan.fields
  BY <1>2 DEF ThePlan, DefinitionOf
<1> DEFINE fields == ThePlan.fields
<1>5. /\ depth < MaxNesting /\ depth <= MaxDepth /\ ~ThePlan.union
      /\ fields = <<>> => b = Put(ws[1], 1, 1)
      /\ fields # <<>> =>
           \E p \in [0..Len(fields) -> Writer] :
             /\ p[0] = ws[1] /\ p[Len(fields)] = b
             /\ \A i \in 1..Len(fields) :
                  /\ Grown(p[i - 1], b)
                  /\ \E v \in Values, default \in Values :
                       p[i] = WriteField(Writes(subject)[MaxNesting - (depth + 1)], p[i - 1],
                                         fields[i], v, default)
  <2>1. PICK d \in Values : b = Writes(subject)[MaxNesting - depth][<<ws[1], t, d>>]
    BY <1>3
  <2> HIDE DEF t, depth, b
  <2> DEFINE defined == DefinitionOf(subject, t)
  <2>2. /\ depth < MaxNesting /\ depth <= MaxDepth /\ ~subject.schema.plans[t].union
        /\ defined = <<>> => b = Put(ws[1], 1, 1)
        /\ defined # <<>> =>
             \E p \in [0..Len(defined) -> Writer] :
               /\ p[0] = ws[1] /\ p[Len(defined)] = b
               /\ \A i \in 1..Len(defined) :
                    /\ Grown(p[i - 1], b)
                    /\ \E v \in Values, default \in Values :
                         p[i] = WriteField(Writes(subject)[MaxNesting - (depth + 1)], p[i - 1],
                                           defined[i], v, default)
    BY <1>2, <1>3, <2>1, PlanOwed
  <2>3. defined = fields
    BY <1>4
  <2> HIDE DEF defined, fields
  <2> QED
    BY <1>4, <2>2, <2>3
<1>6. CASE TooDeep
  BY <1>2, <1>5, <1>6, LimitsAssumption DEF TooDeep
<1>7. CASE EnterUnion \/ BadSwitch
  BY <1>5, <1>7 DEF EnterUnion, BadSwitch
<1>8. CASE EnterEmpty
  <2>1. b = Put(ws[1], 1, 1) /\ 1 \in Alignments /\ ws[1].error = "none"
    BY <1>2, <1>5, <1>8 DEF EnterEmpty, Alignments, Clean
  <2>2. /\ b.at = Padded(ws[1].at, 1) + 1
        /\ b.put = ws[1].put \cup Padded(ws[1].at, 1)..(Padded(ws[1].at, 1) + 1 - 1)
    BY <1>2, <2>1, PutAdds
  <2> HIDE DEF b
  <2>3. Fits(1, 1) /\ (Take(1, 1) => b.at = offset' - 4 /\ b.put = BytesRead')
    BY <1>2, <2>1, <2>2, TakesPut
  <2>4. Take(1, 1) /\ Continue(<<>>) /\ UNCHANGED cells
    BY <1>8, <2>3 DEF EnterEmpty, Truncated
  <2> QED
    BY <1>1, <2>3, <2>4, ReadsOnWithNothing DEF b
<1>9. CASE EnterStruct
  <2> DEFINE m == Len(fields)
             frames == Fields(fields)
  <2>1. fields \in Seq(Field) /\ \A i \in DOMAIN fields : GoodField(fields[i])
    <3>1. TypeInv
      BY DEF Live
    <3> QED
      BY <1>1, <3>1, PlanGood DEF Plan, Targets
  <2>2. frames \in Seq(GoodFrame) /\ Len(frames) = m
        /\ \A i \in 1..m : frames[i] = Call("field", fields[i], 0, depth)
    <3>1. frames \in Seq(GoodFrame)
      BY <1>1, <2>1, FieldsGood DEF Live
    <3> QED
      BY <2>1, <3>1 DEF Fields
  <2>3. m \in Nat /\ m # 0
    BY <1>9, <2>1 DEF EnterStruct
  <2>4. PICK p \in [0..m -> Writer] :
             /\ p[0] = ws[1] /\ p[m] = b
             /\ \A i \in 1..m :
                  /\ Grown(p[i - 1], b)
                  /\ \E v \in Values, default \in Values :
                       p[i] = WriteField(Writes(subject)[MaxNesting - (depth + 1)], p[i - 1],
                                         fields[i], v, default)
    BY <1>5, <1>9 DEF EnterStruct
  <2> DEFINE xs == [i \in 1..m |-> p[i - 1]]
             ys == Append(xs, b)
  <2>5. Continue(frames) /\ NoRead
    BY <1>9 DEF EnterStruct
  <2> HIDE DEF frames, m
  <2>6. xs \in Seq(Writer) /\ Len(xs) = m /\ \A i \in 1..m : xs[i] = p[i - 1]
    BY <2>3
  <2> HIDE DEF xs
  <2>7. \A i \in 1..(m + 1) : ys[i] = p[i - 1]
    <3>1. ys[m + 1] = p[m] /\ (m + 1) - 1 = m
      BY <2>3, <2>4, <2>6
    <3>2. \A i \in 1..m : ys[i] = xs[i]
      BY <2>6
    <3> HIDE DEF ys
    <3> QED
      BY <2>3, <2>6, <3>1, <3>2
  <2>8. ys = Append(xs, b)
    OBVIOUS
  <2> HIDE DEF ys
  <2>9. ASSUME NEW i \in 1..m
        PROVE  Owes(subject, frames[i], ys[i], ys[i + 1]) /\ Grown(xs[i], b)
    <3>1. i \in 1..(m + 1) /\ i + 1 \in 1..(m + 1) /\ (i + 1) - 1 = i
      BY <2>3
    <3>2. ys[i] = p[i - 1] /\ ys[i + 1] = p[i] /\ xs[i] = p[i - 1]
      BY <2>6, <2>7, <3>1
    <3>3. PICK v \in Values, default \in Values :
            p[i] = WriteField(Writes(subject)[MaxNesting - (depth + 1)], p[i - 1],
                              fields[i], v, default)
      BY <2>4
    <3>4. frames[i].op = "field" /\ frames[i].field = fields[i] /\ frames[i].depth = depth
      BY <2>2 DEF Call
    <3> HIDE DEF depth
    <3>5. Owes(subject, frames[i], p[i - 1], p[i])
      BY <1>5, <3>3, <3>4 DEF Owes
    <3> QED
      BY <2>4, <3>2, <3>5
  <2>10. ws[1].at = offset' - 4 /\ ws[1].put = BytesRead' /\ cells' = cells
    BY <2>5, StandsStill
  <2>11. ys[1] = ws[1]
    <3>1. 1 \in 1..(m + 1) /\ 1 - 1 = 0
      BY <2>3
    <3> QED
      BY <2>4, <2>7, <3>1
  <2>12. \E zs : Reading(zs)'
    <3>1. Len(xs) = Len(frames) /\ ys = Append(xs, ws[2])
      BY <2>2, <2>6, <2>8
    <3>2. \A i \in 1..Len(frames) :
            Owes(subject, frames[i], ys[i], ys[i + 1]) /\ Grown(xs[i], ws[2])
      BY <2>2, <2>9
    <3> QED
      BY <1>1, <2>2, <2>5, <2>6, <2>10, <2>11, <3>1, <3>2, ReadsOn
  <2> QED
    BY <2>5, <2>10, <2>12 DEF Onward, Live, Continue, codecVars, CellsOf
<1> QED
  BY <1>6, <1>7, <1>8, <1>9 DEF Enter

LEMMA FieldReads ==
  ASSUME NEW ws, Live(ws), FieldStep, UNCHANGED codecVars
  PROVE  Onward
<1>1. stack # <<>> /\ Top.op = "field"
  BY DEF FieldStep, Wide, One, ReadCount, FixedCount, NegativeCount, InField, At, Top
<1> DEFINE f == Top.field
           depth == Top.depth
           a == ws[1]
           b == ws[2]
<1>2. /\ subject \in Subjects /\ FieldOf(subject, f) /\ GoodField(f) /\ depth \in Nat
      /\ a \in Writer /\ b \in Writer /\ Clean(a) /\ Clean(b) /\ Grown(b, body)
      /\ b.at <= body.at /\ Owes(subject, Top, a, b) /\ body \in Writer
  BY <1>1, LiveTop, LiveBody DEF GoodFrame
<1>3. /\ depth < MaxNesting
      /\ \E v \in Values, default \in Values :
           b = WriteField(Writes(subject)[MaxNesting - (depth + 1)], a, f, v, default)
  BY <1>1, <1>2 DEF Owes
<1>4. /\ f.kind \in SizedKinds \cup {"string", "complex"}
      /\ f.count >= -2 /\ f.count \in Int
      /\ f.count \in Nat \cup {-1} =>
           \E x \in Writer :
             /\ Like(x, a) /\ Grown(x, b)
             /\ Elements(subject, f, depth, x, b, IF f.count = -1 THEN 1 ELSE f.count)
      /\ f.count = -2 =>
           \E x \in Writer, n \in Nat :
             /\ Like(x, a) /\ Grown(PutLength(x, n), b)
             /\ Elements(subject, f, depth, PutLength(x, n), b, n)
  <2>1. PICK v \in Values, default \in Values :
          b = WriteField(Writes(subject)[MaxNesting - (depth + 1)], a, f, v, default)
    BY <1>3
  <2>2. f.count \in Int
    BY <1>2 DEF FieldOf, Field
  <2> HIDE DEF f, depth, a, b
  <2> QED
    BY <1>2, <1>3, <2>1, <2>2, FieldOwed
<1> HIDE DEF f, depth, a, b
<1>5. CASE Wide
  BY <1>4, <1>5, KindsApart DEF Wide, SizedKinds, f
<1>6. CASE NegativeCount
  BY <1>4, <1>6 DEF NegativeCount, f
<1>7. CASE One
  <2> DEFINE fr == Call("elems", f, 1, depth)
  <2>1. f.count = -1 /\ Continue(<<fr>>) /\ NoRead
    BY <1>7 DEF One, f, depth
  <2>2. PICK x \in Writer : Like(x, a) /\ Grown(x, b) /\ Elements(subject, f, depth, x, b, 1)
    BY <1>4, <2>1
  <2>3. fr \in GoodFrame
    BY <1>2, CallGood
  <2>4. Owes(subject, fr, x, b)
    <3>1. fr.op = "elems" /\ fr.n - fr.done = 1 /\ fr.done <= fr.n /\ fr.field = f /\ fr.depth = depth
      BY DEF Call
    <3> HIDE DEF fr
    <3> QED
      BY <2>2, <3>1 DEF Owes
  <2>5. a.at = offset' - 4 /\ a.put = BytesRead' /\ cells' = cells
    BY <2>1, StandsStill DEF a
  <2> HIDE DEF fr
  <2> QED
    BY <1>1, <2>1, <2>2, <2>3, <2>4, <2>5, ReadsOnWithOne DEF b, Like
<1>8. CASE FixedCount
  <2> DEFINE fr == Call("array", f, f.count, depth)
  <2>1. f.count \in Nat /\ Continue(<<fr>>) /\ NoRead
    BY <1>4, <1>8 DEF FixedCount, f, depth
  <2>2. PICK x \in Writer :
          Like(x, a) /\ Grown(x, b) /\ Elements(subject, f, depth, x, b, f.count)
    BY <1>4, <2>1
  <2>3. fr \in GoodFrame
    BY <1>2, <2>1, CallGood
  <2>4. Owes(subject, fr, x, b)
    <3>1. fr.op = "array" /\ fr.n = f.count /\ f.count # -1 /\ fr.field = f /\ fr.depth = depth
      BY <2>1 DEF Call
    <3> HIDE DEF fr
    <3> QED
      BY <2>2, <3>1 DEF Owes
  <2>5. a.at = offset' - 4 /\ a.put = BytesRead' /\ cells' = cells
    BY <2>1, StandsStill DEF a
  <2> HIDE DEF fr
  <2> QED
    BY <1>1, <2>1, <2>2, <2>3, <2>4, <2>5, ReadsOnWithOne DEF b, Like
<1>9. CASE ReadCount
  <2>1. f.count = -2
    BY <1>9 DEF ReadCount, f
  <2>2. PICK x \in Writer, n \in Nat :
          /\ Like(x, a) /\ Grown(PutLength(x, n), b)
          /\ Elements(subject, f, depth, PutLength(x, n), b, n)
    BY <1>4, <2>1
  <2> DEFINE y == PutLength(x, n)
             fr == Call("array", f, n, depth)
  <2>3. 4 \in Alignments /\ x.error = "none" /\ x.at = a.at /\ x.put = a.put
    BY <1>2, <2>2 DEF Alignments, Like, Clean
  <2>4. /\ y \in Writer /\ y.at = Padded(a.at, 4) + 4
        /\ y.put = a.put \cup Padded(a.at, 4)..(Padded(a.at, 4) + 3)
        /\ <<Padded(a.at, 4), n>> \in y.cells
    BY <2>3, PutLengthGrows
  <2>5. Grown(y, b) /\ Grown(y, body)
    BY <1>2, <2>2, <2>4, GrownAgain
  <2> HIDE DEF y
  <2>6. y.at <= body.at /\ Padded(a.at, 4) + 4 - 1 = Padded(a.at, 4) + 3
    <3>1. Padded(a.at, 4) \in Nat
      BY <1>2, <2>3, PaddedAligned DEF Writer
    <3> QED
      BY <2>5, <3>1 DEF Grown
  <2>7. /\ Start(4) - 4 = Padded(a.at, 4)
        /\ Fits(4, 4)
        /\ Take(4, 4) => y.at = offset' - 4 /\ y.put = BytesRead'
    BY <2>3, <2>4, <2>6, TakesPut DEF a
  <2>8. /\ \A choices : Found(4, choices) = {n}
        /\ TakeNumber(4, 4, n) => cells' = cells
    BY <2>4, <2>5, <2>7, FoundWritten
  <2>9. TakeNumber(4, 4, n) /\ Continue(<<fr>>)
    BY <1>9, <2>7, <2>8 DEF ReadCount, Truncated, f, depth
  <2>10. fr \in GoodFrame
    BY <1>2, CallGood
  <2>11. Owes(subject, fr, y, b)
    <3>1. fr.op = "array" /\ fr.n = n /\ fr.field = f /\ fr.depth = depth
      BY DEF Call
    <3>2. Elements(subject, f, depth, y, b, n)
      BY <2>2 DEF y
    <3>3. f.count # -1
      BY <2>1
    <3> HIDE DEF fr
    <3> QED
      BY <3>1, <3>2, <3>3 DEF Owes
  <2>12. y.at = offset' - 4 /\ y.put = BytesRead' /\ cells' = cells
    BY <2>7, <2>8, <2>9 DEF TakeNumber
  <2> HIDE DEF fr
  <2> QED
    BY <1>1, <2>4, <2>5, <2>9, <2>10, <2>11, <2>12, ReadsOnWithOne DEF b
<1> QED
  BY <1>5, <1>6, <1>7, <1>8, <1>9 DEF FieldStep

LEMMA ArrayReads ==
  ASSUME NEW ws, Live(ws), ArrayStep, UNCHANGED codecVars
  PROVE  Onward
<1>1. stack # <<>> /\ Top.op = "array"
  BY DEF ArrayStep, LengthExceeds, ReadBytes, EmptyArray, Bulk, StartLoop, At, Top
<1> DEFINE f == Top.field
           depth == Top.depth
           n == Top.n
           a == ws[1]
           b == ws[2]
<1>2. /\ subject \in Subjects /\ FieldOf(subject, f) /\ GoodField(f) /\ depth \in Nat /\ n \in Nat
      /\ a \in Writer /\ b \in Writer /\ Clean(a) /\ Clean(b) /\ Grown(a, body)
      /\ b.at <= body.at /\ Owes(subject, Top, a, b) /\ body \in Writer
      /\ offset \in Nat /\ a.at = offset - 4 /\ payload.size = body.at + 4
  BY <1>1, LiveTop, LiveBody DEF GoodFrame
<1>3. f.count # -1 /\ Elements(subject, f, depth, a, b, n)
  BY <1>1, <1>2 DEF Owes
<1> HIDE DEF f, depth, n, a, b
<1>4. a.at \in Nat /\ b.at \in Nat /\ body.at \in Nat
  BY <1>2 DEF Writer
<1>5. a.at + n <= b.at
  BY <1>2, <1>3, ElementsMove
<1>6. n <= payload.size - offset
  BY <1>2, <1>4, <1>5
<1>7. n = 0 => a = b
  BY <1>3, NoElements
<1>8. ASSUME f.kind \in NumberKinds
      PROVE  LET z == Widths[f.kind]
             IN  /\ z \in Alignments /\ z * n \in Nat /\ Align(z) = z
                 /\ n > 0 =>
                      /\ b.at = Padded(a.at, z) + n * z
                      /\ b.put = a.put \cup Padded(a.at, z)..(Padded(a.at, z) + n * z - 1)
  <2> DEFINE z == Widths[f.kind]
  <2>1. z \in {1, 2, 4, 8}
    BY <1>8, WidthsTyped
  <2>2. Align(z) = z
    BY DEF Align, Live
  <2>3. n > 0 => /\ b.at = Padded(a.at, z) + n * z
                 /\ b.put = a.put \cup Padded(a.at, z)..(Padded(a.at, z) + n * z - 1)
    BY <1>2, <1>3, <1>8, RunOfNumbers
  <2> HIDE DEF z
  <2>4. z * n \in Nat
    BY <1>2, <2>1
  <2> QED
    BY <2>1, <2>2, <2>3, <2>4 DEF z, Alignments
<1>9. CASE LengthExceeds
  BY <1>2, <1>4, <1>6, <1>9 DEF LengthExceeds, Exceeds, n
<1>10. CASE ReadBytes
  <2>1. Take(n, 1) /\ Continue(<<>>) /\ cells' = cells /\ f.kind = "uint8"
    BY <1>10 DEF ReadBytes, AsBytes, n, f
  <2>2. Widths[f.kind] = 1 /\ f.kind \in NumberKinds
    BY <2>1 DEF Widths, NumberKinds
  <2>3. 1 \in Alignments /\ Padded(a.at, 1) = a.at
    BY <1>4, PaddedOnce DEF Alignments
  <2>4. b.at = Padded(a.at, 1) + n /\ b.put = a.put \cup Padded(a.at, 1)..(Padded(a.at, 1) + n - 1)
    <3>1. CASE n = 0
      <4>1. a.at..(a.at + 0 - 1) = {}
        BY <1>4
      <4> QED
        BY <1>4, <1>7, <2>3, <3>1, <4>1
    <3>2. CASE n # 0
      <4>1. n > 0 /\ n * 1 = n
        BY <1>2, <3>2
      <4> QED
        BY <1>8, <2>2, <4>1
    <3> QED
      BY <3>1, <3>2
  <2>5. b.at = offset' - 4 /\ b.put = BytesRead'
    BY <1>2, <2>1, <2>3, <2>4, TakesPut DEF a
  <2> QED
    BY <1>1, <2>1, <2>5, ReadsOnWithNothing DEF b
<1>11. CASE EmptyArray
  <2>1. n = 0 /\ Continue(<<>>) /\ NoRead
    BY <1>11 DEF EmptyArray, n
  <2>2. a.at = offset' - 4 /\ a.put = BytesRead' /\ cells' = cells
    BY <2>1, StandsStill DEF a
  <2> QED
    BY <1>1, <1>7, <2>1, <2>2, ReadsOnWithNothing DEF b
<1>12. CASE Bulk
  <2> DEFINE z == Widths[f.kind]
  <2>1. f.kind \in NumberKinds /\ n > 0
    BY <1>12 DEF Bulk, InBulk, f, n
  <2>2. /\ z \in Alignments /\ n * z \in Nat /\ Align(z) = z
        /\ b.at = Padded(a.at, z) + n * z
        /\ b.put = a.put \cup Padded(a.at, z)..(Padded(a.at, z) + n * z - 1)
    <3>1. z \in Nat /\ z * n = n * z
      BY <1>2, <1>8, <2>1 DEF Alignments
    <3> QED
      BY <1>8, <2>1, <3>1
  <2>3. \/ Truncated(n * z, Align(z))
        \/ Take(n * z, Align(z)) /\ Continue(<<>>) /\ UNCHANGED cells
    BY <1>12 DEF Bulk, f, n
  <2> DEFINE size == n * z
  <2>4. /\ size \in Nat
        /\ b.at = Padded(a.at, z) + size
        /\ b.put = a.put \cup Padded(a.at, z)..(Padded(a.at, z) + size - 1)
        /\ \/ Truncated(size, z)
           \/ Take(size, z) /\ Continue(<<>>) /\ UNCHANGED cells
    BY <2>2, <2>3
  <2> HIDE DEF size, z
  <2>5. /\ Fits(size, z)
        /\ Take(size, z) => b.at = offset' - 4 /\ b.put = BytesRead'
    BY <1>2, <2>2, <2>4, TakesPut DEF a
  <2>6. Take(size, z) /\ Continue(<<>>) /\ cells' = cells
    BY <2>4, <2>5 DEF Truncated
  <2> QED
    BY <1>1, <2>5, <2>6, ReadsOnWithNothing DEF b
<1>13. CASE StartLoop
  <2> DEFINE fr == Call("elems", f, n, depth)
  <2>1. Continue(<<fr>>) /\ NoRead
    BY <1>13 DEF StartLoop, f, n, depth
  <2>2. fr \in GoodFrame
    BY <1>2, CallGood
  <2>3. Owes(subject, fr, a, b)
    <3>1. fr.op = "elems" /\ fr.n - fr.done = n /\ fr.done <= fr.n /\ fr.field = f /\ fr.depth = depth
      BY <1>2 DEF Call
    <3> HIDE DEF fr
    <3> QED
      BY <1>3, <3>1 DEF Owes
  <2>4. a.at = offset' - 4 /\ a.put = BytesRead' /\ cells' = cells
    BY <2>1, StandsStill DEF a
  <2>5. Grown(a, b)
    <3>1. CASE n = 0
      BY <1>2, <1>7, <3>1, GrownAgain
    <3>2. CASE n # 0
      <4>1. n \in Nat \ {0}
        BY <1>2, <3>2
      <4>2. PICK x \in Writer : /\ Element(subject, f, depth, a, x) /\ Grown(x, b)
        BY <1>2, <1>3, <4>1, FirstElement
      <4>3. Grown(a, x)
        BY <1>2, <4>2, ElementGrows
      <4> QED
        BY <1>2, <4>2, <4>3, GrownAgain
    <3> QED
      BY <3>1, <3>2
  <2> HIDE DEF fr
  <2> QED
    BY <1>1, <1>2, <2>1, <2>2, <2>3, <2>4, <2>5, ReadsOnWithOne DEF b
<1> QED
  BY <1>9, <1>10, <1>11, <1>12, <1>13 DEF ArrayStep

LEMMA TakesPutOf ==
  ASSUME NEW ws, Live(ws), NEW n \in Nat, NEW al \in Alignments, NEW b,
         b = Put(ws[1], n, al), Grown(b, body)
  PROVE  /\ b \in Writer /\ Grown(ws[1], b)
         /\ Fits(n, al)
         /\ Take(n, al) => b.at = offset' - 4 /\ b.put = BytesRead'
<1>1. ws[1] \in Writer /\ ws[1].error = "none"
  BY LiveBody DEF Clean
<1>2. /\ b \in Writer /\ Grown(ws[1], b)
      /\ b.at = Padded(ws[1].at, al) + n
      /\ b.put = ws[1].put \cup Padded(ws[1].at, al)..(Padded(ws[1].at, al) + n - 1)
  BY <1>1, PutGrows, PutAdds
<1>3. b.at <= body.at
  BY DEF Grown
<1> QED
  BY <1>2, <1>3, TakesPut

\* The loop over the elements of an array, and what it calls.
LEMMA LoopReads ==
  ASSUME NEW ws, Live(ws), UNCHANGED codecVars,
         EndLoop \/ Nested \/ Number \/ StringLength \/ Seconds \/ Unrecognized
  PROVE  Onward
<1>1. stack # <<>> /\ Top.op = "elems"
  BY DEF EndLoop, Nested, Number, StringLength, Seconds, Unrecognized, InLoop, At, Top
<1> DEFINE f == Top.field
           depth == Top.depth
           n == Top.n
           done == Top.done
           a == ws[1]
           b == ws[2]
<1>2. /\ subject \in Subjects /\ FieldOf(subject, f) /\ GoodField(f) /\ depth \in Nat
      /\ n \in Nat /\ done \in Nat
      /\ a \in Writer /\ b \in Writer /\ Clean(a) /\ Clean(b) /\ Grown(a, body) /\ Grown(b, body)
      /\ Owes(subject, Top, a, b) /\ body \in Writer
  BY <1>1, LiveTop, LiveBody DEF GoodFrame
<1>3. done <= n /\ Elements(subject, f, depth, a, b, n - done)
  BY <1>1, <1>2 DEF Owes
<1>4. /\ Counted \in GoodFrame
      /\ \A op \in {"text", "nsec"}, m \in Nat : <<Inner(op, m), Counted>> \in Seq(GoodFrame)
      /\ f.kind = "complex" => <<Inner("plan", 0), Counted>> \in Seq(GoodFrame)
  <2>1. TypeInv
    BY DEF Live
  <2>2. <<Counted>> \in Seq(GoodFrame)
    BY <1>1, <2>1, LoopGood
  <2>3. Counted \in GoodFrame
    BY <2>2
  <2> QED
    BY <1>1, <2>1, <2>3, LoopGood
<1>5. /\ Counted.op = "elems" /\ Counted.field = f /\ Counted.depth = depth /\ Counted.n = n
      /\ Counted.done = done + 1
  <2>1. Top \in Frame
    BY <1>1, LiveTop DEF GoodFrame
  <2> QED
    BY <1>1, <2>1 DEF Counted, Frame
<1>6. ASSUME NEW op, NEW m
      PROVE  /\ Inner(op, m).op = op /\ Inner(op, m).field = f /\ Inner(op, m).depth = depth + 1
             /\ Inner(op, m).n = m
  BY DEF Inner, Call
<1> HIDE DEF f, depth, n, done, a, b
<1>7. CASE EndLoop
  <2>1. done = n /\ Continue(<<>>) /\ NoRead
    BY <1>7 DEF EndLoop, n, done
  <2>2. a = b
    <3>1. n - done = 0
      BY <1>2, <2>1
    <3> QED
      BY <1>3, <3>1, NoElements
  <2>3. a.at = offset' - 4 /\ a.put = BytesRead' /\ cells' = cells
    BY <2>1, StandsStill DEF a
  <2> QED
    BY <1>1, <2>1, <2>2, <2>3, ReadsOnWithNothing DEF b
<1>8. ASSUME done < n
      PROVE  \E x \in Writer :
               /\ Element(subject, f, depth, a, x) /\ Grown(a, x) /\ Grown(x, b) /\ Clean(x)
               /\ Grown(x, body) /\ Owes(subject, Counted, x, b)
  <2> DEFINE m == n - done
  <2>1. m \in Nat \ {0} /\ m - 1 = n - (done + 1) /\ done + 1 <= n
    BY <1>2, <1>8
  <2>2. Elements(subject, f, depth, a, b, m)
    BY <1>3
  <2> HIDE DEF m
  <2>3. PICK x \in Writer : /\ Element(subject, f, depth, a, x) /\ Grown(x, b) /\ Clean(x)
                            /\ Elements(subject, f, depth, x, b, m - 1)
    BY <1>2, <2>1, <2>2, FirstElement
  <2>4. Owes(subject, Counted, x, b)
    BY <1>5, <2>1, <2>3 DEF Owes
  <2>5. Grown(a, x) /\ Grown(x, body)
    BY <1>2, <2>3, ElementGrows, GrownAgain
  <2> QED
    BY <2>3, <2>4, <2>5
<1>9. CASE Nested
  <2>1. done < n /\ f.kind = "complex" /\ Continue(<<Inner("plan", 0), Counted>>) /\ NoRead
    BY <1>9 DEF Nested, InLoop, f, n, done
  <2>2. PICK x \in Writer :
          /\ Element(subject, f, depth, a, x) /\ Grown(a, x) /\ Grown(x, b)
          /\ Owes(subject, Counted, x, b)
    BY <1>8, <2>1
  <2>3. depth < MaxNesting /\ \E d \in Values : x = Writes(subject)[MaxNesting - (depth + 1)][<<a, f.target, d>>]
    BY <2>1, <2>2 DEF Element
  <2>4. Owes(subject, Inner("plan", 0), a, x)
    <3>1. depth + 1 <= MaxNesting
      BY <1>2, <2>3, NestingAssumption
    <3> QED
      BY <1>6, <2>3, <3>1 DEF Owes
  <2>5. a.at = offset' - 4 /\ a.put = BytesRead' /\ cells' = cells
    BY <2>1, StandsStill DEF a
  <2> QED
    BY <1>1, <1>2, <1>4, <2>1, <2>2, <2>4, <2>5, ReadsOnWithTwo DEF b
<1>10. CASE Number
  <2> DEFINE z == Widths[f.kind]
  <2>1. /\ done < n /\ f.kind \in NumberKinds
        /\ \/ Truncated(z, Align(z))
           \/ Take(z, Align(z)) /\ Continue(<<Counted>>) /\ UNCHANGED cells
    BY <1>10 DEF Number, InLoop, f, n, done
  <2>2. z \in {1, 2, 4, 8} /\ z \in Nat /\ z \in Alignments /\ Align(z) = z
    <3>1. z \in {1, 2, 4, 8}
      BY <2>1, WidthsTyped
    <3>2. Align(z) = z
      BY DEF Align, Live
    <3> HIDE DEF z
    <3> QED
      BY <3>1, <3>2 DEF Alignments
  <2>3. PICK x \in Writer :
          /\ Element(subject, f, depth, a, x) /\ Grown(x, b) /\ Clean(x)
          /\ Grown(x, body) /\ Owes(subject, Counted, x, b)
    BY <1>8, <2>1
  <2>4. x = Put(a, z, z)
    <3>1. f.kind # "complex" /\ f.kind \in SizedKinds /\ SizeOf(f.kind) = z /\ AlignmentOf(f.kind) = z
      BY <2>1, KindsApart DEF SizedKinds, SizeOf, AlignmentOf
    <3>2. PICK item \in Values : x = PutPrimitive(a, f.kind, item)
      BY <2>3, <3>1 DEF Element
    <3>3. PutPrimitive(a, f.kind, item).error = "none"
      BY <2>3, <3>2 DEF Clean
    <3> HIDE DEF z
    <3> QED
      BY <1>2, <2>1, <3>1, <3>2, <3>3, PutPrimitiveAdds
  <2> HIDE DEF z
  <2>5. Fits(z, z) /\ (Take(z, z) => x.at = offset' - 4 /\ x.put = BytesRead')
    BY <2>2, <2>3, <2>4, TakesPutOf DEF a
  <2>6. Take(z, z) /\ Continue(<<Counted>>) /\ cells' = cells
    BY <2>1, <2>2, <2>5 DEF Truncated
  <2> QED
    BY <1>1, <1>4, <2>3, <2>5, <2>6, ReadsOnWithOne DEF b
<1>11. CASE StringLength
  <2>1. done < n /\ f.kind = "string"
    BY <1>11 DEF StringLength, InLoop, f, n, done
  <2>2. PICK x \in Writer :
          /\ Element(subject, f, depth, a, x) /\ Grown(x, b) /\ Clean(x)
          /\ Grown(x, body) /\ Owes(subject, Counted, x, b)
    BY <1>8, <2>1
  <2>3. PICK v \in Values : x = PutText(a, v)
    <3>1. PICK v \in Values : x = PutPrimitive(a, "string", v)
      BY <2>1, <2>2 DEF Element
    <3>2. PutPrimitive(a, "string", v) = PutText(a, v)
      BY KindsApart DEF PutPrimitive, SizedKinds
    <3> QED
      BY <3>1, <3>2
  <2>4. PICK m \in Nat : x = Put(PutLength(a, m), m, 1)
    BY <1>2, <2>3, PutTextAdds DEF Clean
  <2> DEFINE y == PutLength(a, m)
  <2>5. 4 \in Alignments /\ 1 \in Alignments /\ a.error = "none"
    BY <1>2 DEF Alignments, Clean
  <2>6. /\ y \in Writer /\ y.at = Padded(a.at, 4) + 4 /\ Grown(a, y)
        /\ y.put = a.put \cup Padded(a.at, 4)..(Padded(a.at, 4) + 3)
        /\ <<Padded(a.at, 4), m>> \in y.cells
    BY <1>2, <2>5, PutLengthGrows
  <2>7. x = Put(y, m, 1)
    BY <2>4
  <2> HIDE DEF y
  <2>8. Grown(y, x) /\ Grown(y, body)
    BY <1>2, <2>2, <2>5, <2>6, <2>7, PutGrows, GrownAgain
  <2>9. y.at <= body.at /\ Padded(a.at, 4) + 4 - 1 = Padded(a.at, 4) + 3
    <3>1. Padded(a.at, 4) \in Nat
      BY <1>2, <2>5, PaddedAligned DEF Writer
    <3> QED
      BY <2>8, <3>1 DEF Grown
  <2>10. /\ Start(4) - 4 = Padded(a.at, 4)
         /\ Fits(4, 4)
         /\ Take(4, 4) => y.at = offset' - 4 /\ y.put = BytesRead'
    BY <2>5, <2>6, <2>9, TakesPut DEF a
  <2>11. /\ \A choices : Found(4, choices) = {m}
         /\ TakeNumber(4, 4, m) => cells' = cells
    BY <2>6, <2>8, <2>10, FoundWritten
  <2>12. TakeNumber(4, 4, m) /\ Continue(<<Inner("text", m), Counted>>)
    BY <1>11, <2>10, <2>11 DEF StringLength, Truncated
  <2>13. y.at = offset' - 4 /\ y.put = BytesRead' /\ cells' = cells
    BY <2>10, <2>11, <2>12 DEF TakeNumber
  <2>14. Owes(subject, Inner("text", m), y, x)
    BY <1>6, <2>7 DEF Owes
  <2> QED
    BY <1>1, <1>4, <2>2, <2>6, <2>8, <2>12, <2>13, <2>14, ReadsOnWithTwo DEF b
<1>12. CASE Seconds
  <2>1. /\ done < n /\ f.kind \in TimeKinds
        /\ \/ Truncated(4, 4)
           \/ Take(4, 4) /\ Continue(<<Inner("nsec", 0), Counted>>) /\ UNCHANGED cells
    BY <1>12 DEF Seconds, InLoop, f, n, done
  <2>2. PICK x \in Writer :
          /\ Element(subject, f, depth, a, x) /\ Grown(x, b) /\ Clean(x)
          /\ Grown(x, body) /\ Owes(subject, Counted, x, b)
    BY <1>8, <2>1
  <2> DEFINE y == Put(a, 4, 4)
  <2>3. x = Put(y, 4, 4)
    <3>1. f.kind # "complex" /\ f.kind \in SizedKinds
      BY <2>1, KindsApart DEF SizedKinds, TimeKinds
    <3>2. PICK item \in Values : x = PutPrimitive(a, f.kind, item)
      BY <2>2, <3>1 DEF Element
    <3>3. PutPrimitive(a, f.kind, item).error = "none"
      BY <2>2, <3>2 DEF Clean
    <3> QED
      BY <1>2, <2>1, <3>1, <3>2, <3>3, PutPrimitiveAdds
  <2>4. y = Put(ws[1], 4, 4)
    BY DEF a
  <2>5. 4 \in Alignments /\ y \in Writer /\ Grown(a, y)
    BY <1>2, PutGrows DEF Alignments
  <2> HIDE DEF y
  <2>6. Grown(y, x) /\ Grown(y, body)
    BY <1>2, <2>2, <2>3, <2>5, PutGrows, GrownAgain
  <2>7. Fits(4, 4) /\ (Take(4, 4) => y.at = offset' - 4 /\ y.put = BytesRead')
    BY <2>4, <2>5, <2>6, TakesPutOf
  <2>8. Take(4, 4) /\ Continue(<<Inner("nsec", 0), Counted>>) /\ cells' = cells
    BY <2>1, <2>7 DEF Truncated
  <2>9. Owes(subject, Inner("nsec", 0), y, x)
    BY <1>6, <2>3 DEF Owes
  <2> QED
    BY <1>1, <1>4, <2>2, <2>5, <2>6, <2>7, <2>8, <2>9, ReadsOnWithTwo DEF b
<1>13. CASE Unrecognized
  <2>1. done < n /\ f.kind \notin NumberKinds \cup TimeKinds \cup {"complex", "string"}
    BY <1>13 DEF Unrecognized, f, n, done
  <2>2. PICK x \in Writer : Element(subject, f, depth, a, x) /\ Clean(x)
    BY <1>8, <2>1
  <2>3. PICK item \in Values : x = PutPrimitive(a, f.kind, item)
    BY <2>1, <2>2 DEF Element
  <2> QED
    BY <1>2, <2>1, <2>2, <2>3, PutPrimitiveMoves DEF Clean, SizedKinds
<1> QED
  BY <1>7, <1>9, <1>10, <1>11, <1>12, <1>13

\* The end of a text and of a time.
LEMMA InnerReads ==
  ASSUME NEW ws, Live(ws), UNCHANGED codecVars, Text \/ Nanoseconds,
         At("text") /\ Fits(Top.n, 1) => outcome' = "running"
  PROVE  Onward
<1>1. stack # <<>> /\ Top.op \in {"text", "nsec"}
  BY DEF Text, Nanoseconds, At, Top
<1> DEFINE b == ws[2]
<1>2. /\ Top.n \in Nat /\ b \in Writer /\ Grown(b, body) /\ Owes(subject, Top, ws[1], b)
      /\ 1 \in Alignments /\ 4 \in Alignments
  BY <1>1, LiveTop DEF Alignments
<1>3. CASE Text
  <2>1. Top.op = "text" /\ At("text")
    BY <1>3 DEF Text, At, Top
  <2>2. b = Put(ws[1], Top.n, 1)
    BY <1>2, <2>1 DEF Owes
  <2> HIDE DEF b
  <2>3. Fits(Top.n, 1) /\ (Take(Top.n, 1) => b.at = offset' - 4 /\ b.put = BytesRead')
    BY <1>2, <2>2, TakesPutOf
  <2>4. ~Raise("ValueError")
    BY <2>1, <2>3 DEF Raise
  <2>5. Take(Top.n, 1) /\ Continue(<<>>) /\ cells' = cells
    BY <1>3, <2>3, <2>4 DEF Text, Truncated
  <2> QED
    BY <1>1, <2>3, <2>5, ReadsOnWithNothing DEF b
<1>4. CASE Nanoseconds
  <2>1. Top.op = "nsec"
    BY <1>4 DEF Nanoseconds, At, Top
  <2>2. b = Put(ws[1], 4, 4)
    BY <1>2, <2>1 DEF Owes
  <2> HIDE DEF b
  <2>3. 4 \in Alignments /\ 4 \in Nat /\ Grown(b, body)
    BY <1>2
  <2>4. Fits(4, 4) /\ (Take(4, 4) => b.at = offset' - 4 /\ b.put = BytesRead')
    BY <2>2, <2>3, TakesPutOf
  <2>5. Take(4, 4) /\ Continue(<<>>) /\ cells' = cells
    BY <1>4, <2>4 DEF Nanoseconds, Truncated
  <2> QED
    BY <1>1, <2>4, <2>5, ReadsOnWithNothing DEF b
<1> QED
  BY <1>3, <1>4

\* The decoder has not begun, or reads what was written, or has read it all.
Unread == stack = <<>> /\ spans = <<>> /\ offset = 4

Following ==
  /\ align8 = 8 /\ cells = CellsOf(body)
  /\ \/ outcome \in {"new", "built"} /\ Unread
     \/ outcome = "running" /\ \E ws : Reading(ws)
     \/ outcome = "ok" /\ offset = payload.size /\ BytesRead = body.put

CodecReads ==
  /\ CodecInv /\ TypeInv
  /\ phase # "written" => outcome = "new" /\ align8 = 8 /\ Unread
  /\ Followable => Following

LEMMA CodecReadsInit == CodecInit => CodecReads
<1> SUFFICES ASSUME CodecInit PROVE CodecReads
  OBVIOUS
<1>1. CodecInv
  BY CodecInvInit
<1>2. ConfigTyped
  BY SubjectsAssumption DEF CodecInit, ConfigTyped, Payload, Outcomes
<1>3. ReaderTyped
  BY DEF CodecInit, ReaderTyped
<1>4. stack \in Seq(GoodFrame)
  BY DEF CodecInit
<1> QED
  BY <1>1, <1>2, <1>3, <1>4 DEF CodecReads, TypeInv, CodecInit, Unread, Followable

LEMMA CellsTyped ==
  ASSUME NEW w \in Writer
  PROVE  DOMAIN CellsOf(w) \subseteq Int /\ \A at \in DOMAIN CellsOf(w) : CellsOf(w)[at] \in Int
<1>1. w.cells \subseteq Nat \X Nat
  BY DEF Writer
<1>2. DOMAIN CellsOf(w) = {c[1] : c \in w.cells}
  BY DEF CellsOf
<1>3. ASSUME NEW at \in DOMAIN CellsOf(w) PROVE CellsOf(w)[at] \in Int
  <2> DEFINE e == CHOOSE c \in w.cells : c[1] = at
  <2>1. e \in w.cells
    BY <1>2
  <2>2. CellsOf(w)[at] = e[2]
    BY <1>2 DEF CellsOf
  <2> HIDE DEF e
  <2> QED
    BY <1>1, <2>1, <2>2
<1> QED
  BY <1>1, <1>2, <1>3

LEMMA WriteReads ==
  ASSUME CodecReads, CodecInv', WriteMessage
  PROVE  CodecReads'
<1> DEFINE w == BodyOfMessage(subject)
<1>1. w \in Writer
  BY MessageTyped DEF CodecReads, CodecInv
<1>2. /\ body' = w /\ cells' = CellsOf(w)
      /\ payload' = [size |-> w.at + 4, reserved |-> 0, kind |-> 1]
      /\ UNCHANGED <<schema, offset, align8, stack, outcome, spans>>
  BY DEF WriteMessage
<1>3. outcome = "new" /\ align8 = 8 /\ Unread
  BY DEF CodecReads, WriteMessage
<1> HIDE DEF w
<1>4. payload' \in Payload
  BY <1>1, <1>2 DEF Payload, Writer
<1>5. ConfigTyped'
  BY <1>2, <1>3, <1>4 DEF ConfigTyped, CodecReads, TypeInv
<1>6. ReaderTyped'
  <2>1. DOMAIN cells' \subseteq Int /\ \A at \in DOMAIN cells' : cells'[at] \in Int
    BY <1>1, <1>2, CellsTyped
  <2> QED
    BY <1>2, <2>1 DEF ReaderTyped, CodecReads, TypeInv
<1>7. stack' \in Seq(GoodFrame)'
  BY <1>2, <1>3 DEF Unread
<1>8. Following'
  BY <1>2, <1>3 DEF Following, Unread, CellsOf
<1> QED
  BY <1>2, <1>3, <1>5, <1>6, <1>7, <1>8 DEF CodecReads, TypeInv, Unread

LEMMA DecodeReads ==
  ASSUME CodecReads, CodecInv', Decode
  PROVE  CodecReads'
<1>1. Next /\ UNCHANGED codecVars /\ phase = "written" /\ TypeInv /\ CodecInv
  BY DEF Decode, CodecReads
<1>2. TypeInv'
  BY <1>1, TypeStep
<1>3. phase' = "written" /\ body' = body /\ subject' = subject /\ Followable' = Followable
  BY <1>1 DEF codecVars, Followable
<1>4. schema' = schema /\ payload' = payload
  BY <1>1, NextConfigures
<1>5. ASSUME Followable PROVE Following'
  <2>1. Following
    BY <1>5 DEF CodecReads
  <2>2. /\ subject \in Subjects /\ schema = subject.schema /\ body = BodyOfMessage(subject)
        /\ payload = [size |-> body.at + 4, reserved |-> 0, kind |-> 1]
    BY <1>1 DEF CodecInv
  <2>3. body \in Writer /\ Grown(Nothing, body) /\ body.at \in Nat
    BY <2>2, MessageTyped DEF Writer
  <2>4. CASE Build
    <3>1. outcome = "new" /\ Unread
      BY <2>1, <2>4 DEF Build, Following
    <3>2. outcome' = "built"
      BY <2>2, <2>4, SubjectsAssumption DEF Build
    <3> QED
      BY <1>3, <2>1, <2>4, <3>1, <3>2 DEF Build, Following, Unread, CellsOf
  <2>5. CASE Open
    <3>1. outcome = "built" /\ Unread
      BY <2>1, <2>5 DEF Open, Following
    <3>2. Readable(payload) /\ payload.kind = 1
      BY <2>2, <2>3 DEF Readable
    <3> DEFINE fr == Call("plan", Root, 0, 0)
               pair == <<Nothing, body>>
    <3>3. /\ outcome' = "running" /\ align8' = 8 /\ stack' = <<fr>>
          /\ UNCHANGED <<cells, offset, spans>>
      BY <2>5, <3>2 DEF Open
    <3>4. Nothing \in Writer /\ Nothing.at = 0 /\ Nothing.put = {}
      BY DEF Nothing, Writer, WalkErrors
    <3>5. Owes(subject, fr, Nothing, body)
      <4>1. fr.op = "plan" /\ fr.depth = 0 /\ fr.field.target = subject.schema.root
        BY <2>2 DEF Call, Root
      <4>2. subject.message \in Values /\ MaxNesting \in Nat
        BY <2>2, SubjectsAssumption, NestingAssumption
      <4>3. body = Writes(subject)[MaxNesting][<<Nothing, subject.schema.root, subject.message>>]
        BY <2>2 DEF BodyOfMessage
      <4> HIDE DEF fr
      <4>4. MaxNesting - fr.depth = MaxNesting /\ fr.depth <= MaxNesting
        BY <4>1, <4>2
      <4> QED
        BY <4>1, <4>2, <4>3, <4>4 DEF Owes
    <3>6. BytesRead' = {}
      BY <3>1, <3>3 DEF BytesRead, Unread
    <3>7. PICK ws : ws \in Seq(Writer) /\ Len(ws) = 2 /\ ws[1] = Nothing /\ ws[2] = body
      <4>1. pair \in Seq(Writer) /\ Len(pair) = 2 /\ pair[1] = Nothing /\ pair[2] = body
        BY <2>3, <3>4
      <4> QED
        BY <4>1
    <3>8. Len(stack') = 1 /\ stack'[1] = fr
      BY <3>3
    <3>9. Grown(body, body)
      BY <2>3, GrownAgain
    <3> HIDE DEF pair, fr
    <3>10. Reading(ws)'
      <4>1. offset' = 4
        BY <3>1, <3>3 DEF Unread
      <4>2. \A i \in 1..Len(stack') : Owes(subject, stack'[i], ws[i], ws[i + 1])
        <5> SUFFICES ASSUME NEW i \in 1..Len(stack')
                     PROVE  Owes(subject, stack'[i], ws[i], ws[i + 1])
          OBVIOUS
        <5>1. i = 1 /\ i + 1 = 2
          BY <3>8
        <5> QED
          BY <3>5, <3>7, <3>8, <5>1
      <4>3. \A i \in 1..Len(ws) : Grown(ws[i], body)
        <5> SUFFICES ASSUME NEW i \in 1..Len(ws) PROVE Grown(ws[i], body)
          OBVIOUS
        <5>1. i = 1 \/ i = 2
          BY <3>7
        <5> QED
          BY <2>3, <3>7, <3>9, <5>1
      <4>4. /\ ws \in Seq(Writer) /\ Len(ws) = Len(stack') + 1
            /\ ws[1].at = offset' - 4 /\ ws[1].put = BytesRead' /\ ws[Len(ws)] = body
        BY <3>4, <3>6, <3>7, <3>8, <4>1
      <4>5. UNCHANGED <<subject, body>>
        BY <1>3
      <4> QED
        BY <4>2, <4>3, <4>4, <4>5 DEF Reading
    <3> QED
      BY <1>3, <2>1, <3>3, <3>10 DEF Following, CellsOf
  <2>6. CASE Finish
    <3>1. outcome = "running" /\ stack = <<>> /\ outcome' = "ok"
          /\ UNCHANGED <<cells, offset, align8, spans>>
      BY <2>6 DEF Finish
    <3>2. PICK ws : Reading(ws)
      BY <2>1, <3>1 DEF Following
    <3>3. ws[1] = body
      BY <3>1, <3>2 DEF Reading
    <3>4. body.at = offset - 4 /\ body.put = BytesRead
      BY <3>2, <3>3 DEF Reading
    <3>5. offset \in Nat
      BY <1>1 DEF TypeInv, ReaderTyped
    <3>6. offset' = payload'.size /\ BytesRead' = body'.put
      BY <1>3, <1>4, <2>2, <2>3, <3>1, <3>4, <3>5 DEF BytesRead
    <3> QED
      BY <1>3, <2>1, <3>1, <3>6 DEF Following, CellsOf
  <2>7. CASE Enter \/ FieldStep \/ ArrayStep \/ ElementStep
    <3>1. outcome = "running"
      BY <2>7 DEF Enter, TooDeep, EnterUnion, BadSwitch, EnterEmpty, EnterStruct, InPlan,
           FieldStep, Wide, One, ReadCount, FixedCount, NegativeCount, InField,
           ArrayStep, LengthExceeds, ReadBytes, EmptyArray, Bulk, StartLoop,
           ElementStep, EndLoop, Nested, Number, StringLength, Text, Seconds, Nanoseconds,
           Unrecognized, InLoop, At
    <3>2. PICK ws : Reading(ws)
      BY <2>1, <3>1 DEF Following
    <3>3. Live(ws)
      BY <1>1, <1>5, <2>1, <3>1, <3>2 DEF Live, Following
    <3>4. Onward
      <4>1. CASE Enter
        BY <1>1, <3>3, <4>1, EnterReads
      <4>2. CASE FieldStep
        BY <1>1, <3>3, <4>2, FieldReads
      <4>3. CASE ArrayStep
        BY <1>1, <3>3, <4>3, ArrayReads
      <4>4. CASE Text \/ Nanoseconds
        BY <1>1, <3>3, <4>4, InnerReads DEF Decode
      <4>5. CASE EndLoop \/ Nested \/ Number \/ StringLength \/ Seconds \/ Unrecognized
        BY <1>1, <3>3, <4>5, LoopReads
      <4> QED
        BY <2>7, <4>1, <4>2, <4>3, <4>4, <4>5 DEF ElementStep
    <3> QED
      BY <3>4 DEF Onward, Following
  <2> QED
    BY <1>1, <2>4, <2>5, <2>6, <2>7 DEF Next
<1> QED
  BY <1>2, <1>3, <1>5 DEF CodecReads

LEMMA CodecReadsStep == CodecReads /\ [CodecNext]_allVars => CodecReads'
<1> SUFFICES ASSUME CodecReads, [CodecNext]_allVars PROVE CodecReads'
  OBVIOUS
<1>1. CodecInv'
  BY CodecInvStep DEF CodecReads
<1>2. CASE Calculate
  <2>1. UNCHANGED vars /\ body' = body /\ phase = "new" /\ phase' # "written"
    BY <1>2 DEF Calculate
  <2>2. TypeInv'
    BY <2>1, StutterKeeps DEF CodecReads
  <2>3. outcome' = "new" /\ align8' = 8 /\ Unread'
    BY <2>1 DEF CodecReads, Unread, vars
  <2> QED
    BY <1>1, <2>1, <2>2, <2>3 DEF CodecReads, Followable
<1>3. CASE WriteMessage
  BY <1>1, <1>3, WriteReads
<1>4. CASE Decode
  BY <1>1, <1>4, DecodeReads
<1>5. CASE UNCHANGED allVars
  <2>1. TypeInv'
    BY <1>5, StutterKeeps DEF CodecReads, allVars
  <2>2. ASSUME Following PROVE Following'
    <3>1. ASSUME NEW ws, Reading(ws) PROVE Reading(ws)'
      <4>1. UNCHANGED <<stack, offset, spans, subject, body>>
        BY <1>5 DEF allVars, vars, codecVars
      <4>2. BytesRead' = BytesRead
        BY <4>1 DEF BytesRead
      <4> QED
        BY <3>1, <4>1, <4>2 DEF Reading
    <3> QED
      BY <1>5, <2>2, <3>1 DEF Following, Unread, CellsOf, BytesRead, allVars, vars, codecVars
  <2> QED
    BY <1>1, <1>5, <2>1, <2>2 DEF CodecReads, Followable, Unread, allVars, vars, codecVars
<1> QED
  BY <1>2, <1>3, <1>4, <1>5 DEF CodecNext

LEMMA ReadsWhatIsWritten == CodecReads => WrittenIsRead
BY DEF CodecReads, Followable, Following, WrittenIsRead, Errors

\* For every schema, message and limit: what MessageWriter writes of a message
\* the compiled decoder reads back, each byte that was written and no padding,
\* to the end and with no error, unless the model said beforehand that the
\* decoder could not follow.
THEOREM WrittenIsReadHolds == CodecSpec => []WrittenIsRead
<1> QED
  BY CodecReadsInit, CodecReadsStep, ReadsWhatIsWritten, PTL DEF CodecSpec


=============================================================================
