------------------------ MODULE NativeDecoder_proofs ------------------------
(***************************************************************************)
(* What holds of the compiled decoder for every schema, every payload and  *)
(* every value of the limits; and that it reads as the Python reader that  *)
(* is kept as its reference.                                               *)
(***************************************************************************)
EXTENDS DecoderReference, Recursion_proofs

\* Decoder::new let the schema pass before anything is read with it.
ConfigTyped ==
  /\ schema \in Schema
  /\ payload \in Payload
  /\ align8 \in {4, 8}
  /\ outcome \in Outcomes
  /\ outcome \in {"built", "running", "ok"} => WellFormed(schema)

ReaderTyped ==
  /\ DOMAIN cells \subseteq Int
  /\ \A at \in DOMAIN cells : cells[at] \in Int
  /\ offset \in Nat
  /\ offset >= 4
  /\ spans \in Seq(Span)

\* A field that, when it is complex, names a plan of the schema.
GoodField(f) == f \in Field /\ (f.kind = "complex" => f.target \in DOMAIN schema.plans)

GoodFrame ==
  {fr \in Frame : GoodField(fr.field) /\ (fr.op = "plan" => fr.field.kind = "complex")}

\* The invariant behind TypeOK: a plan that is entered exists.
TypeInv == ConfigTyped /\ ReaderTyped /\ stack \in Seq(GoodFrame)

-----------------------------------------------------------------------------
(* Alignment *)

\* Padding is a number of bytes smaller than the alignment.
LEMMA PaddingBound ==
  ASSUME NEW o \in Nat, NEW a \in Alignments
  PROVE  Padding(o, a) \in 0 .. a - 1
<1>1. CASE a = 1
  BY <1>1 DEF Padding
<1>2. CASE a = 2
  BY <1>2 DEF Padding
<1>3. CASE a = 4
  BY <1>3 DEF Padding
<1>4. CASE a = 8
  BY <1>4 DEF Padding
<1> QED
  BY <1>1, <1>2, <1>3, <1>4 DEF Alignments

\* A padded position is a multiple of the alignment, at or after the position.
LEMMA PaddedAligned ==
  ASSUME NEW o \in Nat, NEW a \in Alignments
  PROVE  Padded(o, a) \in Nat /\ Padded(o, a) >= o /\ Padded(o, a) % a = 0
<1>1. CASE a = 1
  BY <1>1 DEF Padding, Padded
<1>2. CASE a = 2
  BY <1>2 DEF Padding, Padded
<1>3. CASE a = 4
  BY <1>3 DEF Padding, Padded
<1>4. CASE a = 8
  BY <1>4 DEF Padding, Padded
<1> QED
  BY <1>1, <1>2, <1>3, <1>4 DEF Alignments

\* Where a read starts: in the body, no earlier than the reader stands.
LEMMA StartInBody ==
  ASSUME offset \in Nat, offset >= 4, NEW a \in Alignments
  PROVE  Start(a) \in Nat /\ Start(a) >= offset /\ Start(a) - 4 = Padded(offset - 4, a)
<1>1. offset - 4 \in Nat
  OBVIOUS
<1>2. Padding(offset - 4, a) \in 0 .. a - 1 /\ a \in Nat
  BY <1>1, PaddingBound DEF Alignments
<1> QED
  BY <1>1, <1>2 DEF Start, Padded

LEMMA WidthsTyped ==
  ASSUME NEW k \in NumberKinds PROVE Widths[k] \in {1, 2, 4, 8}
BY DEF NumberKinds, Widths

-----------------------------------------------------------------------------
(* What the building blocks of the actions keep *)

\* The decoder and the payload stay those that were chosen.
Chosen == schema \in Schemas /\ payload \in Payloads

LEMMA TypeInvImpliesTypeOK == TypeInv /\ Chosen => TypeOK
<1>1. GoodFrame \subseteq Frame
  BY DEF GoodFrame
<1>2. stack \in Seq(GoodFrame) => stack \in Seq(Frame)
  BY <1>1
<1> QED
  BY <1>2 DEF TypeInv, TypeOK, ConfigTyped, ReaderTyped, Chosen

LEMMA AlignTyped ==
  ASSUME ConfigTyped, NEW w \in {1, 2, 4, 8} PROVE Align(w) \in Alignments
BY DEF Align, Alignments, ConfigTyped

LEMMA TakeKeeps ==
  ASSUME ReaderTyped, NEW n \in Nat, NEW a \in Alignments, Take(n, a), cells' = cells
  PROVE  ReaderTyped'
<1>1. Start(a) \in Nat /\ Start(a) >= offset /\ Start(a) - 4 \in Nat
  BY StartInBody, PaddedAligned DEF ReaderTyped
<1>2. offset' \in Nat /\ offset' >= 4
  BY <1>1 DEF Take, ReaderTyped
<1>3. [from |-> Start(a) - 4, size |-> n, align |-> a] \in Span
  BY <1>1 DEF Span
<1>4. spans' \in Seq(Span)
  BY <1>3 DEF Take, ReaderTyped
<1> QED
  BY <1>2, <1>4 DEF ReaderTyped

LEMMA TakeNumberKeeps ==
  ASSUME ReaderTyped, NEW n \in Nat, NEW a \in Alignments, NEW v \in Int, TakeNumber(n, a, v)
  PROVE  ReaderTyped'
<1>1. Start(a) \in Nat /\ Start(a) >= offset /\ Start(a) - 4 \in Nat
  BY StartInBody, PaddedAligned DEF ReaderTyped
<1>2. offset' \in Nat /\ offset' >= 4
  BY <1>1 DEF TakeNumber, Take, ReaderTyped
<1>3. [from |-> Start(a) - 4, size |-> n, align |-> a] \in Span
  BY <1>1 DEF Span
<1>4. spans' \in Seq(Span)
  BY <1>3 DEF TakeNumber, Take, ReaderTyped
<1>5. DOMAIN cells' \subseteq Int /\ \A at \in DOMAIN cells' : cells'[at] \in Int
  BY <1>1 DEF TakeNumber, ReaderTyped
<1> QED
  BY <1>2, <1>4, <1>5 DEF ReaderTyped

LEMMA NoReadKeeps == ReaderTyped /\ NoRead => ReaderTyped'
BY DEF ReaderTyped, NoRead

LEMMA RaiseKeeps ==
  ASSUME ConfigTyped, NEW e \in Errors, Raise(e)
  PROVE  ConfigTyped' /\ stack' \in Seq(GoodFrame)'
<1>1. outcome' \in Outcomes /\ outcome' \notin {"built", "running", "ok"}
  BY DEF Raise, Errors, Outcomes
<1>2. stack' \in Seq(GoodFrame)'
  BY DEF Raise
<1> QED
  BY <1>1, <1>2 DEF Raise, ConfigTyped

LEMMA ContinueKeeps ==
  ASSUME TypeInv, stack # <<>>, NEW frames \in Seq(GoodFrame), Continue(frames)
  PROVE  ConfigTyped' /\ stack' \in Seq(GoodFrame)'
<1>1. Tail(stack) \in Seq(GoodFrame)
  BY DEF TypeInv
<1>2. stack' \in Seq(GoodFrame)
  BY <1>1 DEF Continue
<1>3. GoodFrame' = GoodFrame
  BY DEF Continue, GoodFrame, GoodField
<1> QED
  BY <1>2, <1>3 DEF Continue, ConfigTyped, TypeInv, WellFormed

LEMMA TopGood ==
  ASSUME TypeInv, stack # <<>>
  PROVE  /\ Top \in GoodFrame
         /\ Top.field \in Field /\ GoodField(Top.field)
         /\ Top.n \in Nat /\ Top.done \in Nat /\ Top.depth \in Nat
<1>1. Top \in GoodFrame
  BY DEF TypeInv, Top
<1> QED
  BY <1>1 DEF GoodFrame, Frame, Field

LEMMA CallGood ==
  ASSUME NEW op \in {"plan", "field", "array", "elems", "text", "nsec"},
         NEW f, GoodField(f), op = "plan" => f.kind = "complex",
         NEW n \in Nat, NEW d \in Nat
  PROVE  Call(op, f, n, d) \in GoodFrame
BY DEF Call, GoodFrame, Frame, GoodField

LEMMA PlanGood ==
  ASSUME TypeInv, At("plan")
  PROVE  /\ ThePlan \in Plan
         /\ \A f \in Targets(ThePlan) : GoodField(f)
<1>1. Top \in GoodFrame /\ Top.op = "plan" /\ outcome = "running"
  BY TopGood DEF At, Top
<1>2. Top.field.target \in DOMAIN schema.plans
  BY <1>1 DEF GoodFrame, GoodField
<1>3. schema \in Schema /\ WellFormed(schema)
  BY <1>1 DEF TypeInv, ConfigTyped
<1>4. ThePlan \in Plan
  BY <1>2, <1>3 DEF Schema, ThePlan
<1>5. Targets(ThePlan) \subseteq Field
  <2>1. ThePlan.fields \in Seq(Field) /\ ThePlan.default \in Seq(Field)
    BY <1>4 DEF Plan
  <2>2. ThePlan.cases \in Seq(Case)
    BY <1>4 DEF Plan
  <2>3. {ThePlan.fields[i] : i \in DOMAIN ThePlan.fields} \subseteq Field
    BY <2>1
  <2>4. {ThePlan.default[i] : i \in DOMAIN ThePlan.default} \subseteq Field
    BY <2>1
  <2>5. {ThePlan.cases[i].field : i \in DOMAIN ThePlan.cases} \subseteq Field
    <3>1. \A i \in DOMAIN ThePlan.cases : ThePlan.cases[i] \in Case
      BY <2>2
    <3> QED
      BY <3>1 DEF Case
  <2> QED
    BY <2>3, <2>4, <2>5 DEF Targets
<1>6. \A f \in Targets(ThePlan) : f.kind = "complex" => f.target \in DOMAIN schema.plans
  BY <1>2, <1>3 DEF WellFormed, ThePlan
<1> QED
  BY <1>4, <1>5, <1>6 DEF GoodField

LEMMA FieldsGood ==
  ASSUME TypeInv, stack # <<>>, NEW fs \in Seq(Field), \A i \in DOMAIN fs : GoodField(fs[i])
  PROVE  Fields(fs) \in Seq(GoodFrame)
<1>1. \A i \in DOMAIN fs : Call("field", fs[i], 0, Top.depth) \in GoodFrame
  BY TopGood, CallGood
<1>2. DOMAIN fs = 1 .. Len(fs) /\ Len(fs) \in Nat
  OBVIOUS
<1> QED
  BY <1>1, <1>2 DEF Fields

\* The field that a discriminant selects is one of the targets of the union.
LEMMA SelectedGood ==
  ASSUME TypeInv, At("plan"), NEW v, NEW f \in Selected(ThePlan, v)
  PROVE  GoodField(f)
<1> DEFINE p == ThePlan
<1>1. p.default \in Seq(Field)
  BY PlanGood DEF Plan
<1>2. p.default # <<>> => Head(p.default) \in {p.default[i] : i \in DOMAIN p.default}
  BY <1>1
<1>3. f \in Targets(p)
  BY <1>2 DEF Selected, Matching, Targets
<1> QED
  BY <1>3, PlanGood

LEMMA FoundTyped ==
  ASSUME ReaderTyped, NEW a \in Alignments, NEW choices, choices \subseteq Int,
         NEW v \in Found(a, choices)
  PROVE  v \in Int
BY StartInBody DEF Found, ReaderTyped

LEMMA ChoicesTyped ==
  /\ Counts \subseteq Nat
  /\ \A kind : ValuesOf(kind) \subseteq Int
BY WordsAssumption DEF Counts, ValuesOf

-----------------------------------------------------------------------------
(* The actions keep the invariant *)

LEMMA EnterKeeps == TypeInv /\ Enter => TypeInv'
<1> SUFFICES ASSUME TypeInv, Enter PROVE TypeInv'
  OBVIOUS
<1> USE DEF TypeInv
<1>1. CASE TooDeep
  BY <1>1, RaiseKeeps, NoReadKeeps DEF TooDeep, Errors
<1>2. CASE EnterUnion
  <2> DEFINE n == Widths[ThePlan.switch]
             a == Align(n)
  <2>1. stack # <<>> /\ At("plan") /\ ThePlan.switch \in NumberKinds
    BY <1>2 DEF EnterUnion, InPlan, At, IntegerKinds
  <2>2. n \in {1, 2, 4, 8}
    BY <2>1, WidthsTyped
  <2>3. n \in Nat /\ a \in Alignments
    BY <2>2, AlignTyped
  <2>4. CASE Truncated(n, a)
    BY <2>4, RaiseKeeps, NoReadKeeps DEF Truncated, Errors
  <2>5. ASSUME NEW v \in Found(a, ValuesOf(ThePlan.switch)), TakeNumber(n, a, v),
               IF v > MaxSigned THEN Raise("OverflowError")
               ELSE IF Selected(ThePlan, v) = {} THEN Raise("ValueError")
               ELSE \E f \in Selected(ThePlan, v) :
                      Continue(<<Call("field", f, 0, Top.depth)>>)
        PROVE  TypeInv'
    <3>1. v \in Int
      BY <2>3, FoundTyped, ChoicesTyped
    <3>2. ReaderTyped'
      BY <2>3, <2>5, <3>1, TakeNumberKeeps
    <3>3. CASE Raise("OverflowError") \/ Raise("ValueError")
      BY <3>2, <3>3, RaiseKeeps DEF Errors
    <3>4. ASSUME NEW f \in Selected(ThePlan, v), Continue(<<Call("field", f, 0, Top.depth)>>)
          PROVE  TypeInv'
      <4>1. Call("field", f, 0, Top.depth) \in GoodFrame
        BY <2>1, SelectedGood, CallGood, TopGood
      <4>2. <<Call("field", f, 0, Top.depth)>> \in Seq(GoodFrame)
        BY <4>1
      <4> QED
        BY <2>1, <3>2, <3>4, <4>2, ContinueKeeps
    <3> QED
      BY <2>5, <3>3, <3>4
  <2> QED
    BY <1>2, <2>4, <2>5 DEF EnterUnion
<1>3. CASE BadSwitch
  BY <1>3, RaiseKeeps, NoReadKeeps DEF BadSwitch, Errors
<1>4. CASE EnterEmpty
  <2>1. CASE Truncated(1, 1)
    BY <2>1, RaiseKeeps, NoReadKeeps DEF Truncated, Errors
  <2>2. CASE Take(1, 1) /\ Continue(<<>>) /\ UNCHANGED cells
    <3>1. ReaderTyped'
      BY <2>2, TakeKeeps DEF Alignments
    <3>2. <<>> \in Seq(GoodFrame) /\ stack # <<>>
      BY <1>4 DEF EnterEmpty, InPlan, At
    <3> QED
      BY <2>2, <3>1, <3>2, ContinueKeeps
  <2> QED
    BY <1>4, <2>1, <2>2 DEF EnterEmpty
<1>5. CASE EnterStruct
  <2>1. stack # <<>> /\ At("plan")
    BY <1>5 DEF EnterStruct, InPlan, At
  <2>2. ThePlan.fields \in Seq(Field) /\ \A i \in DOMAIN ThePlan.fields : GoodField(ThePlan.fields[i])
    BY <2>1, PlanGood DEF Plan, Targets
  <2>3. Fields(ThePlan.fields) \in Seq(GoodFrame)
    BY <2>1, <2>2, FieldsGood
  <2> QED
    BY <1>5, <2>1, <2>3, ContinueKeeps, NoReadKeeps DEF EnterStruct
<1> QED
  BY <1>1, <1>2, <1>3, <1>4, <1>5 DEF Enter

LEMMA FieldKeeps == TypeInv /\ FieldStep => TypeInv'
<1> SUFFICES ASSUME TypeInv, FieldStep PROVE TypeInv'
  OBVIOUS
<1> USE DEF TypeInv
<1>0. stack # <<>> /\ GoodField(Top.field) /\ Top.field \in Field /\ Top.depth \in Nat
  BY TopGood DEF FieldStep, Wide, One, ReadCount, FixedCount, NegativeCount, InField, At
<1>1. CASE Wide
  BY <1>1, RaiseKeeps, NoReadKeeps DEF Wide, Errors
<1>2. CASE One
  <2>1. <<Call("elems", Top.field, 1, Top.depth)>> \in Seq(GoodFrame)
    BY <1>0, CallGood
  <2> QED
    BY <1>0, <1>2, <2>1, ContinueKeeps, NoReadKeeps DEF One
<1>3. CASE ReadCount
  <2>1. CASE Truncated(4, 4)
    BY <2>1, RaiseKeeps, NoReadKeeps DEF Truncated, Errors
  <2>2. ASSUME NEW v \in Nat, TakeNumber(4, 4, v),
               Continue(<<Call("array", Top.field, v, Top.depth)>>)
        PROVE  TypeInv'
    <3>1. <<Call("array", Top.field, v, Top.depth)>> \in Seq(GoodFrame)
      BY <1>0, CallGood
    <3>2. ReaderTyped'
      BY <2>2, TakeNumberKeeps DEF Alignments
    <3> QED
      BY <1>0, <2>2, <3>1, <3>2, ContinueKeeps
  <2> QED
    BY <1>3, <2>1, <2>2 DEF ReadCount
<1>4. CASE FixedCount
  <2>1. Top.field.count \in Nat
    BY <1>0, <1>4 DEF FixedCount, Field
  <2>2. <<Call("array", Top.field, Top.field.count, Top.depth)>> \in Seq(GoodFrame)
    BY <1>0, <2>1, CallGood
  <2> QED
    BY <1>0, <1>4, <2>2, ContinueKeeps, NoReadKeeps DEF FixedCount
<1>5. CASE NegativeCount
  BY <1>5, RaiseKeeps, NoReadKeeps DEF NegativeCount, Errors
<1> QED
  BY <1>1, <1>2, <1>3, <1>4, <1>5 DEF FieldStep

LEMMA ArrayKeeps == TypeInv /\ ArrayStep => TypeInv'
<1> SUFFICES ASSUME TypeInv, ArrayStep PROVE TypeInv'
  OBVIOUS
<1> USE DEF TypeInv
<1>0. stack # <<>> /\ GoodField(Top.field) /\ Top.n \in Nat /\ Top.depth \in Nat
  BY TopGood DEF ArrayStep, LengthExceeds, ReadBytes, EmptyArray, Bulk, StartLoop, At
<1>e. <<>> \in Seq(GoodFrame)
  OBVIOUS
<1>1. CASE LengthExceeds
  BY <1>1, RaiseKeeps, NoReadKeeps DEF LengthExceeds, Errors
<1>2. CASE ReadBytes
  <2>1. ReaderTyped'
    BY <1>0, <1>2, TakeKeeps DEF ReadBytes, Alignments
  <2> QED
    BY <1>0, <1>e, <1>2, <2>1, ContinueKeeps DEF ReadBytes
<1>3. CASE EmptyArray
  BY <1>0, <1>e, <1>3, ContinueKeeps, NoReadKeeps DEF EmptyArray
<1>4. CASE Bulk
  <2> DEFINE width == Widths[Top.field.kind]
  <2>1. width \in {1, 2, 4, 8}
    BY <1>4, WidthsTyped DEF Bulk, InBulk
  <2>2. Align(width) \in Alignments /\ Top.n * width \in Nat
    BY <1>0, <2>1, AlignTyped
  <2>3. CASE Truncated(Top.n * width, Align(width))
    BY <2>3, RaiseKeeps, NoReadKeeps DEF Truncated, Errors
  <2>4. CASE Take(Top.n * width, Align(width)) /\ Continue(<<>>) /\ UNCHANGED cells
    <3>1. ReaderTyped'
      BY <2>2, <2>4, TakeKeeps
    <3> QED
      BY <1>0, <1>e, <2>4, <3>1, ContinueKeeps
  <2> QED
    BY <1>4, <2>3, <2>4 DEF Bulk
<1>5. CASE StartLoop
  <2>1. <<Call("elems", Top.field, Top.n, Top.depth)>> \in Seq(GoodFrame)
    BY <1>0, CallGood
  <2> QED
    BY <1>0, <1>5, <2>1, ContinueKeeps, NoReadKeeps DEF StartLoop
<1> QED
  BY <1>1, <1>2, <1>3, <1>4, <1>5 DEF ArrayStep

\* The loop frame with one more element done, and the call made for it.
LEMMA LoopGood ==
  ASSUME TypeInv, stack # <<>>, Top.op = "elems"
  PROVE  /\ <<Counted>> \in Seq(GoodFrame)
         /\ \A op \in {"text", "nsec"}, n \in Nat :
              <<Inner(op, n), Counted>> \in Seq(GoodFrame)
         /\ Top.field.kind = "complex" => <<Inner("plan", 0), Counted>> \in Seq(GoodFrame)
<1>1. Top \in Frame /\ GoodField(Top.field) /\ Top.done \in Nat /\ Top.depth \in Nat
  BY TopGood DEF GoodFrame
<1>2. Counted = [Top EXCEPT !.done = Top.done + 1]
  BY DEF Counted
<1>3. Counted \in Frame /\ Counted.field = Top.field /\ Counted.op = "elems"
  BY <1>1, <1>2 DEF Frame
<1>4. Counted \in GoodFrame
  BY <1>1, <1>3 DEF GoodFrame
<1>5. \A op \in {"text", "nsec"}, n \in Nat : Inner(op, n) \in GoodFrame
  BY <1>1, CallGood DEF Inner
<1>6. Top.field.kind = "complex" => Inner("plan", 0) \in GoodFrame
  BY <1>1, CallGood DEF Inner
<1> QED
  BY <1>4, <1>5, <1>6

LEMMA ElementKeeps == TypeInv /\ ElementStep => TypeInv'
<1> SUFFICES ASSUME TypeInv, ElementStep PROVE TypeInv'
  OBVIOUS
<1> USE DEF TypeInv
<1>0. stack # <<>> /\ Top.n \in Nat
  BY TopGood DEF ElementStep, EndLoop, Nested, Number, StringLength, Text, Seconds,
                 Nanoseconds, Unrecognized, InLoop, At
<1>e. <<>> \in Seq(GoodFrame)
  OBVIOUS
<1>l. ASSUME At("elems") PROVE Top.op = "elems"
  BY <1>l DEF At, Top
<1>1. CASE EndLoop
  BY <1>0, <1>e, <1>1, ContinueKeeps, NoReadKeeps DEF EndLoop
<1>2. CASE Nested
  <2>1. <<Inner("plan", 0), Counted>> \in Seq(GoodFrame)
    BY <1>0, <1>l, <1>2, LoopGood DEF Nested, InLoop
  <2> QED
    BY <1>0, <1>2, <2>1, ContinueKeeps, NoReadKeeps DEF Nested
<1>3. CASE Number
  <2> DEFINE n == Widths[Top.field.kind]
  <2>1. n \in {1, 2, 4, 8}
    BY <1>3, WidthsTyped DEF Number, InLoop
  <2>2. Align(n) \in Alignments /\ n \in Nat
    BY <2>1, AlignTyped
  <2>3. CASE Truncated(n, Align(n))
    BY <2>3, RaiseKeeps, NoReadKeeps DEF Truncated, Errors
  <2>4. CASE Take(n, Align(n)) /\ Continue(<<Counted>>) /\ UNCHANGED cells
    <3>1. ReaderTyped'
      BY <2>2, <2>4, TakeKeeps
    <3>2. <<Counted>> \in Seq(GoodFrame)
      BY <1>0, <1>l, <1>3, LoopGood DEF Number, InLoop
    <3> QED
      BY <1>0, <2>4, <3>1, <3>2, ContinueKeeps
  <2> QED
    BY <1>3, <2>3, <2>4 DEF Number
<1>4. CASE StringLength
  <2>1. CASE Truncated(4, 4)
    BY <2>1, RaiseKeeps, NoReadKeeps DEF Truncated, Errors
  <2>2. ASSUME NEW v \in Nat, TakeNumber(4, 4, v), Continue(<<Inner("text", v), Counted>>)
        PROVE  TypeInv'
    <3>1. ReaderTyped'
      BY <2>2, TakeNumberKeeps DEF Alignments
    <3>2. <<Inner("text", v), Counted>> \in Seq(GoodFrame)
      BY <1>0, <1>l, <1>4, LoopGood DEF StringLength, InLoop
    <3> QED
      BY <1>0, <2>2, <3>1, <3>2, ContinueKeeps
  <2> QED
    BY <1>4, <2>1, <2>2 DEF StringLength
<1>5. CASE Text
  <2>1. CASE Truncated(Top.n, 1)
    BY <2>1, RaiseKeeps, NoReadKeeps DEF Truncated, Errors
  <2>2. CASE Take(Top.n, 1) /\ Continue(<<>>) /\ UNCHANGED cells
    <3>1. ReaderTyped'
      BY <1>0, <2>2, TakeKeeps DEF Alignments
    <3> QED
      BY <1>0, <1>e, <2>2, <3>1, ContinueKeeps
  <2>3. CASE Take(Top.n, 1) /\ Raise("ValueError") /\ UNCHANGED cells
    <3>1. ReaderTyped'
      BY <1>0, <2>3, TakeKeeps DEF Alignments
    <3> QED
      BY <2>3, <3>1, RaiseKeeps DEF Errors
  <2> QED
    BY <1>5, <2>1, <2>2, <2>3 DEF Text
<1>6. CASE Seconds
  <2>1. CASE Truncated(4, 4)
    BY <2>1, RaiseKeeps, NoReadKeeps DEF Truncated, Errors
  <2>2. CASE Take(4, 4) /\ Continue(<<Inner("nsec", 0), Counted>>) /\ UNCHANGED cells
    <3>1. ReaderTyped'
      BY <2>2, TakeKeeps DEF Alignments
    <3>2. <<Inner("nsec", 0), Counted>> \in Seq(GoodFrame)
      BY <1>0, <1>l, <1>6, LoopGood DEF Seconds, InLoop
    <3> QED
      BY <1>0, <2>2, <3>1, <3>2, ContinueKeeps
  <2> QED
    BY <1>6, <2>1, <2>2 DEF Seconds
<1>7. CASE Nanoseconds
  <2>1. CASE Truncated(4, 4)
    BY <2>1, RaiseKeeps, NoReadKeeps DEF Truncated, Errors
  <2>2. CASE Take(4, 4) /\ Continue(<<>>) /\ UNCHANGED cells
    <3>1. ReaderTyped'
      BY <2>2, TakeKeeps DEF Alignments
    <3> QED
      BY <1>0, <1>e, <2>2, <3>1, ContinueKeeps
  <2> QED
    BY <1>7, <2>1, <2>2 DEF Nanoseconds
<1>8. CASE Unrecognized
  BY <1>8, RaiseKeeps, NoReadKeeps DEF Unrecognized, Errors
<1> QED
  BY <1>1, <1>2, <1>3, <1>4, <1>5, <1>6, <1>7, <1>8 DEF ElementStep

LEMMA InitTyped == Init => TypeInv
<1> SUFFICES ASSUME Init PROVE TypeInv
  OBVIOUS
<1>1. ConfigTyped
  BY SchemasAssumption, PayloadsAssumption DEF Init, ConfigTyped, Outcomes
<1>2. ReaderTyped
  BY ContentsAssumption DEF Init, ReaderTyped
<1>3. stack \in Seq(GoodFrame)
  BY DEF Init
<1> QED
  BY <1>1, <1>2, <1>3 DEF TypeInv

LEMMA OpenKeeps == TypeInv /\ (Build \/ Open \/ Finish) => TypeInv'
<1> SUFFICES ASSUME TypeInv, Build \/ Open \/ Finish PROVE TypeInv'
  OBVIOUS
<1> USE DEF TypeInv
<1>1. CASE Build
  <2>1. ConfigTyped'
    BY <1>1 DEF Build, ConfigTyped, Outcomes, Errors, WellFormed
  <2>2. ReaderTyped' /\ GoodFrame' = GoodFrame
    BY <1>1 DEF Build, ReaderTyped, GoodFrame, GoodField
  <2> QED
    BY <1>1, <2>1, <2>2 DEF Build
<1>2. CASE Open
  <2>1. schema \in Schema /\ WellFormed(schema)
    BY <1>2 DEF Open, ConfigTyped
  <2>2. GoodField(Root) /\ Root.kind = "complex"
    <3>1. schema.root \in Nat
      BY <2>1 DEF Schema
    <3>2. Root \in Field /\ Root.target = schema.root /\ Root.kind = "complex"
      <4>1. "complex" \in Kinds
        BY DEF Kinds
      <4>2. Root \in Field
        BY <3>1, <4>1 DEF Root, Field
      <4>3. Root.target = schema.root /\ Root.kind = "complex"
        BY DEF Root
      <4> QED
        BY <4>2, <4>3
    <3>3. schema.root \in DOMAIN schema.plans
      BY <2>1 DEF WellFormed
    <3> QED
      BY <3>2, <3>3 DEF GoodField
  <2>3. <<Call("plan", Root, 0, 0)>> \in Seq(GoodFrame)
    BY <2>2, CallGood
  <2>4. ReaderTyped' /\ GoodFrame' = GoodFrame
    BY <1>2 DEF Open, ReaderTyped, GoodFrame, GoodField
  <2>5. ConfigTyped'
    BY <1>2 DEF Open, ConfigTyped, Outcomes, Errors, WellFormed
  <2>6. stack' \in Seq(GoodFrame)
    BY <1>2, <2>3 DEF Open
  <2> QED
    BY <2>4, <2>5, <2>6
<1>3. CASE Finish
  <2>1. ConfigTyped'
    BY <1>3 DEF Finish, ConfigTyped, Outcomes, WellFormed
  <2>2. ReaderTyped' /\ GoodFrame' = GoodFrame
    BY <1>3 DEF Finish, ReaderTyped, GoodFrame, GoodField
  <2> QED
    BY <1>3, <2>1, <2>2 DEF Finish
<1> QED
  BY <1>1, <1>2, <1>3

LEMMA StutterKeeps == TypeInv /\ UNCHANGED vars => TypeInv'
BY DEF TypeInv, ConfigTyped, ReaderTyped, GoodFrame, GoodField, WellFormed, vars

LEMMA TypeStep == TypeInv /\ [Next]_vars => TypeInv'
BY OpenKeeps, EnterKeeps, FieldKeeps, ArrayKeeps, ElementKeeps, StutterKeeps DEF Next

\* Every state of the decoder is well typed; in particular a plan is only ever
\* entered that exists, so self.plans[index] cannot panic.
THEOREM TypeCorrect == Spec => []TypeInv
<1> QED
  BY InitTyped, TypeStep, PTL DEF Spec

LEMMA ChosenStep == Chosen /\ [Next]_vars => Chosen'
BY DEF Chosen, Next, vars, Build, Open, Finish, Enter, TooDeep, EnterUnion, BadSwitch,
       EnterEmpty, EnterStruct, FieldStep, Wide, One, ReadCount, FixedCount, NegativeCount,
       ArrayStep, LengthExceeds, ReadBytes, EmptyArray, Bulk, StartLoop, ElementStep, EndLoop,
       Nested, Number, StringLength, Text, Seconds, Nanoseconds, Unrecognized, Truncated,
       Raise, Continue

THEOREM TypeOKHolds == Spec => []TypeOK
<1>1. Init => Chosen
  BY DEF Init, Chosen
<1> QED
  BY <1>1, ChosenStep, TypeCorrect, TypeInvImpliesTypeOK, PTL DEF Spec

-----------------------------------------------------------------------------
(* Reads *)

Reads == \E n \in Nat, a \in Alignments : Take(n, a)

\* What any step does to the reader: nothing, or one take while the walk runs.
StepShape ==
  /\ payload' = payload
  /\ outcome \in {"new", "built", "running"}
  /\ \/ UNCHANGED <<offset, spans>> /\ outcome' \in Outcomes
     \/ outcome = "running" /\ outcome' \in {"running"} \cup Errors /\ Reads

LEMMA RaiseShape ==
  ASSUME TypeInv, outcome = "running", NEW e \in Errors, Raise(e), NoRead \/ Reads
  PROVE  StepShape
BY DEF Raise, NoRead, StepShape, Outcomes

LEMMA ContinueShape ==
  ASSUME TypeInv, outcome = "running", NEW frames, Continue(frames), NoRead \/ Reads
  PROVE  StepShape
BY DEF Continue, NoRead, StepShape, Outcomes

LEMMA EnterShape == TypeInv /\ Enter => StepShape
<1> SUFFICES ASSUME TypeInv, Enter PROVE StepShape
  OBVIOUS
<1>0. outcome = "running" /\ ConfigTyped
  BY DEF Enter, TooDeep, EnterUnion, BadSwitch, EnterEmpty, EnterStruct, InPlan, At, TypeInv
<1>1. CASE TooDeep
  BY <1>0, <1>1, RaiseShape DEF TooDeep, Errors
<1>2. CASE EnterUnion
  <2> DEFINE n == Widths[ThePlan.switch]
             a == Align(n)
  <2>1. n \in {1, 2, 4, 8}
    BY <1>2, WidthsTyped DEF EnterUnion, IntegerKinds
  <2>2. n \in Nat /\ a \in Alignments
    BY <1>0, <2>1, AlignTyped
  <2>3. CASE Truncated(n, a)
    BY <1>0, <2>3, RaiseShape DEF Truncated, Errors
  <2>4. ASSUME NEW v, TakeNumber(n, a, v),
               IF v > MaxSigned THEN Raise("OverflowError")
               ELSE IF Selected(ThePlan, v) = {} THEN Raise("ValueError")
               ELSE \E f \in Selected(ThePlan, v) :
                      Continue(<<Call("field", f, 0, Top.depth)>>)
        PROVE  StepShape
    <3>1. Reads
      BY <2>2, <2>4 DEF TakeNumber, Reads
    <3> QED
      BY <1>0, <2>4, <3>1, RaiseShape, ContinueShape DEF Errors
  <2> QED
    BY <1>2, <2>3, <2>4 DEF EnterUnion
<1>3. CASE BadSwitch
  BY <1>0, <1>3, RaiseShape DEF BadSwitch, Errors
<1>4. CASE EnterEmpty
  <2>1. CASE Truncated(1, 1)
    BY <1>0, <2>1, RaiseShape DEF Truncated, Errors
  <2>2. CASE Take(1, 1) /\ Continue(<<>>)
    BY <1>0, <2>2, ContinueShape DEF Reads, Alignments
  <2> QED
    BY <1>4, <2>1, <2>2 DEF EnterEmpty
<1>5. CASE EnterStruct
  BY <1>0, <1>5, ContinueShape DEF EnterStruct
<1> QED
  BY <1>1, <1>2, <1>3, <1>4, <1>5 DEF Enter

LEMMA FieldShape == TypeInv /\ FieldStep => StepShape
<1> SUFFICES ASSUME TypeInv, FieldStep PROVE StepShape
  OBVIOUS
<1>0. outcome = "running"
  BY DEF FieldStep, Wide, One, ReadCount, FixedCount, NegativeCount, InField, At
<1>1. CASE Wide
  BY <1>0, <1>1, RaiseShape DEF Wide, Errors
<1>2. CASE One
  BY <1>0, <1>2, ContinueShape DEF One
<1>3. CASE ReadCount
  <2>1. CASE Truncated(4, 4)
    BY <1>0, <2>1, RaiseShape DEF Truncated, Errors
  <2>2. ASSUME NEW v, TakeNumber(4, 4, v), Continue(<<Call("array", Top.field, v, Top.depth)>>)
        PROVE  StepShape
    BY <1>0, <2>2, ContinueShape DEF TakeNumber, Reads, Alignments
  <2> QED
    BY <1>3, <2>1, <2>2 DEF ReadCount
<1>4. CASE FixedCount
  BY <1>0, <1>4, ContinueShape DEF FixedCount
<1>5. CASE NegativeCount
  BY <1>0, <1>5, RaiseShape DEF NegativeCount, Errors
<1> QED
  BY <1>1, <1>2, <1>3, <1>4, <1>5 DEF FieldStep

LEMMA ArrayShape == TypeInv /\ ArrayStep => StepShape
<1> SUFFICES ASSUME TypeInv, ArrayStep PROVE StepShape
  OBVIOUS
<1>0. outcome = "running" /\ stack # <<>> /\ ConfigTyped
  BY DEF ArrayStep, LengthExceeds, ReadBytes, EmptyArray, Bulk, StartLoop, At, TypeInv
<1>1. CASE LengthExceeds
  BY <1>0, <1>1, RaiseShape DEF LengthExceeds, Errors
<1>2. CASE ReadBytes
  BY <1>0, <1>2, ContinueShape, TopGood DEF ReadBytes, Reads, Alignments
<1>3. CASE EmptyArray
  BY <1>0, <1>3, ContinueShape DEF EmptyArray
<1>4. CASE Bulk
  <2> DEFINE width == Widths[Top.field.kind]
  <2>1. width \in {1, 2, 4, 8}
    BY <1>4, WidthsTyped DEF Bulk, InBulk
  <2>2. Align(width) \in Alignments /\ Top.n * width \in Nat
    BY <1>0, <2>1, AlignTyped, TopGood
  <2>3. CASE Truncated(Top.n * width, Align(width))
    BY <1>0, <2>3, RaiseShape DEF Truncated, Errors
  <2>4. CASE Take(Top.n * width, Align(width)) /\ Continue(<<>>)
    BY <1>0, <2>2, <2>4, ContinueShape DEF Reads
  <2> QED
    BY <1>4, <2>3, <2>4 DEF Bulk
<1>5. CASE StartLoop
  BY <1>0, <1>5, ContinueShape DEF StartLoop
<1> QED
  BY <1>1, <1>2, <1>3, <1>4, <1>5 DEF ArrayStep

LEMMA ElementShape == TypeInv /\ ElementStep => StepShape
<1> SUFFICES ASSUME TypeInv, ElementStep PROVE StepShape
  OBVIOUS
<1>0. outcome = "running" /\ stack # <<>> /\ ConfigTyped
  BY DEF ElementStep, EndLoop, Nested, Number, StringLength, Text, Seconds,
         Nanoseconds, Unrecognized, InLoop, At, TypeInv
<1>1. CASE EndLoop \/ Nested
  BY <1>0, <1>1, ContinueShape DEF EndLoop, Nested
<1>2. CASE Unrecognized
  BY <1>0, <1>2, RaiseShape DEF Unrecognized, Errors
<1>3. CASE Number
  <2> DEFINE n == Widths[Top.field.kind]
  <2>1. n \in {1, 2, 4, 8}
    BY <1>3, WidthsTyped DEF Number, InLoop
  <2>2. Align(n) \in Alignments /\ n \in Nat
    BY <1>0, <2>1, AlignTyped
  <2>3. CASE Truncated(n, Align(n))
    BY <1>0, <2>3, RaiseShape DEF Truncated, Errors
  <2>4. CASE Take(n, Align(n)) /\ Continue(<<Counted>>)
    BY <1>0, <2>2, <2>4, ContinueShape DEF Reads
  <2> QED
    BY <1>3, <2>3, <2>4 DEF Number
<1>4. CASE StringLength \/ Seconds \/ Nanoseconds
  <2>1. CASE Truncated(4, 4)
    BY <1>0, <2>1, RaiseShape DEF Truncated, Errors
  <2>2. ASSUME NEW frames, Continue(frames), Take(4, 4)
        PROVE  StepShape
    BY <1>0, <2>2, ContinueShape DEF Reads, Alignments
  <2> QED
    BY <1>4, <2>1, <2>2 DEF StringLength, Seconds, Nanoseconds, TakeNumber
<1>5. CASE Text
  <2>1. Top.n \in Nat
    BY <1>0, TopGood
  <2>2. CASE Truncated(Top.n, 1)
    BY <1>0, <2>2, RaiseShape DEF Truncated, Errors
  <2>3. CASE Take(Top.n, 1) /\ Continue(<<>>)
    BY <1>0, <2>1, <2>3, ContinueShape DEF Reads, Alignments
  <2>4. CASE Take(Top.n, 1) /\ Raise("ValueError")
    BY <1>0, <2>1, <2>4, RaiseShape DEF Reads, Alignments, Errors
  <2> QED
    BY <1>5, <2>2, <2>3, <2>4 DEF Text
<1> QED
  BY <1>1, <1>2, <1>3, <1>4, <1>5 DEF ElementStep

LEMMA NextShape == TypeInv /\ Next => StepShape
<1>1. TypeInv /\ Build => StepShape
  BY DEF Build, StepShape, Outcomes, Errors
<1>2. TypeInv /\ Open => StepShape
  BY DEF Open, StepShape, Outcomes, Errors
<1>3. TypeInv /\ Finish => StepShape
  BY DEF Finish, StepShape, Outcomes
<1> QED
  BY <1>1, <1>2, <1>3, EnterShape, FieldShape, ArrayShape, ElementShape DEF Next

\* One more read after the last keeps a sequence of reads contiguous.
LEMMA AppendContiguous ==
  ASSUME NEW ss \in Seq(Span), Contiguous(ss), NEW sp \in Span,
         sp.from = Padded(EndOf(ss, Len(ss)), sp.align)
  PROVE  /\ Contiguous(Append(ss, sp))
         /\ EndOf(Append(ss, sp), Len(Append(ss, sp))) = sp.from + sp.size
<1> DEFINE new == Append(ss, sp)
<1>1. /\ Len(new) = Len(ss) + 1 /\ Len(ss) \in Nat
      /\ DOMAIN new = 1 .. Len(ss) + 1 /\ DOMAIN ss = 1 .. Len(ss)
      /\ \A i \in DOMAIN ss : new[i] = ss[i]
      /\ new[Len(ss) + 1] = sp
  OBVIOUS
<1> HIDE DEF new
<1>2. \A i \in 0 .. Len(ss) : EndOf(new, i) = EndOf(ss, i)
  BY <1>1 DEF EndOf
<1>3. \A i \in DOMAIN ss : new[i].from = Padded(EndOf(new, i - 1), new[i].align)
  <2> TAKE i \in DOMAIN ss
  <2>1. i - 1 \in 0 .. Len(ss) /\ new[i] = ss[i]
    BY <1>1
  <2>2. EndOf(new, i - 1) = EndOf(ss, i - 1)
    BY <1>2, <2>1
  <2> QED
    BY <2>1, <2>2 DEF Contiguous
<1>4. new[Len(ss) + 1].from = Padded(EndOf(new, Len(ss) + 1 - 1), new[Len(ss) + 1].align)
  <2>1. Len(ss) + 1 - 1 = Len(ss) /\ Len(ss) \in 0 .. Len(ss)
    BY <1>1
  <2> QED
    BY <1>1, <1>2, <2>1
<1>5. Contiguous(new)
  BY <1>1, <1>3, <1>4 DEF Contiguous
<1>6. EndOf(new, Len(new)) = sp.from + sp.size
  BY <1>1 DEF EndOf
<1> QED
  BY <1>5, <1>6 DEF new

LEMMA SpansStep ==
  ASSUME TypeInv, SpansSound, [Next]_vars
  PROVE  SpansSound'
<1>1. spans \in Seq(Span) /\ offset \in Nat /\ offset >= 4
  BY DEF TypeInv, ReaderTyped
<1>2. CASE payload' = payload /\ UNCHANGED <<offset, spans>>
  BY <1>2 DEF SpansSound
<1>3. ASSUME payload' = payload, NEW n \in Nat, NEW a \in Alignments, Take(n, a)
      PROVE  SpansSound'
  <2> DEFINE new == [from |-> Start(a) - 4, size |-> n, align |-> a]
  <2>1. Start(a) \in Nat /\ Start(a) - 4 \in Nat /\ Start(a) - 4 = Padded(offset - 4, a)
    BY <1>1, StartInBody
  <2>2. spans' = Append(spans, new) /\ offset' = Start(a) + n /\ Start(a) + n <= payload.size
    BY <1>3 DEF Take, Fits
  <2>3. new \in Span
    BY <2>1 DEF Span
  <2>4. Contiguous(spans) /\ offset = 4 + EndOf(spans, Len(spans))
    BY DEF SpansSound
  <2>5. new.from = Padded(EndOf(spans, Len(spans)), new.align)
    <3>1. offset - 4 = EndOf(spans, Len(spans))
      <4>1. EndOf(spans, Len(spans)) \in Nat
        <5>1. CASE Len(spans) = 0
          BY <5>1 DEF EndOf
        <5>2. CASE Len(spans) # 0
          <6>1. spans[Len(spans)] \in Span
            BY <1>1, <5>2
          <6> QED
            BY <5>2, <6>1 DEF EndOf, Span
        <5> QED
          BY <5>1, <5>2
      <4> QED
        BY <2>4, <4>1
    <3> QED
      BY <2>1, <3>1
  <2>6. Contiguous(spans') /\ EndOf(spans', Len(spans')) = Start(a) - 4 + n
    BY <1>1, <2>2, <2>3, <2>4, <2>5, AppendContiguous
  <2>7. offset' = 4 + EndOf(spans', Len(spans'))
    BY <2>1, <2>2, <2>6
  <2> QED
    BY <1>3, <2>2, <2>6, <2>7 DEF SpansSound
<1>4. CASE UNCHANGED vars
  BY <1>4 DEF vars, SpansSound
<1> QED
  BY <1>2, <1>3, <1>4, NextShape DEF StepShape, Reads

\* Every read is aligned, adjacent up to padding to the one before it, and
\* inside the payload: for every schema, payload and alignment rule.
THEOREM ReadsSound == Spec => []SpansSound
<1>1. Init => SpansSound
  BY DEF Init, SpansSound, EndOf, Contiguous
<1>2. TypeInv /\ SpansSound /\ [Next]_vars => SpansSound'
  BY SpansStep
<1> QED
  BY <1>1, <1>2, TypeCorrect, PTL DEF Spec

-----------------------------------------------------------------------------
(* Refinement *)

\* The decoder's calls to Reader::take are the reads of a cursor.
THEOREM DecoderIsACursor == Spec => Cursor!Spec
<1> DEFINE length == IF payload.size < 4 THEN 0 ELSE payload.size - 4
           verdict == IF outcome = "ok" THEN "accepted"
                      ELSE IF outcome \in Errors THEN "rejected" ELSE "reading"
<1>1. Init => Cursor!Init
  <2> SUFFICES ASSUME Init PROVE Cursor!Init
    OBVIOUS
  <2>1. payload.size \in Nat
    BY PayloadsAssumption DEF Init, Payload
  <2> QED
    BY <2>1 DEF Init, Cursor!Init, Errors
<1>2. TypeInv /\ [Next]_vars => [Cursor!Next]_(Cursor!cursorVars)
  <2> SUFFICES ASSUME TypeInv, [Next]_vars PROVE [Cursor!Next]_(Cursor!cursorVars)
    OBVIOUS
  <2>1. payload.size \in Nat /\ offset \in Nat /\ offset >= 4 /\ outcome \in Outcomes
    BY DEF TypeInv, ConfigTyped, ReaderTyped, Payload
  <2>2. CASE UNCHANGED vars
    BY <2>2 DEF vars, Cursor!cursorVars
  <2>3. CASE /\ payload' = payload
             /\ outcome \in {"new", "built", "running"}
             /\ UNCHANGED <<offset, spans>>
             /\ outcome' \in Outcomes
    <3>1. verdict = "reading"
      BY <2>3 DEF Errors
    <3>2. verdict' \in {"reading", "accepted", "rejected"}
      OBVIOUS
    <3> QED
      BY <2>3, <3>1, <3>2
         DEF Cursor!Next, Cursor!Accept, Cursor!Reject, Cursor!cursorVars
  <2>4. ASSUME payload' = payload, outcome = "running", outcome' \in {"running"} \cup Errors,
               NEW n \in Nat, NEW a \in Alignments, Take(n, a)
        PROVE  Cursor!Next
    <3>1. Start(a) \in Nat /\ Start(a) >= offset /\ Start(a) - 4 = Padded(offset - 4, a)
      BY <2>1, StartInBody
    <3>2. offset' = Start(a) + n /\ Start(a) + n <= payload.size
      BY <2>4 DEF Take, Fits
    <3>3. length = payload.size - 4 /\ length' = length
      BY <2>1, <2>4, <3>1, <3>2
    <3>4. n \in 0 .. length /\ Padded(offset - 4, a) + n <= length
      BY <2>1, <3>1, <3>2, <3>3
    <3>5. offset' - 4 = Padded(offset - 4, a) + n
      BY <2>1, <3>1, <3>2
    <3>6. spans' = Append(spans, [from |-> Padded(offset - 4, a), size |-> n, align |-> a])
      BY <2>4, <3>1 DEF Take
    <3>7. verdict = "reading" /\ verdict' \in {"reading", "rejected"}
      BY <2>4 DEF Errors
    <3>8. Cursor!Read(n, a) \/ Cursor!ReadAndReject(n, a)
      <4>1. Cursor!Padded(offset - 4, a) = Padded(offset - 4, a)
        BY DEF Cursor!Padded, Cursor!Padding, Padded, Padding
      <4> QED
        BY <3>3, <3>4, <3>5, <3>6, <3>7, <4>1
           DEF Cursor!Read, Cursor!ReadAndReject
    <3> QED
      BY <3>4, <3>8 DEF Cursor!Next, Cursor!Alignments, Alignments
  <2> QED
    BY <2>2, <2>3, <2>4, NextShape DEF StepShape, Reads
<1> QED
  BY <1>1, <1>2, TypeCorrect, PTL DEF Spec, Cursor!Spec

\* The same, under the name the model checker uses.
THEOREM ReadsAsCursorHolds == Spec => ReadsAsCursor
BY DecoderIsACursor DEF ReadsAsCursor

-----------------------------------------------------------------------------
(* Nesting *)

\* What holds of each call in progress: a field is only read at a depth that
\* read_plan admitted, a loop only runs for a count the body could hold.
Admitted(fr) ==
  /\ fr.op \in {"field", "array", "elems"} => fr.depth <= MaxDepth
  /\ fr.op = "elems" =>
       /\ fr.done <= fr.n
       /\ fr.field.count # -1 => fr.n <= payload.size - 4

\* Calls get deeper from the bottom of the stack to its top, strictly above a
\* loop: each element of a loop is read one level down.
NestInv ==
  /\ \A i \in DOMAIN stack : Admitted(stack[i])
  /\ \A i, j \in DOMAIN stack :
       i < j /\ stack[j].op = "elems" => stack[j].depth < stack[i].depth

LEMMA NestInvImpliesLoopsNest == NestInv => LoopsNest
BY DEF NestInv, LoopsNest, Admitted

\* Calls that replace the innermost one, none of them less deep than it.
LEMMA NestContinue ==
  ASSUME TypeInv, NestInv, stack # <<>>, NEW frames \in Seq(GoodFrame), Continue(frames),
         \A i \in DOMAIN frames : Admitted(frames[i]) /\ frames[i].depth >= Top.depth,
         \A i, j \in DOMAIN frames :
           i < j /\ frames[j].op = "elems" => frames[j].depth < frames[i].depth
  PROVE  NestInv'
<1> DEFINE rest == Tail(stack)
<1>1. /\ stack \in Seq(GoodFrame) /\ Len(stack) \in Nat /\ Len(stack) > 0
      /\ DOMAIN stack = 1 .. Len(stack)
      /\ Top = stack[1]
  BY DEF TypeInv, Top
<1>2. /\ DOMAIN rest = 1 .. Len(stack) - 1
      /\ \A i \in DOMAIN rest : rest[i] = stack[i + 1] /\ i + 1 \in DOMAIN stack
  BY <1>1
<1>3. /\ DOMAIN frames = 1 .. Len(frames) /\ Len(frames) \in Nat
      /\ DOMAIN (frames \o rest) = 1 .. Len(frames) + Len(stack) - 1
      /\ \A i \in DOMAIN frames : (frames \o rest)[i] = frames[i]
      /\ \A i \in DOMAIN (frames \o rest) : i \notin DOMAIN frames =>
           /\ i - Len(frames) \in DOMAIN rest
           /\ (frames \o rest)[i] = rest[i - Len(frames)]
  BY <1>1, <1>2
<1> DEFINE new == frames \o rest
<1> HIDE DEF new, rest
<1>4. stack' = new /\ payload' = payload
  BY DEF Continue, new, rest
<1>5. \A k \in DOMAIN rest : rest[k].op = "elems" => rest[k].depth < Top.depth
  BY <1>1, <1>2 DEF NestInv
<1>6. \A k, l \in DOMAIN rest :
        k < l /\ rest[l].op = "elems" => rest[l].depth < rest[k].depth
  BY <1>1, <1>2 DEF NestInv
<1>7. \A i \in DOMAIN new : Admitted(new[i])
  <2> TAKE i \in DOMAIN new
  <2>1. CASE i \in DOMAIN frames
    BY <1>3, <2>1 DEF new
  <2>2. CASE i \notin DOMAIN frames
    <3>1. i - Len(frames) \in DOMAIN rest /\ new[i] = rest[i - Len(frames)]
      BY <1>3, <2>2 DEF new
    <3> QED
      BY <1>2, <3>1 DEF NestInv
  <2> QED
    BY <2>1, <2>2
<1>8. ASSUME NEW i \in DOMAIN new, NEW j \in DOMAIN new, i < j, new[j].op = "elems"
      PROVE  new[j].depth < new[i].depth
  <2>1. CASE j \in DOMAIN frames
    <3>1. i \in DOMAIN frames
      BY <1>3, <1>8, <2>1 DEF new
    <3> QED
      BY <1>3, <1>8, <2>1, <3>1 DEF new
  <2>2. CASE j \notin DOMAIN frames
    <3>1. j - Len(frames) \in DOMAIN rest /\ new[j] = rest[j - Len(frames)]
      BY <1>3, <2>2 DEF new
    <3>2. new[j].depth < Top.depth
      BY <1>5, <1>8, <3>1
    <3>3. CASE i \in DOMAIN frames
      <4>1. new[i] = frames[i] /\ frames[i].depth >= Top.depth /\ frames[i].depth \in Nat
        BY <1>3, <3>3 DEF new, GoodFrame, Frame
      <4>2. Top.depth \in Nat /\ new[j].depth \in Nat
        <5>1. rest[j - Len(frames)] \in GoodFrame
          BY <1>1, <1>2, <3>1
        <5> QED
          BY <3>1, <5>1, TopGood DEF GoodFrame, Frame
      <4> QED
        BY <3>2, <4>1, <4>2
    <3>4. CASE i \notin DOMAIN frames
      <4>1. i - Len(frames) \in DOMAIN rest /\ new[i] = rest[i - Len(frames)]
        BY <1>3, <3>4 DEF new
      <4>2. i - Len(frames) < j - Len(frames)
        BY <1>3, <1>8 DEF new
      <4> QED
        BY <1>6, <1>8, <3>1, <4>1, <4>2
    <3> QED
      BY <3>3, <3>4
  <2> QED
    BY <2>1, <2>2
<1>9. \A fr : Admitted(fr)' <=> Admitted(fr)
  BY <1>4 DEF Admitted
<1> QED
  BY <1>4, <1>7, <1>8 DEF NestInv, Admitted

\* One call in place of the innermost one.
LEMMA NestOne ==
  ASSUME TypeInv, NestInv, stack # <<>>, NEW f \in GoodFrame, Continue(<<f>>),
         Admitted(f), f.depth >= Top.depth
  PROVE  NestInv'
<1>1. <<f>> \in Seq(GoodFrame) /\ DOMAIN <<f>> = {1} /\ <<f>>[1] = f
  OBVIOUS
<1> QED
  BY <1>1, NestContinue

\* The innermost call returns.
LEMMA NestReturn ==
  ASSUME TypeInv, NestInv, stack # <<>>, Continue(<<>>)
  PROVE  NestInv'
<1>1. <<>> \in Seq(GoodFrame) /\ DOMAIN <<>> = {}
  OBVIOUS
<1> QED
  BY <1>1, NestContinue

\* A call above a loop, one level deeper.
LEMMA NestTwo ==
  ASSUME TypeInv, NestInv, stack # <<>>, NEW f \in GoodFrame, NEW g \in GoodFrame,
         Continue(<<f, g>>), Admitted(f), Admitted(g),
         f.depth > Top.depth, g.depth = Top.depth
  PROVE  NestInv'
<1>1. f.depth \in Nat /\ g.depth \in Nat /\ Top.depth \in Nat
  BY TopGood DEF GoodFrame, Frame
<1>2. <<f, g>> \in Seq(GoodFrame)
  OBVIOUS
<1>3. \A i \in DOMAIN <<f, g>> : Admitted(<<f, g>>[i]) /\ <<f, g>>[i].depth >= Top.depth
  BY <1>1
<1>4. \A i, j \in DOMAIN <<f, g>> :
        i < j /\ <<f, g>>[j].op = "elems" => <<f, g>>[j].depth < <<f, g>>[i].depth
  BY <1>1
<1> QED
  BY <1>2, <1>3, <1>4, NestContinue

LEMMA NestRaise == ASSUME NEW e, Raise(e) PROVE NestInv'
BY DEF Raise, NestInv

\* The fields of a plan, in place of the call that entered it.
LEMMA NestFields ==
  ASSUME TypeInv, NestInv, InPlan, NEW fs \in Seq(Field),
         \A i \in DOMAIN fs : GoodField(fs[i]), Continue(Fields(fs))
  PROVE  NestInv'
<1>1. stack # <<>> /\ Top.depth <= MaxDepth /\ Top.depth \in Nat
  BY TopGood DEF InPlan, At
<1>2. Fields(fs) \in Seq(GoodFrame)
  BY <1>1, FieldsGood
<1>3. \A i \in DOMAIN Fields(fs) : Fields(fs)[i] = Call("field", fs[i], 0, Top.depth)
  BY DEF Fields
<1>4. \A i \in DOMAIN Fields(fs) :
        /\ Fields(fs)[i].op = "field" /\ Fields(fs)[i].depth = Top.depth
        /\ Admitted(Fields(fs)[i])
  BY <1>1, <1>3 DEF Call, Admitted
<1>5. \A i \in DOMAIN Fields(fs) : Fields(fs)[i].depth >= Top.depth
  BY <1>1, <1>4
<1> QED
  BY <1>1, <1>2, <1>4, <1>5, NestContinue

LEMMA EnterNest == TypeInv /\ NestInv /\ Enter => NestInv'
<1> SUFFICES ASSUME TypeInv, NestInv, Enter PROVE NestInv'
  OBVIOUS
<1>0. stack # <<>> /\ At("plan")
  BY DEF Enter, TooDeep, EnterUnion, BadSwitch, EnterEmpty, EnterStruct, InPlan, At
<1>1. CASE TooDeep \/ BadSwitch
  BY <1>1, NestRaise DEF TooDeep, BadSwitch
<1>2. CASE EnterUnion
  <2>1. ASSUME NEW v, NEW f \in Selected(ThePlan, v), Continue(<<Call("field", f, 0, Top.depth)>>)
        PROVE  NestInv'
    <3>1. GoodField(f) /\ Top.depth \in Nat /\ Top.depth <= MaxDepth
      BY <1>0, <1>2, SelectedGood, TopGood DEF EnterUnion, InPlan
    <3>2. Call("field", f, 0, Top.depth) \in GoodFrame
      BY <3>1, CallGood
    <3>3. Admitted(Call("field", f, 0, Top.depth)) /\ Call("field", f, 0, Top.depth).depth >= Top.depth
      BY <3>1 DEF Admitted, Call
    <3> QED
      BY <1>0, <2>1, <3>2, <3>3, NestOne
  <2> QED
    BY <1>2, <2>1, NestRaise DEF EnterUnion, Truncated
<1>3. CASE EnterEmpty
  BY <1>0, <1>3, NestReturn, NestRaise DEF EnterEmpty, Truncated
<1>4. CASE EnterStruct
  <2>1. ThePlan.fields \in Seq(Field) /\ \A i \in DOMAIN ThePlan.fields : GoodField(ThePlan.fields[i])
    BY <1>0, PlanGood DEF Plan, Targets
  <2> QED
    BY <1>4, <2>1, NestFields DEF EnterStruct
<1> QED
  BY <1>1, <1>2, <1>3, <1>4 DEF Enter

LEMMA FieldNest == TypeInv /\ NestInv /\ FieldStep => NestInv'
<1> SUFFICES ASSUME TypeInv, NestInv, FieldStep PROVE NestInv'
  OBVIOUS
<1>0. /\ stack # <<>> /\ Top.op = "field" /\ Top.depth \in Nat
      /\ GoodField(Top.field) /\ Top.field \in Field
  BY TopGood DEF FieldStep, Wide, One, ReadCount, FixedCount, NegativeCount, InField, At, Top
<1>1. Top.depth <= MaxDepth
  <2>1. 1 \in DOMAIN stack /\ Top = stack[1]
    BY <1>0 DEF Top, TypeInv
  <2> QED
    BY <1>0, <2>1 DEF NestInv, Admitted
<1>2. CASE Wide
  BY <1>2, NestRaise DEF Wide
<1>3. CASE One
  <2> DEFINE c == Call("elems", Top.field, 1, Top.depth)
  <2>1. c \in GoodFrame
    BY <1>0, CallGood
  <2>2. Admitted(c) /\ c.depth >= Top.depth
    BY <1>0, <1>1, <1>3 DEF Admitted, Call, One
  <2> QED
    BY <1>0, <1>3, <2>1, <2>2, NestOne DEF One
<1>4. ASSUME NEW v \in Nat, Continue(<<Call("array", Top.field, v, Top.depth)>>)
      PROVE  NestInv'
  <2> DEFINE c == Call("array", Top.field, v, Top.depth)
  <2>1. c \in GoodFrame
    BY <1>0, CallGood
  <2>2. Admitted(c) /\ c.depth >= Top.depth
    BY <1>0, <1>1 DEF Admitted, Call
  <2> QED
    BY <1>0, <1>4, <2>1, <2>2, NestOne
<1>5. CASE ReadCount
  BY <1>4, <1>5, NestRaise DEF ReadCount, Truncated
<1>6. CASE FixedCount
  <2>1. Top.field.count \in Nat
    BY <1>0, <1>6 DEF FixedCount, Field
  <2> QED
    BY <1>4, <1>6, <2>1 DEF FixedCount
<1>7. CASE NegativeCount
  BY <1>7, NestRaise DEF NegativeCount
<1> QED
  BY <1>2, <1>3, <1>5, <1>6, <1>7 DEF FieldStep

LEMMA ArrayNest == TypeInv /\ NestInv /\ ArrayStep => NestInv'
<1> SUFFICES ASSUME TypeInv, NestInv, ArrayStep PROVE NestInv'
  OBVIOUS
<1>0. /\ stack # <<>> /\ Top.op = "array" /\ Top.depth \in Nat /\ Top.n \in Nat
      /\ GoodField(Top.field)
  BY TopGood DEF ArrayStep, LengthExceeds, ReadBytes, EmptyArray, Bulk, StartLoop, At, Top
<1>1. Top.depth <= MaxDepth
  <2>1. 1 \in DOMAIN stack /\ Top = stack[1]
    BY <1>0 DEF Top, TypeInv
  <2> QED
    BY <1>0, <2>1 DEF NestInv, Admitted
<1>2. CASE LengthExceeds
  BY <1>2, NestRaise DEF LengthExceeds
<1>3. CASE ReadBytes \/ EmptyArray
  BY <1>0, <1>3, NestReturn DEF ReadBytes, EmptyArray
<1>4. CASE Bulk
  BY <1>0, <1>4, NestReturn, NestRaise DEF Bulk, Truncated
<1>5. CASE StartLoop
  <2> DEFINE c == Call("elems", Top.field, Top.n, Top.depth)
  <2>1. c \in GoodFrame
    BY <1>0, CallGood
  <2>2. payload.size \in Nat /\ offset \in Nat /\ offset >= 4
    BY DEF TypeInv, ConfigTyped, ReaderTyped, Payload
  <2>3. Top.n <= payload.size - 4
    BY <1>0, <1>5, <2>2 DEF StartLoop, Exceeds
  <2>4. Admitted(c) /\ c.depth >= Top.depth
    BY <1>0, <1>1, <2>3 DEF Admitted, Call
  <2> QED
    BY <1>0, <1>5, <2>1, <2>4, NestOne DEF StartLoop
<1> QED
  BY <1>2, <1>3, <1>4, <1>5 DEF ArrayStep

LEMMA ElementNest == TypeInv /\ NestInv /\ ElementStep => NestInv'
<1> SUFFICES ASSUME TypeInv, NestInv, ElementStep PROVE NestInv'
  OBVIOUS
<1>0. stack # <<>>
  BY DEF ElementStep, EndLoop, Nested, Number, StringLength, Text, Seconds,
         Nanoseconds, Unrecognized, InLoop, At
<1>1. CASE EndLoop \/ Text \/ Nanoseconds
  BY <1>0, <1>1, NestReturn, NestRaise DEF EndLoop, Text, Nanoseconds, Truncated
<1>2. CASE Unrecognized
  BY <1>2, NestRaise DEF Unrecognized
<1>3. CASE Nested \/ Number \/ StringLength \/ Seconds
  <2>1. Top.op = "elems" /\ Top.done < Top.n
    BY <1>3 DEF Nested, Number, StringLength, Seconds, InLoop, At, Top
  <2>2. Top \in Frame /\ Top.done \in Nat /\ Top.n \in Nat /\ Top.depth \in Nat
    BY <1>0, TopGood DEF GoodFrame
  <2>3. Admitted(Top)
    <3>1. 1 \in DOMAIN stack /\ Top = stack[1]
      BY <1>0 DEF Top, TypeInv
    <3> QED
      BY <3>1 DEF NestInv
  <2>4. /\ Counted.op = Top.op /\ Counted.field = Top.field /\ Counted.n = Top.n
        /\ Counted.done = Top.done + 1 /\ Counted.depth = Top.depth
    BY <2>2 DEF Counted, Frame
  <2>5. Admitted(Counted) /\ Counted.depth >= Top.depth
    BY <2>1, <2>2, <2>3, <2>4 DEF Admitted
  <2>6. Counted \in GoodFrame
    BY <2>2, <2>4, <1>0, TopGood DEF GoodFrame, Frame, Counted, GoodField
  <2>7. ASSUME NEW op \in {"plan", "text", "nsec"}, NEW n \in Nat,
               Continue(<<Inner(op, n), Counted>>), Inner(op, n) \in GoodFrame
        PROVE  NestInv'
    <3>1. Admitted(Inner(op, n)) /\ Inner(op, n).depth > Top.depth
      BY <2>2 DEF Inner, Call, Admitted
    <3> QED
      BY <1>0, <2>4, <2>5, <2>6, <2>7, <3>1, NestTwo
  <2>8. CASE Number
    BY <1>0, <2>5, <2>6, <2>8, NestOne, NestRaise DEF Number, Truncated
  <2>9. CASE Nested
    <3>1. Inner("plan", 0) \in GoodFrame
      BY <1>0, <2>2, <2>9, TopGood, CallGood DEF Inner, Nested, InLoop
    <3> QED
      BY <2>7, <2>9, <3>1 DEF Nested
  <2>10. \A op \in {"text", "nsec"}, n \in Nat : Inner(op, n) \in GoodFrame
    BY <1>0, <2>2, TopGood, CallGood DEF Inner
  <2>11. CASE StringLength
    BY <2>7, <2>10, <2>11, NestRaise DEF StringLength, Truncated
  <2>12. CASE Seconds
    BY <2>7, <2>10, <2>12, NestRaise DEF Seconds, Truncated
  <2> QED
    BY <1>3, <2>8, <2>9, <2>11, <2>12
<1> QED
  BY <1>1, <1>2, <1>3 DEF ElementStep

LEMMA NestStep == TypeInv /\ NestInv /\ [Next]_vars => NestInv'
<1> SUFFICES ASSUME TypeInv, NestInv, [Next]_vars PROVE NestInv'
  OBVIOUS
<1>1. CASE UNCHANGED vars
  BY <1>1 DEF vars, NestInv, Admitted
<1>2. CASE Build
  BY <1>2 DEF Build, NestInv, Admitted
<1>3. CASE Open
  <2>1. CASE stack' = <<Call("plan", Root, 0, 0)>>
    BY <2>1 DEF NestInv, Admitted, Call
  <2>2. CASE stack' = stack
    BY <1>3, <2>2 DEF Open, NestInv, Admitted
  <2> QED
    BY <1>3, <2>1, <2>2 DEF Open
<1>4. CASE Finish
  BY <1>4 DEF Finish, NestInv, Admitted
<1> QED
  BY <1>1, <1>2, <1>3, <1>4, EnterNest, FieldNest, ArrayNest, ElementNest DEF Next

\* Loops in progress nest strictly, at most MaxDepth + 1 of them, and each was
\* admitted for no more elements than the body has bytes: the capacity that
\* Vec::with_capacity reserves never exceeds (MaxDepth + 1) times the payload.
THEOREM LoopsNestHolds == Spec => []LoopsNest
<1>1. Init => NestInv
  BY DEF Init, NestInv
<1> QED
  BY <1>1, NestStep, NestInvImpliesLoopsNest, TypeCorrect, PTL DEF Spec

-----------------------------------------------------------------------------
(* The loops of the Python reader *)

\* A loop leads where the states between its steps lead: see Path.
LEMMA LoopIs ==
  ASSUME NEW S, NEW s \in S, NEW steps \in Seq([S -> S]), NEW p, Path(p, S, s, steps)
  PROVE  Reference!Through(s, steps) = p[Len(steps)]
<1> DEFINE n == Len(steps)
           Step(h, k) == IF k = 0 THEN s ELSE steps[k][h[k - 1]]
           after == CHOOSE h : h = [k \in 0..n |-> Step(h, k)]
<1>1. p = [k \in 0..n |-> Step(p, k)]
  <2>1. \A k \in 0..n : p[k] = Step(p, k)
    BY DEF Path
  <2>2. p \in [0..n -> S]
    BY DEF Path
  <2> QED
    BY <2>1, <2>2
<1>2. after = [k \in 0..n |-> Step(after, k)]
  BY <1>1
<1>3. Reference!Through(s, steps) = after[n]
  BY DEF Reference!Through
<1> HIDE DEF after
<1> DEFINE T == {k \in Nat : k <= n => after[k] = p[k]}
<1>4. n \in Nat
  OBVIOUS
<1>5. 0 \in T
  BY <1>2, <1>4 DEF Path
<1>6. ASSUME NEW k \in Nat, k \in T PROVE k + 1 \in T
  <2> SUFFICES ASSUME k + 1 <= n PROVE after[k + 1] = p[k + 1]
    OBVIOUS
  <2>1. k + 1 \in 0..n /\ k + 1 # 0 /\ (k + 1) - 1 = k /\ k <= n
    BY <1>4
  <2>2. after[k + 1] = Step(after, k + 1)
    BY <1>2, <2>1
  <2>3. p[k + 1] = Step(p, k + 1)
    BY <1>1, <2>1
  <2>4. after[k] = p[k]
    BY <1>6, <2>1
  <2> QED
    BY <2>1, <2>2, <2>3, <2>4
<1> HIDE DEF T
<1>7. n \in T
  BY <1>4, <1>5, <1>6, Induct
<1> QED
  BY <1>3, <1>4, <1>7 DEF T

LEMMA LoopTyped ==
  ASSUME NEW S, NEW s \in S, NEW steps \in Seq([S -> S])
  PROVE  Reference!Through(s, steps) \in S
<1>1. PICK p : Path(p, S, s, steps)
  BY PathExists
<1>2. Len(steps) \in 0..Len(steps)
  OBVIOUS
<1> QED
  BY <1>1, <1>2, LoopIs DEF Path

\* A loop is its first steps, then the others.
LEMMA LoopSplits ==
  ASSUME NEW S, NEW s \in S, NEW xs \in Seq([S -> S]), NEW ys \in Seq([S -> S])
  PROVE  Reference!Through(s, xs \o ys) = Reference!Through(Reference!Through(s, xs), ys)
<1> DEFINE m == Len(xs)
           n == Len(ys)
           zs == xs \o ys
<1>1. m \in Nat /\ n \in Nat /\ zs \in Seq([S -> S]) /\ Len(zs) = m + n
  OBVIOUS
<1>2. /\ \A k \in 1..m : zs[k] = xs[k]
      /\ \A k \in (m + 1)..(m + n) : zs[k] = ys[k - m]
  OBVIOUS
<1>3. PICK p : Path(p, S, s, xs)
  BY PathExists
<1>4. p[m] \in S /\ Reference!Through(s, xs) = p[m]
  BY <1>1, <1>3, LoopIs DEF Path
<1>5. PICK q : Path(q, S, p[m], ys)
  BY <1>4, PathExists
<1>6. Reference!Through(p[m], ys) = q[n]
  BY <1>4, <1>5, LoopIs
<1> HIDE DEF m, n, zs
<1> DEFINE r == [k \in 0..(m + n) |-> IF k <= m THEN p[k] ELSE q[k - m]]
<1>7. p \in [0..m -> S] /\ p[0] = s /\ q \in [0..n -> S] /\ q[0] = p[m]
  BY <1>3, <1>5 DEF Path, m, n
<1>8. r \in [0..(m + n) -> S] /\ r[0] = s
  <2>1. ASSUME NEW k \in 0..(m + n) PROVE (IF k <= m THEN p[k] ELSE q[k - m]) \in S
    BY <1>1, <1>7
  <2> QED
    BY <1>1, <1>7, <2>1
<1>9. ASSUME NEW k \in 1..(m + n) PROVE r[k] = zs[k][r[k - 1]]
  <2>1. CASE k <= m
    <3>1. k \in 1..m /\ r[k] = p[k] /\ r[k - 1] = p[k - 1]
      BY <1>1, <2>1
    <3>2. p[k] = xs[k][p[k - 1]]
      BY <1>3, <3>1 DEF Path, m
    <3> QED
      BY <1>2, <3>1, <3>2
  <2>2. CASE k > m
    <3>1. k - m \in 1..n /\ r[k] = q[k - m] /\ k \in (m + 1)..(m + n)
      BY <1>1, <2>2
    <3>2. r[k - 1] = q[(k - m) - 1]
      <4>1. CASE k - 1 = m
        BY <1>1, <1>7, <4>1
      <4>2. CASE k - 1 > m
        BY <1>1, <4>2
      <4> QED
        BY <1>1, <2>2, <4>1, <4>2
    <3>3. q[k - m] = ys[k - m][q[(k - m) - 1]]
      BY <1>5, <3>1 DEF Path, n
    <3>4. zs[k] = ys[k - m]
      BY <1>2, <3>1
    <3> HIDE DEF r
    <3> QED
      BY <3>1, <3>2, <3>3, <3>4
  <2> QED
    BY <1>1, <2>1, <2>2
<1>10. r[m + n] = q[n]
  <2>1. CASE n = 0
    BY <1>1, <1>7, <2>1
  <2>2. CASE n # 0
    BY <1>1, <2>2
  <2> QED
    BY <2>1, <2>2
<1> HIDE DEF r
<1>11. Path(r, S, s, zs)
  BY <1>1, <1>8, <1>9 DEF Path
<1>12. Reference!Through(s, zs) = r[m + n]
  BY <1>1, <1>11, LoopIs
<1> QED
  BY <1>4, <1>6, <1>10, <1>12 DEF zs

LEMMA LoopNone ==
  ASSUME NEW S, NEW s \in S
  PROVE  Reference!Through(s, <<>>) = s
<1> DEFINE p == [k \in 0..0 |-> s]
<1>1. Path(p, S, s, <<>>)
  BY DEF Path
<1>2. <<>> \in Seq([S -> S])
  OBVIOUS
<1> HIDE DEF p
<1>3. Reference!Through(s, <<>>) = p[Len(<<>>)]
  BY <1>1, <1>2, LoopIs
<1> QED
  BY <1>1, <1>3 DEF Path

LEMMA LoopOne ==
  ASSUME NEW S, NEW s \in S, NEW f \in [S -> S]
  PROVE  Reference!Through(s, <<f>>) = f[s]
<1> DEFINE one == <<f>>
<1>1. one \in Seq([S -> S]) /\ Len(one) = 1 /\ one[1] = f
  OBVIOUS
<1> HIDE DEF one
<1>2. PICK p : Path(p, S, s, one)
  BY <1>1, PathExists
<1>3. p[1] = f[s]
  BY <1>1, <1>2 DEF Path
<1>4. Reference!Through(s, one) = p[Len(one)]
  BY <1>1, <1>2, LoopIs
<1> QED
  BY <1>1, <1>3, <1>4 DEF one

LEMMA LoopFirst ==
  ASSUME NEW S, NEW s \in S, NEW f \in [S -> S], NEW ys \in Seq([S -> S])
  PROVE  Reference!Through(s, <<f>> \o ys) = Reference!Through(f[s], ys)
<1> DEFINE one == <<f>>
<1>1. one \in Seq([S -> S])
  OBVIOUS
<1>2. Reference!Through(s, one) = f[s]
  BY LoopOne
<1> HIDE DEF one
<1>3. Reference!Through(s, one \o ys) = Reference!Through(f[s], ys)
  BY <1>1, <1>2, LoopSplits
<1> QED
  BY <1>3 DEF one

\* The same step n times over.
LEMMA LoopRepeats ==
  ASSUME NEW S, NEW s \in S, NEW f \in [S -> S], NEW n \in Nat, n # 0
  PROVE  Reference!Through(s, [k \in 1..n |-> f]) =
           Reference!Through(f[s], [k \in 1..(n - 1) |-> f])
<1> DEFINE ys == [k \in 1..(n - 1) |-> f]
           zs == [k \in 1..n |-> f]
<1>1. ys \in Seq([S -> S]) /\ Len(ys) = n - 1
  BY StepsTyped
<1>2. zs \in Seq([S -> S]) /\ Len(zs) = n
  BY StepsTyped
<1>3. \A k \in 1..n : zs[k] = f
  OBVIOUS
<1>4. \A k \in 1..(n - 1) : ys[k] = f
  OBVIOUS
<1> HIDE DEF ys, zs
<1>5. zs = <<f>> \o ys
  BY <1>1, <1>2, <1>3, <1>4
<1>6. Reference!Through(s, <<f>> \o ys) = Reference!Through(f[s], ys)
  BY <1>1, LoopFirst
<1>7. Reference!Through(s, zs) = Reference!Through(f[s], ys)
  BY <1>5, <1>6
<1> QED
  BY <1>7 DEF ys, zs

-----------------------------------------------------------------------------
(* The Python reader goes from states to states *)

\* A field of the definitions that g has.
FieldIn(g, f) == f \in Field /\ (f.kind = "complex" => f.target \in DOMAIN g.plans)

\* What the reader may be given.
Readers(g) ==
  /\ g.plans \in Seq(Plan) /\ g.eight \in {4, 8} /\ g.body \in Int
  /\ \A t \in DOMAIN g.plans : \A f \in Targets(g.plans[t]) : FieldIn(g, f)

\* What may read the definitions within one.
Nesters(g) == [Reference!State \X (DOMAIN g.plans) -> Reference!State]

LEMMA PaddedAlike == \A o, a : Reference!Padded(o, a) = Padded(o, a)
BY DEF Reference!Padded, Reference!Padding, Padded, Padding

LEMMA SizesAlike == Reference!Sizes = Widths
BY DEF Reference!Sizes, Widths

LEMMA AlignsTo ==
  ASSUME NEW g, Readers(g), NEW s \in Reference!State, NEW width \in {1, 2, 4, 8}
  PROVE  /\ Reference!AlignTo(g, s, width) = Padded(s.at, IF width = 8 THEN g.eight ELSE width)
         /\ Reference!AlignTo(g, s, width) \in Nat /\ Reference!AlignTo(g, s, width) >= s.at
<1> DEFINE a == IF width = 8 THEN g.eight ELSE width
<1>1. Reference!AlignTo(g, s, width) = Padded(s.at, a)
  BY PaddedAlike DEF Reference!AlignTo
<1>2. a \in Alignments
  BY DEF Alignments, Readers
<1>3. s.at \in Nat
  BY DEF Reference!State
<1> HIDE DEF a
<1>4. Padded(s.at, a) \in Nat /\ Padded(s.at, a) >= s.at
  BY <1>2, <1>3, PaddedAligned
<1> QED
  BY <1>1, <1>4 DEF a

LEMMA FailTyped == Reference!Failed \in Reference!State
BY DEF Reference!Failed, Reference!State

LEMMA MovedTyped ==
  ASSUME NEW s \in Reference!State, NEW at \in Nat, NEW more \in SUBSET Nat
  PROVE  Reference!Moved(s, at, more) \in Reference!State
<1> DEFINE read == s.read \cup more
<1>1. read \in SUBSET Nat /\ s.failed \in BOOLEAN
  BY DEF Reference!State
<1>2. Reference!Moved(s, at, more) = [at |-> at, read |-> read, failed |-> s.failed]
  BY DEF Reference!Moved
<1> HIDE DEF read
<1> QED
  BY <1>1, <1>2 DEF Reference!State

LEMMA UnpackTyped ==
  ASSUME NEW g, Readers(g), NEW s \in Reference!State, NEW width \in {1, 2, 4, 8}
  PROVE  Reference!Unpack(g, s, width) \in Reference!State
<1> DEFINE from == Reference!AlignTo(g, s, width)
           at == from + width
           more == Reference!Bytes(from, width)
<1>1. from \in Nat
  BY AlignsTo
<1>2. more \in SUBSET Nat /\ at \in Nat
  BY <1>1 DEF Reference!Bytes
<1>3. Reference!Unpack(g, s, width) = Reference!Failed
        \/ Reference!Unpack(g, s, width) = Reference!Moved(s, at, more)
  BY DEF Reference!Unpack
<1> HIDE DEF at, more
<1>4. Reference!Moved(s, at, more) \in Reference!State
  BY <1>2, MovedTyped
<1> QED
  BY <1>3, <1>4, FailTyped

LEMMA SliceTyped ==
  ASSUME NEW g, NEW s \in Reference!State, NEW from \in Nat, NEW n \in Nat
  PROVE  Reference!Slice(g, s, from, n) \in Reference!State
<1> DEFINE more == {i \in Reference!Bytes(from, n) : i < g.body}
           at == from + n
<1>1. more \in SUBSET Nat /\ at \in Nat
  BY DEF Reference!Bytes
<1>2. Reference!Slice(g, s, from, n) = Reference!Moved(s, at, more)
  BY DEF Reference!Slice
<1> HIDE DEF more, at
<1> QED
  BY <1>1, <1>2, MovedTyped

LEMMA StringTyped ==
  ASSUME NEW g, Readers(g), NEW s \in Reference!State
  PROVE  Reference!String(g, s) \in Reference!State
<1> DEFINE head == Reference!Unpack(g, s, 4)
<1>1. head \in Reference!State
  BY UnpackTyped
<1>2. head.at \in Nat
  BY <1>1 DEF Reference!State
<1>3. CASE head.failed \/ ~Reference!LengthKnown(g, s)
  BY <1>3, FailTyped DEF Reference!String
<1>4. CASE ~(head.failed \/ ~Reference!LengthKnown(g, s))
  <2>1. Reference!LengthAt(g, s) \in Nat
    BY <1>4 DEF Reference!LengthKnown
  <2>2. Reference!String(g, s) = Reference!Slice(g, head, head.at, Reference!LengthAt(g, s))
    BY <1>4 DEF Reference!String
  <2> HIDE DEF head
  <2> QED
    BY <1>1, <1>2, <2>1, <2>2, SliceTyped
<1> QED
  BY <1>3, <1>4

LEMMA ArrayTyped ==
  ASSUME NEW g, Readers(g), NEW s \in Reference!State, NEW width \in {1, 2, 4, 8}, NEW n \in Nat
  PROVE  Reference!Array(g, s, width, n) \in Reference!State
<1> DEFINE from == Reference!AlignTo(g, s, width)
<1>1. from \in Nat /\ n * width \in Nat
  BY AlignsTo
<1> HIDE DEF from
<1>2. Reference!Slice(g, s, from, n * width) \in Reference!State
  BY <1>1, SliceTyped
<1> QED
  BY <1>2, FailTyped DEF Reference!Array, from

LEMMA ValueTyped ==
  ASSUME NEW g, Readers(g), NEW s \in Reference!State, NEW kind
  PROVE  Reference!Value(g, s, kind) \in Reference!State
<1>1. Reference!Unpack(g, s, 4) \in Reference!State
  BY UnpackTyped
<1>2. Reference!Unpack(g, Reference!Unpack(g, s, 4), 4) \in Reference!State
  BY <1>1, UnpackTyped
<1>3. CASE kind \in NumberKinds
  <2>1. Widths[kind] \in {1, 2, 4, 8}
    BY <1>3, WidthsTyped
  <2>2. Reference!Unpack(g, s, Widths[kind]) \in Reference!State
    BY <2>1, UnpackTyped
  <2> QED
    BY <1>2, <1>3, <2>2, SizesAlike, StringTyped, FailTyped DEF Reference!Value, NumberKinds
<1>4. CASE kind \notin NumberKinds
  BY <1>2, <1>4, SizesAlike, StringTyped, FailTyped DEF Reference!Value, NumberKinds
<1> QED
  BY <1>3, <1>4

LEMMA SingleTyped ==
  ASSUME NEW g, Readers(g), NEW nested \in Nesters(g), NEW s \in Reference!State, NEW f, FieldIn(g, f)
  PROVE  Reference!Single(g, nested, s, f) \in Reference!State
<1>1. CASE f.kind = "complex"
  <2>1. <<s, f.target>> \in Reference!State \X (DOMAIN g.plans)
    BY <1>1 DEF FieldIn
  <2> QED
    BY <1>1, <2>1 DEF Reference!Single, Nesters
<1>2. CASE f.kind # "complex"
  BY <1>2, ValueTyped DEF Reference!Single
<1> QED
  BY <1>1, <1>2

\* The step that reads one item of an array.
OneItem(g, nested, f) == [r \in Reference!State |-> Reference!Single(g, nested, r, f)]

LEMMA OneItemTyped ==
  ASSUME NEW g, Readers(g), NEW nested \in Nesters(g), NEW f, FieldIn(g, f)
  PROVE  OneItem(g, nested, f) \in [Reference!State -> Reference!State]
BY SingleTyped DEF OneItem

\* The kinds whose arrays are read item by item.
ItemWise == {"bool", "string", "time", "duration", "complex"}

LEMMA ArraysApart ==
  /\ "bool" \in NumberKinds
  /\ ItemWise \cap (NumberKinds \ {"bool"}) = {}
  /\ NumberKinds \cup TimeKinds \cup {"complex", "string"} = (NumberKinds \ {"bool"}) \cup ItemWise
BY DEF ItemWise, NumberKinds, TimeKinds, Widths

\* The reading of an array, by the kind of its items.
LEMMA ReadAtOnce ==
  ASSUME NEW g, NEW nested, NEW s, NEW f, NEW n, f.kind \in NumberKinds \ {"bool"}
  PROVE  Reference!Items(g, nested, s, f, n) = Reference!Array(g, s, Widths[f.kind], n)
BY SizesAlike, ArraysApart DEF Reference!Items, ItemWise, NumberKinds

LEMMA ReadOneByOne ==
  ASSUME NEW g, NEW nested, NEW s, NEW f, NEW n, f.kind \in ItemWise
  PROVE  Reference!Items(g, nested, s, f, n) =
           Reference!Through(s, [k \in 1..n |-> OneItem(g, nested, f)])
BY SizesAlike, ArraysApart DEF Reference!Items, ItemWise, NumberKinds, OneItem

LEMMA ReadUnknown ==
  ASSUME NEW g, NEW nested, NEW s, NEW f, NEW n, f.kind \notin NumberKinds \cup ItemWise
  PROVE  Reference!Items(g, nested, s, f, n) = Reference!Failed
BY SizesAlike, ArraysApart DEF Reference!Items, ItemWise, NumberKinds

LEMMA ManyTyped ==
  ASSUME NEW g, Readers(g), NEW nested \in Nesters(g), NEW s \in Reference!State,
         NEW f, FieldIn(g, f), NEW n \in Nat
  PROVE  Reference!Items(g, nested, s, f, n) \in Reference!State
<1>1. CASE f.kind \in NumberKinds \ {"bool"}
  <2>1. Widths[f.kind] \in {1, 2, 4, 8}
    BY <1>1, WidthsTyped
  <2>2. Reference!Array(g, s, Widths[f.kind], n) \in Reference!State
    BY <2>1, ArrayTyped
  <2>3. Reference!Items(g, nested, s, f, n) = Reference!Array(g, s, Widths[f.kind], n)
    BY <1>1, ReadAtOnce
  <2> QED
    BY <2>2, <2>3
<1>2. CASE f.kind \in ItemWise
  <2> DEFINE steps == [k \in 1..n |-> OneItem(g, nested, f)]
  <2>1. OneItem(g, nested, f) \in [Reference!State -> Reference!State]
    BY OneItemTyped
  <2>2. steps \in Seq([Reference!State -> Reference!State])
    BY <2>1
  <2>3. Reference!Items(g, nested, s, f, n) = Reference!Through(s, steps)
    BY <1>2, ReadOneByOne
  <2> HIDE DEF steps
  <2>4. Reference!Through(s, steps) \in Reference!State
    BY <2>2, LoopTyped
  <2> QED
    BY <2>3, <2>4
<1>3. CASE f.kind \notin NumberKinds \cup ItemWise
  BY <1>3, ReadUnknown, FailTyped
<1> QED
  BY <1>1, <1>2, <1>3, ArraysApart

LEMMA FieldValueTyped ==
  ASSUME NEW g, Readers(g), NEW nested \in Nesters(g), NEW s \in Reference!State, NEW f, FieldIn(g, f)
  PROVE  Reference!FieldValue(g, nested, s, f) \in Reference!State
<1>1. f.count \in Int
  BY DEF FieldIn, Field
<1>2. CASE f.count = -1
  BY <1>2, SingleTyped DEF Reference!FieldValue
<1>3. CASE f.count > 0
  <2>1. f.count \in Nat
    BY <1>1, <1>3
  <2> QED
    BY <1>1, <1>3, <2>1, ManyTyped DEF Reference!FieldValue
<1>4. CASE f.count \in {0, -2}
  <2> DEFINE counted == Reference!Unpack(g, s, 4)
  <2>1. counted \in Reference!State
    BY UnpackTyped
  <2>2. Reference!FieldValue(g, nested, s, f) =
          IF counted.failed \/ ~Reference!LengthKnown(g, s) THEN Reference!Failed
          ELSE Reference!Items(g, nested, counted, f, Reference!LengthAt(g, s))
    BY <1>4 DEF Reference!FieldValue
  <2> HIDE DEF counted
  <2>3. CASE Reference!LengthKnown(g, s)
    <3>1. Reference!LengthAt(g, s) \in Nat
      BY <2>3 DEF Reference!LengthKnown
    <3>2. Reference!Items(g, nested, counted, f, Reference!LengthAt(g, s)) \in Reference!State
      BY <2>1, <3>1, ManyTyped
    <3> QED
      BY <2>2, <3>2, FailTyped
  <2>4. CASE ~Reference!LengthKnown(g, s)
    BY <2>2, <2>4, FailTyped
  <2> QED
    BY <2>3, <2>4
<1>5. CASE f.count < -2
  BY <1>5, FailTyped DEF Reference!FieldValue
<1> QED
  BY <1>1, <1>2, <1>3, <1>4, <1>5

\* A set of numbers that has a member has a least one.
LEMMA LeastExists ==
  ASSUME NEW S \in SUBSET Nat, S # {}
  PROVE  \E i \in S : \A j \in S : i <= j
<1> DEFINE R == {ss \in Nat \X Nat : ss[1] < ss[2]}
<1>1. IsWellFoundedOn(R, Nat)
  BY NatLessThanWellFounded DEF OpToRel
<1>2. \A x, y \in Nat : x < y => <<x, y>> \in R
  OBVIOUS
<1> HIDE DEF R
<1>3. PICK x \in S : \A y \in S : ~(<<y, x>> \in R)
  BY <1>1, WFMin
<1>4. ASSUME NEW y \in S PROVE x <= y
  <2>1. x \in Nat /\ y \in Nat /\ ~(<<y, x>> \in R)
    BY <1>3
  <2>2. ~(y < x)
    BY <1>2, <2>1
  <2> QED
    BY <2>1, <2>2
<1> QED
  BY <1>4

\* Both readers pick the same field of a union.
LEMMA SamePick ==
  ASSUME NEW p \in Plan, NEW v
  PROVE  /\ \A f \in Selected(p, v) :
              Reference!CaseField(p, v) # <<>> /\ Reference!CaseField(p, v)[1] = f
         /\ Reference!CaseField(p, v) # <<>> => Reference!CaseField(p, v)[1] \in Targets(p)
<1> DEFINE listed == {i \in DOMAIN p.cases : v \in p.cases[i].values}
           first == CHOOSE i \in listed : \A j \in listed : i <= j
<1>1. p.cases \in Seq(Case) /\ p.default \in Seq(Field)
  BY DEF Plan
<1>2. listed = Matching(p, v) /\ listed \in SUBSET Nat
  BY <1>1 DEF Matching
<1>3. Reference!CaseField(p, v) =
        IF listed = {} THEN p.default ELSE <<p.cases[first].field>>
  BY DEF Reference!CaseField
<1>4. ASSUME listed # {}
      PROVE  first \in listed /\ \A j \in listed : first <= j
  <2> HIDE DEF listed
  <2>1. \E i \in listed : \A j \in listed : i <= j
    BY <1>2, <1>4, LeastExists
  <2> QED
    BY <2>1
<1>5. listed \subseteq DOMAIN p.cases
  OBVIOUS
<1> HIDE DEF listed, first
<1>6. CASE listed = {}
  <2>1. Selected(p, v) = IF p.default = <<>> THEN {} ELSE {Head(p.default)}
    BY <1>2, <1>6 DEF Selected
  <2>2. p.default # <<>> => 1 \in DOMAIN p.default /\ p.default[1] = Head(p.default)
    BY <1>1
  <2>3. Reference!CaseField(p, v) = p.default
    BY <1>3, <1>6
  <2> QED
    BY <2>1, <2>2, <2>3 DEF Targets
<1>7. CASE listed # {}
  <2> DEFINE one == <<p.cases[first].field>>
  <2>1. one # <<>> /\ one[1] = p.cases[first].field
    OBVIOUS
  <2>2. Reference!CaseField(p, v) = one
    BY <1>3, <1>7
  <2> HIDE DEF one
  <2>3. p.cases[first].field \in Targets(p)
    BY <1>4, <1>5, <1>7 DEF Targets
  <2>4. ASSUME NEW f \in Selected(p, v) PROVE f = p.cases[first].field
    <3>1. PICK i \in listed : (\A j \in listed : i <= j) /\ f = p.cases[i].field
      BY <1>2, <1>7 DEF Selected
    <3>2. i <= first /\ first <= i /\ i \in Nat /\ first \in Nat
      BY <1>2, <1>4, <1>7, <3>1
    <3>3. i = first
      BY <3>2
    <3> QED
      BY <3>1, <3>3
  <2> QED
    BY <2>1, <2>2, <2>3, <2>4
<1> QED
  BY <1>6, <1>7

LEMMA UnionTyped ==
  ASSUME NEW g, Readers(g), NEW nested \in Nesters(g), NEW s \in Reference!State,
         NEW p \in Plan, \A f \in Targets(p) : FieldIn(g, f)
  PROVE  Reference!Union(g, nested, s, p) \in Reference!State
<1> DEFINE width == Reference!Sizes[p.switch]
           at == Reference!AlignTo(g, s, width)
           field == Reference!CaseField(p, g.cells[at])
           bad == p.switch \notin DOMAIN Reference!Sizes \/ at \notin DOMAIN g.cells \/ field = <<>>
<1>1. Reference!Union(g, nested, s, p) =
        IF bad THEN Reference!Failed
        ELSE Reference!FieldValue(g, nested, Reference!Unpack(g, s, width), field[1])
  BY DEF Reference!Union
<1>2. CASE bad
  <2> HIDE DEF bad
  <2> QED
    BY <1>1, <1>2, FailTyped
<1>3. CASE ~bad
  <2>1. width \in {1, 2, 4, 8}
    BY <1>3, SizesAlike, WidthsTyped DEF NumberKinds
  <2>2. field[1] \in Targets(p)
    BY <1>3, SamePick
  <2>3. FieldIn(g, field[1])
    BY <2>2
  <2>4. Reference!Unpack(g, s, width) \in Reference!State
    BY <2>1, UnpackTyped
  <2> DEFINE f == field[1]
             r == Reference!Unpack(g, s, width)
  <2>5. Reference!Union(g, nested, s, p) = Reference!FieldValue(g, nested, r, f)
    BY <1>1, <1>3
  <2> HIDE DEF f, r
  <2>6. FieldIn(g, f) /\ r \in Reference!State
    BY <2>3, <2>4 DEF f, r
  <2> QED
    BY <2>5, <2>6, FieldValueTyped
<1> QED
  BY <1>2, <1>3

\* The step that reads one field.
OneField(g, nested, f) == [r \in Reference!State |-> Reference!FieldValue(g, nested, r, f)]

LEMMA FieldsRead ==
  ASSUME NEW g, Readers(g), NEW nested \in Nesters(g), NEW fs \in Seq(Field),
         \A i \in DOMAIN fs : FieldIn(g, fs[i])
  PROVE  [i \in DOMAIN fs |-> OneField(g, nested, fs[i])] \in Seq([Reference!State -> Reference!State])
<1> DEFINE steps == [i \in 1..Len(fs) |-> OneField(g, nested, fs[i])]
<1>1. ASSUME NEW i \in 1..Len(fs)
      PROVE  OneField(g, nested, fs[i]) \in [Reference!State -> Reference!State]
  BY FieldValueTyped DEF OneField
<1>2. steps \in [1..Len(fs) -> [Reference!State -> Reference!State]]
  BY <1>1
<1>3. Len(fs) \in Int /\ DOMAIN fs = 1..Len(fs)
  OBVIOUS
<1>4. steps = [i \in DOMAIN fs |-> OneField(g, nested, fs[i])]
  BY <1>3
<1> HIDE DEF steps
<1>5. steps \in Seq([Reference!State -> Reference!State])
  BY <1>2, <1>3, StepsTyped
<1> QED
  BY <1>4, <1>5

LEMMA ComplexTyped ==
  ASSUME NEW g, Readers(g), NEW nested \in Nesters(g), NEW s \in Reference!State,
         NEW t \in DOMAIN g.plans
  PROVE  Reference!Complex(g, nested, s, t) \in Reference!State
<1> DEFINE p == g.plans[t]
<1>1. p \in Plan /\ \A f \in Targets(p) : FieldIn(g, f)
  BY DEF Readers
<1>2. p.union \in BOOLEAN /\ p.fields \in Seq(Field)
  BY <1>1 DEF Plan
<1>3. CASE p.union
  <2>1. Reference!Complex(g, nested, s, t) = Reference!Union(g, nested, s, p)
    BY <1>3 DEF Reference!Complex
  <2> HIDE DEF p
  <2> QED
    BY <1>1, <2>1, UnionTyped
<1>4. CASE ~p.union /\ p.fields = <<>>
  <2>1. Reference!Complex(g, nested, s, t) = Reference!Unpack(g, s, 1)
    BY <1>4 DEF Reference!Complex
  <2> QED
    BY <2>1, UnpackTyped
<1>5. CASE ~p.union /\ p.fields # <<>>
  <2> DEFINE steps == [i \in DOMAIN p.fields |-> OneField(g, nested, p.fields[i])]
  <2>1. Reference!Complex(g, nested, s, t) = Reference!Through(s, steps)
    BY <1>5 DEF Reference!Complex, OneField
  <2>2. \A i \in DOMAIN p.fields : FieldIn(g, p.fields[i])
    BY <1>1 DEF Targets
  <2> HIDE DEF p
  <2>3. steps \in Seq([Reference!State -> Reference!State])
    BY <1>2, <2>2, FieldsRead
  <2> HIDE DEF steps
  <2> QED
    BY <2>1, <2>3, LoopTyped
<1> QED
  BY <1>2, <1>3, <1>4, <1>5

\* What may be read at each depth.
LEMMA LevelsRead ==
  ASSUME NEW g, Readers(g)
  PROVE  \A n \in Nat :
           /\ Reference!Levels(g)[n] \in Nesters(g)
           /\ \A s \in Reference!State, t \in DOMAIN g.plans :
                Reference!Levels(g)[n][<<s, t>>] =
                  IF n = 0 \/ s.failed THEN Reference!Failed
                  ELSE Reference!Complex(g, Reference!Levels(g)[n - 1], s, t)
<1> DEFINE Calls == Reference!State \X (DOMAIN g.plans)
           Step(h, n) ==
             [c \in Calls |->
                IF n = 0 \/ c[1].failed THEN Reference!Failed
                ELSE Reference!Complex(g, h[n - 1], c[1], c[2])]
           level == CHOOSE h : h = [n \in Nat |-> Step(h, n)]
           first == [c \in Calls |-> Reference!Failed]
           F == [x \in Nat \X Nesters(g) |->
                  [c \in Calls |->
                     IF c[1].failed THEN Reference!Failed
                     ELSE Reference!Complex(g, x[2], c[1], c[2])]]
<1>1. \A c \in Calls : c[1] \in Reference!State /\ c[2] \in DOMAIN g.plans
  OBVIOUS
<1>2. first \in Nesters(g)
  BY FailTyped DEF Nesters
<1>3. F \in [Nat \X Nesters(g) -> Nesters(g)]
  <2>1. ASSUME NEW x \in Nat \X Nesters(g), NEW c \in Calls
        PROVE  (IF c[1].failed THEN Reference!Failed
                ELSE Reference!Complex(g, x[2], c[1], c[2])) \in Reference!State
    <3>1. x[2] \in Nesters(g)
      OBVIOUS
    <3>2. Reference!Complex(g, x[2], c[1], c[2]) \in Reference!State
      BY <1>1, <3>1, ComplexTyped
    <3> QED
      BY <3>2, FailTyped
  <2> QED
    BY <2>1 DEF Nesters
<1>4. \A n \in Nat, h \in Nesters(g) :
        F[<<n, h>>] = [c \in Calls |-> IF c[1].failed THEN Reference!Failed
                                       ELSE Reference!Complex(g, h, c[1], c[2])]
  OBVIOUS
<1> HIDE DEF F
<1>5. PICK k : Recursive(k, Nesters(g), first, F)
  BY <1>2, <1>3, Recursion
<1>6. k \in [Nat -> Nesters(g)] /\ k[0] = first
  BY <1>5 DEF Recursive
<1>7. ASSUME NEW n \in Nat PROVE k[n] = Step(k, n)
  <2>1. CASE n = 0
    BY <1>6, <2>1
  <2>2. CASE n # 0
    <3> DEFINE m == n - 1
    <3>1. m \in Nat /\ m + 1 = n
      BY <2>2
    <3>2. k[m + 1] = F[<<m, k[m]>>]
      BY <1>5, <3>1 DEF Recursive
    <3>3. k[m] \in Nesters(g)
      BY <1>6, <3>1
    <3>4. F[<<m, k[m]>>] = [c \in Calls |-> IF c[1].failed THEN Reference!Failed
                                            ELSE Reference!Complex(g, k[m], c[1], c[2])]
      BY <1>4, <3>1, <3>3
    <3> QED
      BY <2>2, <3>1, <3>2, <3>4
  <2> QED
    BY <2>1, <2>2
<1>8. k = [n \in Nat |-> Step(k, n)]
  BY <1>6, <1>7
<1>9. level = [n \in Nat |-> Step(level, n)]
  BY <1>8
<1>10. Reference!Levels(g) = level
  BY DEF Reference!Levels
<1> HIDE DEF level
<1> DEFINE T == {n \in Nat : level[n] \in Nesters(g)}
<1>11. 0 \in T
  <2>1. level[0] = first
    BY <1>9
  <2> QED
    BY <1>2, <2>1
<1>12. ASSUME NEW n \in Nat, n \in T PROVE n + 1 \in T
  <2>1. level[n + 1] = [c \in Calls |-> IF c[1].failed THEN Reference!Failed
                                        ELSE Reference!Complex(g, level[n], c[1], c[2])]
    <3>1. n + 1 # 0 /\ (n + 1) - 1 = n /\ n + 1 \in Nat
      OBVIOUS
    <3>2. level[n + 1] = Step(level, n + 1)
      BY <1>9, <3>1
    <3> QED
      BY <3>1, <3>2
  <2>2. level[n] \in Nesters(g)
    BY <1>12
  <2>3. F[<<n, level[n]>>] \in Nesters(g)
    BY <1>3, <2>2
  <2>4. level[n + 1] \in Nesters(g)
    BY <1>4, <2>1, <2>2, <2>3
  <2> QED
    BY <2>4
<1> HIDE DEF T
<1>13. Nat \subseteq T
  BY <1>11, <1>12, Induct
<1> SUFFICES ASSUME NEW n \in Nat
             PROVE  /\ level[n] \in Nesters(g)
                    /\ \A s \in Reference!State, t \in DOMAIN g.plans :
                         level[n][<<s, t>>] =
                           IF n = 0 \/ s.failed THEN Reference!Failed
                           ELSE Reference!Complex(g, level[n - 1], s, t)
  BY <1>10
<1>14. level[n] \in Nesters(g)
  BY <1>13 DEF T
<1>15. level[n] = Step(level, n)
  BY <1>9
<1> QED
  BY <1>14, <1>15

-----------------------------------------------------------------------------
(* What the calls in progress have left to read, as the Python reader reads it *)

\* The definitions within the one that a call reads a field of.
Below(g, fr) == Reference!Levels(g)[RecursionLimit - (fr.depth + 1)]

\* From the state s, where the Python reader stands when it has read what the call
\* fr has left to read.
Rest(g, fr, s) ==
  CASE fr.op = "plan" -> Reference!Levels(g)[RecursionLimit - fr.depth][<<s, fr.field.target>>]
    [] fr.op = "field" -> Reference!FieldValue(g, Below(g, fr), s, fr.field)
    [] fr.op = "array" -> Reference!Items(g, Below(g, fr), s, fr.field, fr.n)
    [] fr.op = "elems" /\ fr.done = fr.n -> s
    [] fr.op = "elems" /\ fr.done # fr.n /\ fr.field.count = -1 ->
         Reference!Single(g, Below(g, fr), s, fr.field)
    [] fr.op = "elems" /\ fr.done # fr.n /\ fr.field.count # -1 ->
         Reference!Items(g, Below(g, fr), s, fr.field, fr.n - fr.done)
    [] fr.op = "text" -> Reference!Slice(g, s, s.at, fr.n)
    [] fr.op = "nsec" -> Reference!Unpack(g, s, 4)

\* The calls that the Python reader is not too deep for.
Pending(g) ==
  {fr \in Frame :
     /\ FieldIn(g, fr.field)
     /\ fr.op = "plan" => fr.field.kind = "complex" /\ fr.depth <= RecursionLimit
     /\ fr.op \in {"field", "array", "elems"} => fr.depth < RecursionLimit
     /\ fr.op = "elems" => fr.done <= fr.n}

\* One step for each call in progress, innermost first.
Todo(g, frames) == [i \in DOMAIN frames |-> [r \in Reference!State |-> Rest(g, frames[i], r)]]

LEMMA BelowTyped ==
  ASSUME NEW g, Readers(g), NEW fr \in Frame, fr.depth < RecursionLimit
  PROVE  Below(g, fr) \in Nesters(g)
<1>1. fr.depth \in Nat /\ RecursionLimit \in Nat
  BY RecursionAssumption DEF Frame
<1>2. RecursionLimit - (fr.depth + 1) \in Nat
  BY <1>1
<1> QED
  BY <1>2, LevelsRead DEF Below

LEMMA RestTyped ==
  ASSUME NEW g, Readers(g), NEW fr \in Pending(g), NEW s \in Reference!State
  PROVE  Rest(g, fr, s) \in Reference!State
<1>1. /\ fr \in Frame /\ FieldIn(g, fr.field)
      /\ fr.op \in {"plan", "field", "array", "elems", "text", "nsec"}
      /\ fr.n \in Nat /\ fr.done \in Nat /\ fr.depth \in Nat /\ s.at \in Nat
  BY DEF Pending, Frame, Reference!State
<1>2. CASE fr.op = "plan"
  <2>1. fr.field.kind = "complex" /\ fr.depth <= RecursionLimit
    BY <1>2 DEF Pending
  <2>2. RecursionLimit - fr.depth \in Nat
    BY <1>1, <2>1, RecursionAssumption
  <2>3. <<s, fr.field.target>> \in Reference!State \X (DOMAIN g.plans)
    BY <1>1, <2>1 DEF FieldIn
  <2>4. Reference!Levels(g)[RecursionLimit - fr.depth] \in Nesters(g)
    BY <2>2, LevelsRead
  <2>5. Reference!Levels(g)[RecursionLimit - fr.depth][<<s, fr.field.target>>] \in Reference!State
    BY <2>3, <2>4 DEF Nesters
  <2> QED
    BY <1>2, <2>5 DEF Rest
<1>3. CASE fr.op \in {"field", "array", "elems"}
  <2>1. Below(g, fr) \in Nesters(g)
    BY <1>1, <1>3, BelowTyped DEF Pending
  <2> HIDE DEF Below
  <2>2. CASE fr.op = "field"
    BY <1>1, <2>1, <2>2, FieldValueTyped DEF Rest
  <2>3. CASE fr.op = "array"
    BY <1>1, <2>1, <2>3, ManyTyped DEF Rest
  <2>4. CASE fr.op = "elems"
    <3>1. fr.n - fr.done \in Nat
      BY <1>1, <2>4 DEF Pending
    <3>2. Reference!Items(g, Below(g, fr), s, fr.field, fr.n - fr.done) \in Reference!State
      BY <1>1, <2>1, <3>1, ManyTyped
    <3>3. Reference!Single(g, Below(g, fr), s, fr.field) \in Reference!State
      BY <1>1, <2>1, SingleTyped
    <3> QED
      BY <2>4, <3>2, <3>3 DEF Rest
  <2> QED
    BY <1>3, <2>2, <2>3, <2>4
<1>4. CASE fr.op = "text"
  BY <1>1, <1>4, SliceTyped DEF Rest
<1>5. CASE fr.op = "nsec"
  BY <1>5, UnpackTyped DEF Rest
<1> QED
  BY <1>1, <1>2, <1>3, <1>4, <1>5

LEMMA TodoTyped ==
  ASSUME NEW g, Readers(g), NEW frames \in Seq(Pending(g))
  PROVE  /\ Todo(g, frames) \in Seq([Reference!State -> Reference!State])
         /\ Len(Todo(g, frames)) = Len(frames)
<1> DEFINE steps == [i \in 1..Len(frames) |-> [r \in Reference!State |-> Rest(g, frames[i], r)]]
<1>1. Len(frames) \in Nat /\ DOMAIN frames = 1..Len(frames)
  OBVIOUS
<1>2. \A i \in 1..Len(frames) : frames[i] \in Pending(g)
  OBVIOUS
<1>3. ASSUME NEW i \in 1..Len(frames)
      PROVE  [r \in Reference!State |-> Rest(g, frames[i], r)] \in [Reference!State -> Reference!State]
  BY <1>2, RestTyped
<1>4. steps \in [1..Len(frames) -> [Reference!State -> Reference!State]]
  BY <1>3
<1>5. Todo(g, frames) = steps
  BY <1>1 DEF Todo
<1> HIDE DEF steps
<1>6. steps \in Seq([Reference!State -> Reference!State]) /\ Len(steps) = Len(frames)
  BY <1>1, <1>4, StepsTyped
<1> QED
  BY <1>5, <1>6

LEMMA TodoJoins ==
  ASSUME NEW g, Readers(g), NEW xs \in Seq(Pending(g)), NEW ys \in Seq(Pending(g))
  PROVE  Todo(g, xs \o ys) = Todo(g, xs) \o Todo(g, ys)
<1> DEFINE zs == xs \o ys
<1>1. zs \in Seq(Pending(g)) /\ Len(zs) = Len(xs) + Len(ys)
  OBVIOUS
<1>2. /\ \A i \in 1..Len(xs) : zs[i] = xs[i]
      /\ \A i \in (Len(xs) + 1)..(Len(xs) + Len(ys)) : zs[i] = ys[i - Len(xs)]
  OBVIOUS
<1>3. /\ DOMAIN xs = 1..Len(xs) /\ DOMAIN ys = 1..Len(ys) /\ DOMAIN zs = 1..Len(zs)
      /\ Len(xs) \in Nat /\ Len(ys) \in Nat
  BY <1>1
<1> HIDE DEF zs
<1> DEFINE a == Todo(g, xs)
           b == Todo(g, ys)
           c == Todo(g, zs)
           Act(fr) == [r \in Reference!State |-> Rest(g, fr, r)]
<1>4. /\ \A i \in 1..Len(xs) : a[i] = Act(xs[i])
      /\ \A i \in 1..Len(ys) : b[i] = Act(ys[i])
      /\ \A i \in 1..Len(zs) : c[i] = Act(zs[i])
  BY <1>3 DEF Todo
<1>5. /\ a \in Seq([Reference!State -> Reference!State]) /\ Len(a) = Len(xs)
      /\ b \in Seq([Reference!State -> Reference!State]) /\ Len(b) = Len(ys)
      /\ c \in Seq([Reference!State -> Reference!State]) /\ Len(c) = Len(zs)
  BY <1>1, TodoTyped
<1> HIDE DEF a, b, c, Act
<1>6. \A i \in 1..Len(zs) : c[i] = (a \o b)[i]
  <2> TAKE i \in 1..Len(zs)
  <2>1. CASE i <= Len(xs)
    <3>1. i \in 1..Len(xs)
      BY <1>1, <1>3, <2>1
    <3>2. c[i] = a[i]
      BY <1>2, <1>4, <3>1
    <3>3. (a \o b)[i] = a[i]
      BY <1>5, <3>1
    <3> QED
      BY <3>2, <3>3
  <2>2. CASE i > Len(xs)
    <3>1. i \in (Len(xs) + 1)..(Len(xs) + Len(ys)) /\ i - Len(xs) \in 1..Len(ys)
      BY <1>1, <1>3, <2>2
    <3>2. c[i] = b[i - Len(xs)]
      BY <1>2, <1>4, <3>1
    <3>3. (a \o b)[i] = b[i - Len(xs)]
      BY <1>3, <1>5, <2>2, <3>1
    <3> QED
      BY <3>2, <3>3
  <2>3. i <= Len(xs) \/ i > Len(xs)
    BY <1>3
  <2> QED
    BY <2>1, <2>2, <2>3, Zenon
<1> DEFINE d == a \o b
<1>7. d \in Seq([Reference!State -> Reference!State]) /\ Len(d) = Len(zs)
  <2> DEFINE X == [Reference!State -> Reference!State]
  <2>1. a \in Seq(X) /\ b \in Seq(X)
    BY <1>5
  <2> HIDE DEF X
  <2>2. a \o b \in Seq(X) /\ Len(a \o b) = Len(a) + Len(b)
    BY <2>1
  <2> QED
    BY <1>1, <1>5, <2>2 DEF X
<1> HIDE DEF d
<1>8. \A i \in 1..Len(zs) : c[i] = d[i]
  BY <1>6 DEF d
<1>9. c = d
  BY <1>5, <1>7, <1>8
<1> QED
  BY <1>9 DEF a, b, c, d, zs

\* The innermost call gives way to frames that read the rest of what it has to
\* read: what the calls in progress have left comes to the same.
LEMMA Resume ==
  ASSUME NEW g, Readers(g), NEW s \in Reference!State, NEW t \in Reference!State,
         NEW calls \in Seq(Pending(g)), calls # <<>>, NEW frames \in Seq(Pending(g)),
         Reference!Through(t, Todo(g, frames)) = Rest(g, Head(calls), s)
  PROVE  Reference!Through(t, Todo(g, frames \o Tail(calls))) = Reference!Through(s, Todo(g, calls))
<1> DEFINE first == <<Head(calls)>>
           rest == Tail(calls)
           F == [r \in Reference!State |-> Rest(g, Head(calls), r)]
           S == Reference!State
<1>1. first \in Seq(Pending(g)) /\ rest \in Seq(Pending(g)) /\ calls = first \o rest
  OBVIOUS
<1>2. Todo(g, first) = <<F>>
  <2>1. DOMAIN first = 1..1 /\ first[1] = Head(calls)
    OBVIOUS
  <2>2. Todo(g, first) = [i \in 1..1 |-> F]
    BY <2>1 DEF Todo
  <2> HIDE DEF F
  <2>3. [i \in 1..1 |-> F] = <<F>>
    OBVIOUS
  <2> QED
    BY <2>2, <2>3
<1>3. Head(calls) \in Pending(g)
  OBVIOUS
<1>4. F \in [S -> S] /\ F[s] = Rest(g, Head(calls), s)
  BY <1>3, RestTyped
<1> HIDE DEF first, rest, F, S
<1>5. Todo(g, rest) \in Seq([S -> S]) /\ Todo(g, frames) \in Seq([S -> S])
  BY <1>1, TodoTyped DEF S
<1>6. Todo(g, calls) = <<F>> \o Todo(g, rest)
  BY <1>1, <1>2, TodoJoins
<1>7. Todo(g, frames \o rest) = Todo(g, frames) \o Todo(g, rest)
  BY <1>1, TodoJoins
<1>8. s \in S /\ t \in S
  BY DEF S
<1>9. Reference!Through(s, <<F>> \o Todo(g, rest)) = Reference!Through(F[s], Todo(g, rest))
  BY <1>4, <1>5, <1>8, LoopFirst
<1>10. Reference!Through(t, Todo(g, frames) \o Todo(g, rest)) =
         Reference!Through(Reference!Through(t, Todo(g, frames)), Todo(g, rest))
  BY <1>5, <1>8, LoopSplits
<1> QED
  BY <1>4, <1>6, <1>7, <1>9, <1>10 DEF rest

\* No call, one call or two in place of the innermost one.
LEMMA TodoFew ==
  ASSUME NEW g, Readers(g), NEW s \in Reference!State
  PROVE  /\ Reference!Through(s, Todo(g, <<>>)) = s
         /\ \A fr \in Pending(g) : Reference!Through(s, Todo(g, <<fr>>)) = Rest(g, fr, s)
         /\ \A fr, up \in Pending(g) :
              Reference!Through(s, Todo(g, <<fr, up>>)) = Rest(g, up, Rest(g, fr, s))
<1> DEFINE S == Reference!State
           Act(fr) == [r \in S |-> Rest(g, fr, r)]
<1>1. Reference!Through(s, Todo(g, <<>>)) = s
  <2>1. Todo(g, <<>>) = <<>>
    BY DEF Todo
  <2> QED
    BY <2>1, LoopNone
<1>2. ASSUME NEW fr \in Pending(g)
      PROVE  Act(fr) \in [S -> S] /\ Todo(g, <<fr>>) = <<Act(fr)>> /\ \A r \in S : Act(fr)[r] = Rest(g, fr, r)
  <2>1. Act(fr) \in [S -> S]
    BY RestTyped
  <2> DEFINE one == <<fr>>
             F == Act(fr)
  <2>2. DOMAIN one = 1..1 /\ one[1] = fr
    OBVIOUS
  <2> HIDE DEF one
  <2>3. Todo(g, one) = [i \in 1..1 |-> F]
    BY <2>2 DEF Todo
  <2>4. \A r \in S : F[r] = Rest(g, fr, r)
    OBVIOUS
  <2> HIDE DEF F
  <2>5. [i \in 1..1 |-> F] = <<F>>
    OBVIOUS
  <2> QED
    BY <2>1, <2>3, <2>4, <2>5 DEF one, F
<1> HIDE DEF Act
<1>3. ASSUME NEW fr \in Pending(g) PROVE Reference!Through(s, Todo(g, <<fr>>)) = Rest(g, fr, s)
  BY <1>2, LoopOne
<1>4. ASSUME NEW fr \in Pending(g), NEW up \in Pending(g)
      PROVE  Reference!Through(s, Todo(g, <<fr, up>>)) = Rest(g, up, Rest(g, fr, s))
  <2> DEFINE two == <<fr, up>>
             steps == Todo(g, two)
  <2>1. two \in Seq(Pending(g)) /\ Len(two) = 2 /\ two[1] = fr /\ two[2] = up /\ DOMAIN two = 1..2
    OBVIOUS
  <2> HIDE DEF two
  <2>2. steps \in Seq([S -> S]) /\ Len(steps) = 2
    BY <2>1, TodoTyped DEF S
  <2>3. \A r \in S : steps[1][r] = Rest(g, fr, r) /\ steps[2][r] = Rest(g, up, r)
    BY <2>1 DEF Todo, S
  <2> HIDE DEF steps
  <2>4. s \in S
    BY DEF S
  <2> HIDE DEF S
  <2>5. PICK p : Path(p, S, s, steps)
    BY <2>2, <2>4, PathExists
  <2>6. Reference!Through(s, steps) = p[2]
    BY <2>2, <2>4, <2>5, LoopIs
  <2>7. p \in [0..2 -> S] /\ p[0] = s /\ p[1] = steps[1][p[0]] /\ p[2] = steps[2][p[1]]
    BY <2>2, <2>5 DEF Path
  <2>8. p[0] \in S /\ p[1] \in S
    BY <2>7
  <2>9. p[2] = Rest(g, up, Rest(g, fr, s))
    BY <2>3, <2>7, <2>8
  <2> QED
    BY <2>6, <2>9 DEF steps, two
<1> QED
  BY <1>1, <1>3, <1>4

-----------------------------------------------------------------------------
(* Where the decoder stands, as a state of the Python reader *)

\* Decoder and Python reader stand at the same place and have read the same bytes.
Here == [at |-> offset - 4, read |-> BytesRead, failed |-> FALSE]

\* What the Python reader is given when c are the numbers in the payload.
GivenTo(c) == Reference!Given(schema.plans, payload.size - 4, c, payload.kind)

LEMMA HereTyped == ReaderTyped => Here \in Reference!State
<1> SUFFICES ASSUME ReaderTyped PROVE Here \in Reference!State
  OBVIOUS
<1>1. offset - 4 \in Nat /\ spans \in Seq(Span)
  BY DEF ReaderTyped
<1>2. ASSUME NEW i \in DOMAIN spans
      PROVE  spans[i].from..(spans[i].from + spans[i].size - 1) \subseteq Nat
  <2>1. spans[i] \in Span
    BY <1>1
  <2> QED
    BY <2>1 DEF Span
<1>3. BytesRead \in SUBSET Nat
  BY <1>2 DEF BytesRead
<1> QED
  BY <1>1, <1>3 DEF Here, Reference!State

\* A take reads the bytes from the first place that is aligned.
LEMMA TakeReads ==
  ASSUME ReaderTyped, NEW n \in Nat, NEW al \in Alignments, Take(n, al)
  PROVE  /\ offset' - 4 = Padded(offset - 4, al) + n
         /\ BytesRead' = BytesRead \cup Padded(offset - 4, al)..(Padded(offset - 4, al) + n - 1)
<1> DEFINE from == Padded(offset - 4, al)
           new == [from |-> Start(al) - 4, size |-> n, align |-> al]
           bytes == from..(from + n - 1)
           of(ss) == UNION {ss[i].from..(ss[i].from + ss[i].size - 1) : i \in DOMAIN ss}
<1>1. Start(al) \in Nat /\ Start(al) - 4 = from
  BY StartInBody DEF ReaderTyped
<1>2. offset' = Start(al) + n /\ spans' = Append(spans, new)
  BY DEF Take
<1>3. offset' - 4 = from + n
  BY <1>1, <1>2
<1>4. spans \in Seq(Span) /\ Len(spans) \in Nat /\ DOMAIN spans = 1..Len(spans)
  BY DEF ReaderTyped
<1>5. new.from..(new.from + new.size - 1) = bytes
  BY <1>1
<1> HIDE DEF new, bytes
<1>6. /\ DOMAIN spans' = DOMAIN spans \cup {Len(spans) + 1}
      /\ \A i \in DOMAIN spans : spans'[i] = spans[i]
      /\ spans'[Len(spans) + 1] = new
  BY <1>2, <1>4
<1>7. of(spans') = of(spans) \cup bytes
  <2> SUFFICES ASSUME NEW e PROVE e \in of(spans') <=> e \in of(spans) \cup bytes
    OBVIOUS
  <2>1. e \in of(spans') <=>
          \E i \in DOMAIN spans' : e \in spans'[i].from..(spans'[i].from + spans'[i].size - 1)
    OBVIOUS
  <2>2. e \in of(spans) <=>
          \E i \in DOMAIN spans : e \in spans[i].from..(spans[i].from + spans[i].size - 1)
    OBVIOUS
  <2> HIDE DEF of
  <2> QED
    BY <1>5, <1>6, <2>1, <2>2
<1>8. BytesRead' = BytesRead \cup bytes
  BY <1>7 DEF BytesRead
<1> QED
  BY <1>3, <1>8 DEF bytes

\* What a take comes to: no byte of it is past the end of the body.
LEMMA TakeMoves ==
  ASSUME ConfigTyped, ReaderTyped, NEW n \in Nat, NEW al \in Alignments, Take(n, al)
  PROVE  /\ Here' = Reference!Moved(Here, Padded(Here.at, al) + n,
                                    Reference!Bytes(Padded(Here.at, al), n))
         /\ Padded(Here.at, al) + n <= payload.size - 4
         /\ Start(al) - 4 = Padded(Here.at, al)
<1> DEFINE from == Padded(offset - 4, al)
<1>1. Here.at = offset - 4 /\ Here.read = BytesRead /\ Here.failed = FALSE
  BY DEF Here
<1>2. /\ Start(al) - 4 = from /\ from \in Nat
      /\ Start(al) + n <= payload.size
  BY StartInBody, PaddedAligned DEF ReaderTyped, Take, Fits
<1>3. offset' - 4 = from + n /\ BytesRead' = BytesRead \cup Reference!Bytes(from, n)
  BY TakeReads DEF Reference!Bytes
<1>4. Here' = [at |-> from + n, read |-> BytesRead \cup Reference!Bytes(from, n), failed |-> FALSE]
  BY <1>3 DEF Here
<1> HIDE DEF from
<1>5. Here' = Reference!Moved(Here, from + n, Reference!Bytes(from, n))
  BY <1>1, <1>4 DEF Reference!Moved
<1>6. from + n <= payload.size - 4
  <2>1. Start(al) \in Int /\ payload.size \in Nat
    BY StartInBody DEF ReaderTyped, ConfigTyped, Payload
  <2> QED
    BY <1>2, <2>1
<1> QED
  BY <1>1, <1>2, <1>5, <1>6 DEF from

-----------------------------------------------------------------------------
(* The Python reader, one call of the decoder at a time *)

\* After a number the reader stands where the next one of its kind starts.
LEMMA NextAligned ==
  ASSUME NEW g, Readers(g), NEW s \in Reference!State, NEW width \in {1, 2, 4, 8},
         NEW t \in Reference!State, t.at = Reference!AlignTo(g, s, width) + width
  PROVE  Reference!AlignTo(g, t, width) = t.at
<1> DEFINE a == IF width = 8 THEN g.eight ELSE width
           from == Padded(s.at, a)
<1>1. Reference!AlignTo(g, s, width) = from /\ Reference!AlignTo(g, t, width) = Padded(t.at, a)
  BY AlignsTo
<1>2. a \in Alignments /\ width % a = 0 /\ a \in Nat \ {0}
  BY DEF Readers, Alignments
<1>3. s.at \in Nat /\ t.at \in Nat
  BY DEF Reference!State
<1>4. t.at = from + width
  BY <1>1
<1>5. from \in Nat /\ from % a = 0
  BY <1>2, <1>3, PaddedAligned
<1> HIDE DEF a, from
<1>6. a \in {1, 2, 4, 8}
  BY <1>2 DEF Alignments
<1>7. (from + width) % a = 0
  <2>1. CASE a = 1
    BY <1>5, <2>1
  <2>2. CASE a = 2
    BY <1>2, <1>5, <2>2
  <2>3. CASE a = 4
    BY <1>2, <1>5, <2>3
  <2>4. CASE a = 8
    BY <1>2, <1>5, <2>4
  <2> QED
    BY <1>6, <2>1, <2>2, <2>3, <2>4
<1>8. Padding(t.at, a) = 0
  <2>1. t.at % a = 0
    BY <1>4, <1>7
  <2>2. (a - 0) % a = 0
    BY <1>6
  <2> QED
    BY <2>1, <2>2 DEF Padding
<1>9. Padded(t.at, a) = t.at
  BY <1>3, <1>8 DEF Padded
<1> QED
  BY <1>1, <1>9

\* An array that is read at once is its first number, then the others.
LEMMA ArrayGoesOn ==
  ASSUME NEW g, Readers(g), NEW s \in Reference!State, ~s.failed, NEW width \in {1, 2, 4, 8},
         Reference!AlignTo(g, s, width) + width <= g.body, NEW m \in Nat, m # 0
  PROVE  Reference!Array(g, s, width, m) =
           Reference!Array(g, Reference!Unpack(g, s, width), width, m - 1)
<1> DEFINE from == Reference!AlignTo(g, s, width)
           t == Reference!Unpack(g, s, width)
           bytes == Reference!Bytes(from, width)
           have == IF from < g.body THEN g.body - from ELSE 0
           next == from + width
           left == IF next < g.body THEN g.body - next ELSE 0
           size == m * width
           rest == (m - 1) * width
<1>1. from \in Nat /\ g.body \in Int /\ s.failed = FALSE /\ s.read \in SUBSET Nat
  BY AlignsTo DEF Readers, Reference!State
<1>2. t = Reference!Moved(s, next, bytes) /\ t \in Reference!State
  BY <1>1, UnpackTyped DEF Reference!Unpack
<1>3. t.at = next /\ t.read = s.read \cup bytes /\ t.failed = FALSE
  BY <1>1, <1>2 DEF Reference!Moved
<1>4. Reference!AlignTo(g, t, width) = next
  <2>1. t.at = from + width
    BY <1>3
  <2> HIDE DEF t, from
  <2> QED
    BY <1>2, <1>3, <2>1, NextAligned DEF from
<1> HIDE DEF from, t, bytes
<1>5. size = rest + width /\ size \in Nat /\ rest \in Nat
  BY SMT
<1>6. from + width <= g.body
  BY DEF from
<1>7. have = g.body - from /\ left = g.body - next /\ have = left + width /\ left \in Nat
  BY <1>1, <1>6
<1>8. have % width = left % width
  <2>1. CASE width = 1
    BY <1>7, <2>1
  <2>2. CASE width = 2
    BY <1>7, <2>2
  <2>3. CASE width = 4
    BY <1>7, <2>3
  <2>4. CASE width = 8
    BY <1>7, <2>4
  <2> QED
    BY <2>1, <2>2, <2>3, <2>4
<1> DEFINE short == have < size /\ (have % width # 0 \/ (~g.little /\ width > 1))
           shortly == left < rest /\ (left % width # 0 \/ (~g.little /\ width > 1))
<1>9. short <=> shortly
  <2>1. have < size <=> left < rest
    BY <1>5, <1>7
  <2> HIDE DEF have, left, size, rest
  <2> QED
    BY <1>8, <2>1
<1>10. Reference!Array(g, s, width, m) =
         IF short THEN Reference!Failed ELSE Reference!Slice(g, s, from, size)
  BY <1>1 DEF Reference!Array, from
<1>11. Reference!Array(g, t, width, m - 1) =
         IF m = 1 THEN t ELSE IF shortly THEN Reference!Failed ELSE Reference!Slice(g, t, next, rest)
  <2>1. m - 1 = 0 <=> m = 1
    OBVIOUS
  <2> QED
    BY <1>3, <1>4, <2>1 DEF Reference!Array
<1> HIDE DEF short, shortly
<1>12. CASE m = 1
  <2>1. size = width /\ rest = 0
    BY <1>12
  <2>2. ~short
    BY <1>7, <1>9, <2>1 DEF shortly
  <2>3. {i \in Reference!Bytes(from, size) : i < g.body} = bytes
    BY <1>1, <1>6, <2>1 DEF Reference!Bytes, bytes
  <2>4. Reference!Slice(g, s, from, size) = Reference!Moved(s, next, bytes)
    BY <2>1, <2>3 DEF Reference!Slice
  <2> HIDE DEF size, rest, next
  <2> QED
    BY <1>2, <1>10, <1>11, <1>12, <2>2, <2>4 DEF t
<1>13. CASE m # 1
  <2> DEFINE xs == {i \in Reference!Bytes(from, size) : i < g.body}
             ys == {i \in Reference!Bytes(next, rest) : i < g.body}
  <2>1. xs = bytes \cup ys
    <3>1. width \in Nat
      OBVIOUS
    <3> HIDE DEF size, rest
    <3> QED
      BY <1>1, <1>5, <1>6, <3>1 DEF Reference!Bytes, bytes
  <2>2. from + size = next + rest
    <3>1. width \in Nat
      OBVIOUS
    <3> HIDE DEF size, rest
    <3> QED
      BY <1>1, <1>5, <3>1
  <2>3. Reference!Slice(g, s, from, size) = Reference!Moved(s, from + size, xs)
    BY DEF Reference!Slice
  <2>4. Reference!Slice(g, t, next, rest) = Reference!Moved(t, next + rest, ys)
    BY DEF Reference!Slice
  <2> HIDE DEF xs, ys, size, rest, next
  <2>5. s.read \cup xs = t.read \cup ys
    BY <1>3, <2>1
  <2>6. Reference!Moved(s, from + size, xs) = Reference!Moved(t, next + rest, ys)
    BY <1>1, <1>3, <2>2, <2>5 DEF Reference!Moved
  <2> QED
    BY <1>9, <1>10, <1>11, <1>13, <2>3, <2>4, <2>6 DEF t
<1> QED
  BY <1>12, <1>13

\* An array that fits is read at once.
LEMMA ArrayFits ==
  ASSUME NEW g, Readers(g), NEW s \in Reference!State, ~s.failed, NEW width \in {1, 2, 4, 8},
         NEW m \in Nat, m # 0, Reference!AlignTo(g, s, width) + m * width <= g.body
  PROVE  Reference!Array(g, s, width, m) =
           Reference!Moved(s, Reference!AlignTo(g, s, width) + m * width,
                           Reference!Bytes(Reference!AlignTo(g, s, width), m * width))
<1> DEFINE from == Reference!AlignTo(g, s, width)
           size == m * width
           have == IF from < g.body THEN g.body - from ELSE 0
<1>1. from \in Nat /\ g.body \in Int /\ size \in Nat
  BY AlignsTo DEF Readers
<1>2. from + size <= g.body
  OBVIOUS
<1>3. ~(have < size)
  <2> HIDE DEF from, size
  <2> QED
    BY <1>1, <1>2
<1>4. Reference!Array(g, s, width, m) = Reference!Slice(g, s, from, size)
  BY <1>3 DEF Reference!Array
<1> HIDE DEF from, size
<1>5. {i \in Reference!Bytes(from, size) : i < g.body} = Reference!Bytes(from, size)
  BY <1>1, <1>2 DEF Reference!Bytes
<1> QED
  BY <1>4, <1>5 DEF Reference!Slice, from, size

\* Bytes read one by one.
LEMMA BytesGoOn ==
  ASSUME NEW g, Readers(g)
  PROVE  \A m \in Nat : \A s \in Reference!State :
           ~s.failed /\ s.at + m <= g.body =>
             Reference!Through(s, [k \in 1..m |-> [r \in Reference!State |-> Reference!Unpack(g, r, 1)]])
               = Reference!Moved(s, s.at + m, Reference!Bytes(s.at, m))
<1> DEFINE S == Reference!State
           f == [r \in S |-> Reference!Unpack(g, r, 1)]
           Loop(s, m) == Reference!Through(s, [k \in 1..m |-> f])
           Good(s, m) == ~s.failed /\ s.at + m <= g.body =>
                           Loop(s, m) = Reference!Moved(s, s.at + m, Reference!Bytes(s.at, m))
           T == {m \in Nat : \A s \in S : Good(s, m)}
<1>1. f \in [S -> S] /\ g.body \in Int
  BY UnpackTyped DEF Readers
<1>2. 0 \in T
  <2> SUFFICES ASSUME NEW s \in S, ~s.failed
               PROVE  Loop(s, 0) = Reference!Moved(s, s.at + 0, Reference!Bytes(s.at, 0))
    OBVIOUS
  <2>1. [k \in 1..0 |-> f] = <<>>
    OBVIOUS
  <2>2. Loop(s, 0) = s
    BY <2>1, LoopNone
  <2>3. s.at \in Nat /\ s = [at |-> s.at, read |-> s.read, failed |-> s.failed]
    BY DEF Reference!State
  <2>4. Reference!Bytes(s.at, 0) = {} /\ s.at + 0 = s.at
    BY <2>3 DEF Reference!Bytes
  <2>5. Reference!Moved(s, s.at, {}) = s
    BY <2>3 DEF Reference!Moved
  <2> HIDE DEF Loop
  <2> QED
    BY <2>2, <2>4, <2>5
<1>3. ASSUME NEW m \in Nat, m \in T PROVE m + 1 \in T
  <2> SUFFICES ASSUME NEW s \in S, ~s.failed, s.at + (m + 1) <= g.body
               PROVE  Loop(s, m + 1) = Reference!Moved(s, s.at + (m + 1), Reference!Bytes(s.at, m + 1))
    OBVIOUS
  <2> DEFINE t == Reference!Unpack(g, s, 1)
  <2>1. s.at \in Nat /\ s.failed = FALSE
    BY DEF Reference!State
  <2>2. Reference!AlignTo(g, s, 1) = s.at
    BY <2>1, AlignsTo DEF Padded, Padding
  <2>3. t = Reference!Moved(s, s.at + 1, Reference!Bytes(s.at, 1)) /\ t \in S
    BY <1>1, <2>1, <2>2, UnpackTyped DEF Reference!Unpack
  <2>4. t.at = s.at + 1 /\ t.read = s.read \cup Reference!Bytes(s.at, 1) /\ t.failed = FALSE
    BY <2>1, <2>3 DEF Reference!Moved
  <2>5. f[s] = t /\ m + 1 \in Nat /\ m + 1 # 0 /\ (m + 1) - 1 = m
    OBVIOUS
  <2> HIDE DEF f, t, S
  <2>6. Loop(s, m + 1) = Loop(t, m)
    <3> DEFINE n == m + 1
    <3>1. n \in Nat /\ n # 0 /\ n - 1 = m
      BY <2>5
    <3> HIDE DEF n
    <3>2. Reference!Through(s, [k \in 1..n |-> f]) =
            Reference!Through(f[s], [k \in 1..(n - 1) |-> f])
      BY <1>1, <3>1, LoopRepeats
    <3> QED
      BY <2>5, <3>1, <3>2 DEF n
  <2>7. t.at + m <= g.body /\ ~t.failed
    BY <1>1, <2>1, <2>4
  <2>8. Loop(t, m) = Reference!Moved(t, t.at + m, Reference!Bytes(t.at, m))
    BY <1>3, <2>3, <2>7
  <2> HIDE DEF Loop
  <2>9. t.at + m = s.at + (m + 1)
    BY <2>1, <2>4
  <2>10. Reference!Bytes(s.at, m + 1) = Reference!Bytes(s.at, 1) \cup Reference!Bytes(t.at, m)
    BY <2>1, <2>4 DEF Reference!Bytes
  <2>11. t.read \cup Reference!Bytes(t.at, m) = s.read \cup Reference!Bytes(s.at, m + 1)
    BY <2>4, <2>10
  <2> QED
    BY <2>1, <2>4, <2>6, <2>8, <2>9, <2>11 DEF Reference!Moved
<1> HIDE DEF T
<1>4. Nat \subseteq T
  BY <1>2, <1>3, Induct
<1> QED
  BY <1>4 DEF T

\* What a number is read with.
LEMMA NumberIs ==
  ASSUME NEW g, NEW nested, NEW s, NEW f, f.kind \in NumberKinds
  PROVE  Reference!Single(g, nested, s, f) = Reference!Unpack(g, s, Widths[f.kind])
<1>1. f.kind # "complex" /\ f.kind # "string" /\ f.kind \notin {"time", "duration"}
  BY DEF NumberKinds, Widths
<1> QED
  BY <1>1, SizesAlike DEF Reference!Single, Reference!Value, NumberKinds

LEMMA TextIs ==
  ASSUME NEW g, NEW nested, NEW s, NEW f, f.kind = "string"
  PROVE  Reference!Single(g, nested, s, f) = Reference!String(g, s)
<1>1. f.kind # "complex"
  OBVIOUS
<1>2. Reference!Single(g, nested, s, f) = Reference!Value(g, s, "string")
  BY <1>1 DEF Reference!Single
<1>3. "string" \notin DOMAIN Reference!Sizes
  BY SizesAlike DEF Widths
<1> QED
  BY <1>2, <1>3 DEF Reference!Value

LEMMA TimeIs ==
  ASSUME NEW g, NEW nested, NEW s, NEW f, f.kind \in TimeKinds
  PROVE  Reference!Single(g, nested, s, f) =
           Reference!Unpack(g, Reference!Unpack(g, s, 4), 4)
<1> DEFINE kind == f.kind
<1>1. kind # "complex" /\ kind # "string" /\ kind \in {"time", "duration"}
  BY DEF TimeKinds
<1>2. Reference!Single(g, nested, s, f) = Reference!Value(g, s, kind)
  BY <1>1 DEF Reference!Single
<1>3. kind \notin DOMAIN Reference!Sizes
  BY <1>1, SizesAlike DEF Widths
<1> HIDE DEF kind
<1> QED
  BY <1>1, <1>2, <1>3 DEF Reference!Value

\* A fixed array of no items and a sequence whose length is zero take no bytes.
LEMMA NoItems ==
  ASSUME NEW g, NEW nested, NEW s \in Reference!State, NEW f,
         f.kind \in KnownKinds \ {"wstring"}
  PROVE  Reference!Items(g, nested, s, f, 0) = s
<1>1. CASE f.kind \in NumberKinds \ {"bool"}
  <2>1. Reference!Items(g, nested, s, f, 0) = Reference!Array(g, s, Widths[f.kind], 0)
    BY <1>1, ReadAtOnce
  <2> QED
    BY <2>1 DEF Reference!Array
<1>2. CASE f.kind \in ItemWise
  <2>1. Reference!Items(g, nested, s, f, 0) =
          Reference!Through(s, [k \in 1..0 |-> OneItem(g, nested, f)])
    BY <1>2, ReadOneByOne
  <2>2. [k \in 1..0 |-> OneItem(g, nested, f)] = <<>>
    OBVIOUS
  <2> QED
    BY <2>1, <2>2, LoopNone
<1> QED
  BY <1>1, <1>2, ArraysApart DEF KnownKinds

\* Numbers that are read at once, as many as there are bytes for.
LEMMA NumbersFit ==
  ASSUME NEW g, Readers(g), NEW nested \in Nesters(g), NEW s \in Reference!State, ~s.failed,
         NEW f, f.kind \in NumberKinds, NEW m \in Nat, m # 0, NEW from,
         from = Reference!AlignTo(g, s, Widths[f.kind]),
         from + m * Widths[f.kind] <= g.body
  PROVE  Reference!Items(g, nested, s, f, m) =
           Reference!Moved(s, from + m * Widths[f.kind], Reference!Bytes(from, m * Widths[f.kind]))
<1> DEFINE width == Widths[f.kind]
<1>1. width \in {1, 2, 4, 8}
  BY WidthsTyped
<1>2. CASE f.kind # "bool"
  <2>1. Reference!Items(g, nested, s, f, m) = Reference!Array(g, s, width, m)
    BY <1>2, ReadAtOnce
  <2> HIDE DEF width
  <2>2. from = Reference!AlignTo(g, s, width) /\ from + m * width <= g.body
    BY DEF width
  <2>3. Reference!Array(g, s, width, m) =
          Reference!Moved(s, from + m * width, Reference!Bytes(from, m * width))
    BY <1>1, <2>2, ArrayFits
  <2> QED
    BY <2>1, <2>3 DEF width
<1>3. CASE f.kind = "bool"
  <2>1. width = 1 /\ f.kind \in ItemWise
    BY <1>3 DEF Widths, ItemWise
  <2>2. s.at \in Nat /\ from = s.at
    <3>1. s.at \in Nat
      BY DEF Reference!State
    <3>2. from = Reference!AlignTo(g, s, 1)
      BY <2>1
    <3>3. Reference!AlignTo(g, s, 1) = Padded(s.at, 1)
      BY AlignsTo
    <3> QED
      BY <3>1, <3>2, <3>3 DEF Padded, Padding
  <2>3. OneItem(g, nested, f) = [r \in Reference!State |-> Reference!Unpack(g, r, 1)]
    <3>1. \A r \in Reference!State :
            Reference!Single(g, nested, r, f) = Reference!Unpack(g, r, 1)
      BY <2>1, NumberIs
    <3> QED
      BY <3>1 DEF OneItem
  <2>4. Reference!Items(g, nested, s, f, m) =
          Reference!Through(s, [k \in 1..m |-> OneItem(g, nested, f)])
    BY <2>1, ReadOneByOne
  <2>5. m * width = m /\ s.at + m <= g.body
    BY <2>1, <2>2
  <2>6. Reference!Through(s, [k \in 1..m |-> [r \in Reference!State |-> Reference!Unpack(g, r, 1)]])
          = Reference!Moved(s, s.at + m, Reference!Bytes(s.at, m))
    BY <2>5, BytesGoOn
  <2> HIDE DEF width
  <2> QED
    BY <2>2, <2>3, <2>4, <2>5, <2>6 DEF width
<1> QED
  BY <1>2, <1>3

-----------------------------------------------------------------------------
(* The innermost call, from one step to the next *)

\* A definition is entered.
LEMMA PlanRest ==
  ASSUME NEW g, Readers(g), NEW fr \in Pending(g), fr.op = "plan", fr.depth < RecursionLimit,
         NEW s \in Reference!State, ~s.failed
  PROVE  /\ Rest(g, fr, s) = Reference!Complex(g, Below(g, fr), s, fr.field.target)
         /\ fr.field.target \in DOMAIN g.plans
<1>1. fr.depth \in Nat /\ fr.field.kind = "complex" /\ FieldIn(g, fr.field)
  BY DEF Pending, Frame
<1>2. fr.field.target \in DOMAIN g.plans
  BY <1>1 DEF FieldIn
<1> DEFINE n == RecursionLimit - fr.depth
<1>3. n \in Nat /\ n # 0 /\ n - 1 = RecursionLimit - (fr.depth + 1)
  BY <1>1, RecursionAssumption
<1>4. Rest(g, fr, s) = Reference!Levels(g)[n][<<s, fr.field.target>>]
  BY DEF Rest
<1> HIDE DEF n
<1>5. Reference!Levels(g)[n][<<s, fr.field.target>>] =
        IF n = 0 \/ s.failed THEN Reference!Failed
        ELSE Reference!Complex(g, Reference!Levels(g)[n - 1], s, fr.field.target)
  BY <1>2, <1>3, LevelsRead
<1> QED
  BY <1>2, <1>3, <1>4, <1>5 DEF Below

\* One more element of the loop is done.
Again(fr) == [fr EXCEPT !.done = @ + 1]

LEMMA AgainParts ==
  ASSUME NEW fr \in Frame
  PROVE  /\ Again(fr) \in Frame /\ Again(fr).op = fr.op /\ Again(fr).field = fr.field
         /\ Again(fr).n = fr.n /\ Again(fr).done = fr.done + 1 /\ Again(fr).depth = fr.depth
<1> DEFINE done == fr.done + 1
<1>1. Again(fr) = [fr EXCEPT !.done = done]
  BY DEF Again
<1>2. done \in Nat
  BY DEF Frame
<1> HIDE DEF done
<1>3. [fr EXCEPT !.done = done] \in Frame
  BY <1>2 DEF Frame
<1>4. /\ [fr EXCEPT !.done = done].op = fr.op /\ [fr EXCEPT !.done = done].field = fr.field
      /\ [fr EXCEPT !.done = done].n = fr.n /\ [fr EXCEPT !.done = done].done = done
      /\ [fr EXCEPT !.done = done].depth = fr.depth
  BY DEF Frame
<1> QED
  BY <1>1, <1>3, <1>4 DEF done

LEMMA AgainPending ==
  ASSUME NEW g, NEW fr \in Pending(g), fr.op = "elems", fr.done # fr.n
  PROVE  Again(fr) \in Pending(g)
<1>1. fr \in Frame /\ fr.done <= fr.n /\ fr.done \in Nat /\ fr.n \in Nat
  BY DEF Pending, Frame
<1> DEFINE up == Again(fr)
<1>2. /\ up \in Frame /\ up.op = fr.op /\ up.field = fr.field
      /\ up.n = fr.n /\ up.done = fr.done + 1 /\ up.depth = fr.depth
  BY <1>1, AgainParts
<1> HIDE DEF up
<1>3. up.done <= up.n
  BY <1>1, <1>2
<1>4. up \in Pending(g)
  BY <1>1, <1>2, <1>3 DEF Pending
<1> QED
  BY <1>4 DEF up

\* The element is read, and then the others.
LEMMA ElementRest ==
  ASSUME NEW g, Readers(g), NEW fr \in Pending(g), fr.op = "elems", fr.done # fr.n,
         fr.field.count = -1 => fr.n = 1,
         fr.field.count # -1 => fr.field.kind \in ItemWise,
         NEW s \in Reference!State
  PROVE  Rest(g, Again(fr), Reference!Single(g, Below(g, fr), s, fr.field)) = Rest(g, fr, s)
<1> DEFINE up == Again(fr)
           nested == Below(g, fr)
           t == Reference!Single(g, nested, s, fr.field)
<1>1. /\ fr \in Frame /\ FieldIn(g, fr.field) /\ fr.done <= fr.n /\ fr.done \in Nat /\ fr.n \in Nat
      /\ fr.depth < RecursionLimit
  BY DEF Pending, Frame
<1>2. /\ up.op = "elems" /\ up.field = fr.field
      /\ up.n = fr.n /\ up.done = fr.done + 1 /\ up.depth = fr.depth
  BY <1>1, AgainParts
<1>3. nested \in Nesters(g)
  BY <1>1, BelowTyped
<1>4. t \in Reference!State
  BY <1>1, <1>3, SingleTyped
<1>5. Below(g, up) = nested
  BY <1>2 DEF Below
<1> HIDE DEF up, nested
<1>6. CASE fr.field.count = -1
  <2>1. up.done = up.n
    BY <1>1, <1>2, <1>6
  <2>2. Rest(g, up, t) = t
    BY <1>2, <2>1 DEF Rest
  <2>3. Rest(g, fr, s) = t
    BY <1>6 DEF Rest, nested
  <2> QED
    BY <2>2, <2>3 DEF up, nested
<1>7. CASE fr.field.count # -1
  <2> DEFINE m == fr.n - fr.done
             f == OneItem(g, nested, fr.field)
  <2>1. m \in Nat /\ m # 0 /\ fr.n - up.done = m - 1 /\ m - 1 \in Nat
    BY <1>1, <1>2
  <2>2. Rest(g, fr, s) = Reference!Items(g, nested, s, fr.field, m)
    BY <1>7 DEF Rest, nested
  <2>3. f \in [Reference!State -> Reference!State] /\ f[s] = t
    BY <1>1, <1>3, OneItemTyped DEF OneItem
  <2> HIDE DEF t
  <2>4. Reference!Items(g, nested, s, fr.field, m) = Reference!Through(s, [k \in 1..m |-> f])
    BY <1>7, ReadOneByOne
  <2>5. Reference!Items(g, nested, t, fr.field, m - 1) =
          Reference!Through(t, [k \in 1..(m - 1) |-> f])
    BY <1>7, ReadOneByOne
  <2>6. Rest(g, up, t) = IF m - 1 = 0 THEN t ELSE Reference!Items(g, nested, t, fr.field, m - 1)
    <3>1. up.done = up.n <=> m - 1 = 0
      BY <1>1, <1>2
    <3>2. up.n - up.done = m - 1
      BY <1>2, <2>1
    <3> HIDE DEF m
    <3> QED
      BY <1>2, <1>5, <1>7, <3>1, <3>2 DEF Rest
  <2> HIDE DEF f, m
  <2>7. Reference!Through(s, [k \in 1..m |-> f]) = Reference!Through(t, [k \in 1..(m - 1) |-> f])
    BY <2>1, <2>3, LoopRepeats
  <2>8. m - 1 = 0 => Reference!Through(t, [k \in 1..(m - 1) |-> f]) = t
    <3> SUFFICES ASSUME m - 1 = 0 PROVE Reference!Through(t, [k \in 1..(m - 1) |-> f]) = t
      OBVIOUS
    <3>1. [k \in 1..(m - 1) |-> f] = <<>>
      OBVIOUS
    <3> QED
      BY <1>4, <3>1, LoopNone DEF t
  <2> QED
    BY <2>2, <2>4, <2>5, <2>6, <2>7, <2>8 DEF up, t, nested
<1> QED
  BY <1>6, <1>7

\* The same for numbers, which the Python reader reads at once.
LEMMA NumberRest ==
  ASSUME NEW g, Readers(g), NEW fr \in Pending(g), fr.op = "elems", fr.done # fr.n,
         fr.field.count = -1 => fr.n = 1,
         fr.field.kind \in NumberKinds,
         NEW s \in Reference!State, ~s.failed,
         Reference!AlignTo(g, s, Widths[fr.field.kind]) + Widths[fr.field.kind] <= g.body
  PROVE  Rest(g, Again(fr), Reference!Unpack(g, s, Widths[fr.field.kind])) = Rest(g, fr, s)
<1> DEFINE up == Again(fr)
           nested == Below(g, fr)
           width == Widths[fr.field.kind]
           t == Reference!Unpack(g, s, width)
<1>1. /\ fr \in Frame /\ FieldIn(g, fr.field) /\ fr.done <= fr.n /\ fr.done \in Nat /\ fr.n \in Nat
  BY DEF Pending, Frame
<1>2. /\ up.op = "elems" /\ up.field = fr.field
      /\ up.n = fr.n /\ up.done = fr.done + 1 /\ up.depth = fr.depth
  BY <1>1, AgainParts
<1>3. width \in {1, 2, 4, 8}
  BY WidthsTyped
<1>4. Below(g, up) = nested
  BY <1>2 DEF Below
<1>5. CASE fr.field.count = -1 \/ fr.field.kind = "bool"
  <2>1. t = Reference!Single(g, nested, s, fr.field)
    BY NumberIs
  <2>2. fr.field.count # -1 => fr.field.kind \in ItemWise
    BY <1>5 DEF ItemWise
  <2> HIDE DEF t
  <2>3. Rest(g, up, Reference!Single(g, nested, s, fr.field)) = Rest(g, fr, s)
    BY <2>2, ElementRest
  <2> QED
    BY <2>1, <2>3 DEF t
<1>6. CASE fr.field.count # -1 /\ fr.field.kind # "bool"
  <2> DEFINE m == fr.n - fr.done
  <2>1. m \in Nat /\ m # 0 /\ fr.n - up.done = m - 1 /\ m - 1 \in Nat
    BY <1>1, <1>2
  <2>2. Rest(g, fr, s) = Reference!Array(g, s, width, m)
    <3>1. Rest(g, fr, s) = Reference!Items(g, nested, s, fr.field, m)
      BY <1>6 DEF Rest
    <3>2. Reference!Items(g, nested, s, fr.field, m) = Reference!Array(g, s, width, m)
      BY <1>6, ReadAtOnce
    <3> QED
      BY <3>1, <3>2
  <2>3. Rest(g, up, t) = IF m - 1 = 0 THEN t ELSE Reference!Array(g, t, width, m - 1)
    <3>1. up.done = up.n <=> m - 1 = 0
      BY <1>1, <1>2
    <3>2. up.n - up.done = m - 1
      BY <1>2, <2>1
    <3>3. Reference!Items(g, nested, t, fr.field, m - 1) = Reference!Array(g, t, width, m - 1)
      BY <1>6, ReadAtOnce
    <3> HIDE DEF m, up, t, nested, width
    <3> QED
      BY <1>2, <1>4, <1>6, <3>1, <3>2, <3>3 DEF Rest
  <2>4. Reference!AlignTo(g, s, width) + width <= g.body
    OBVIOUS
  <2> HIDE DEF m, width
  <2>5. Reference!Array(g, s, width, m) = Reference!Array(g, t, width, m - 1)
    BY <1>3, <2>1, <2>4, ArrayGoesOn
  <2>6. m - 1 = 0 => Reference!Array(g, t, width, m - 1) = t
    BY DEF Reference!Array
  <2> QED
    BY <2>2, <2>3, <2>5, <2>6 DEF up, width
<1> QED
  BY <1>5, <1>6

-----------------------------------------------------------------------------
(* The decoder beside the Python reader *)

\* A field that Comparable lets be.
Plain(f) == f.count # -1 => f.count # 0 /\ f.kind \in KnownKinds

\* A call that the Python reader can follow.
Follows(fr) ==
  /\ fr.op = "plan" => fr.depth <= MaxDepth + 1
  /\ fr.op = "array" => fr.field.count # -1 /\ fr.field.kind # "wstring"
  /\ fr.op = "elems" /\ fr.field.count = -1 => fr.n = 1
  /\ Plain(fr.field)

\* The numbers found so far are among c.
Knows(c) == DOMAIN cells \subseteq DOMAIN c /\ \A at \in DOMAIN cells : c[at] = cells[at]

\* The walk, for a schema that both read alike.
Walks ==
  /\ TypeInv /\ NestInv /\ Comparable /\ outcome = "running"
  /\ align8 = (IF payload.kind > 3 THEN 4 ELSE 8)
  /\ \A i \in DOMAIN stack : Follows(stack[i])

LEMMA GivenParts ==
  ASSUME ConfigTyped, outcome \in {"built", "running", "ok"}, NEW c
  PROVE  /\ Readers(GivenTo(c))
         /\ GivenTo(c).plans = schema.plans /\ GivenTo(c).body = payload.size - 4
         /\ GivenTo(c).cells = c
         /\ GivenTo(c).eight = (IF payload.kind > 3 THEN 4 ELSE 8)
<1> DEFINE g == GivenTo(c)
<1>1. /\ g.plans = schema.plans /\ g.body = payload.size - 4 /\ g.cells = c
      /\ g.eight = (IF payload.kind > 3 THEN 4 ELSE 8)
  BY DEF GivenTo, Reference!Given
<1>2. schema \in Schema /\ WellFormed(schema) /\ payload.size \in Nat
  BY DEF ConfigTyped, Payload
<1>3. schema.plans \in Seq(Plan)
  BY <1>2 DEF Schema
<1> HIDE DEF g
<1>4. g.plans \in Seq(Plan) /\ g.eight \in {4, 8} /\ g.body \in Int
  BY <1>1, <1>2, <1>3
<1>5. ASSUME NEW t \in DOMAIN g.plans, NEW f \in Targets(g.plans[t]) PROVE FieldIn(g, f)
  <2> DEFINE p == g.plans[t]
  <2>1. p \in Plan
    BY <1>4
  <2>2. f.kind = "complex" => f.target \in DOMAIN g.plans
    BY <1>1, <1>2, <1>5 DEF WellFormed
  <2> HIDE DEF p
  <2>3. p.fields \in Seq(Field) /\ p.default \in Seq(Field) /\ p.cases \in Seq(Case)
    BY <2>1 DEF Plan
  <2>4. f \in Targets(p)
    BY DEF p
  <2>5. \A i \in DOMAIN p.cases : p.cases[i].field \in Field
    <3>1. \A i \in DOMAIN p.cases : p.cases[i] \in Case
      BY <2>3
    <3> QED
      BY <3>1 DEF Case
  <2>6. f \in Field
    BY <2>3, <2>4, <2>5 DEF Targets
  <2> QED
    BY <2>2, <2>6 DEF FieldIn
<1>6. Readers(g)
  BY <1>4, <1>5 DEF Readers
<1> QED
  BY <1>1, <1>6 DEF g

LEMMA GoodPending ==
  ASSUME Walks, NEW c, NEW fr \in GoodFrame, Admitted(fr), Follows(fr)
  PROVE  fr \in Pending(GivenTo(c))
<1>1. fr \in Frame /\ GoodField(fr.field) /\ (fr.op = "plan" => fr.field.kind = "complex")
  BY DEF GoodFrame
<1>2. GivenTo(c).plans = schema.plans
  BY GivenParts DEF Walks, TypeInv
<1>3. FieldIn(GivenTo(c), fr.field)
  BY <1>1, <1>2 DEF GoodField, FieldIn
<1>4. fr.depth \in Nat /\ MaxDepth \in Nat /\ RecursionLimit \in Nat /\ RecursionLimit > MaxDepth
  BY <1>1, LimitsAssumption, RecursionAssumption DEF Frame
<1>5. fr.op = "plan" => fr.depth <= RecursionLimit
  BY <1>4 DEF Follows
<1>6. fr.op \in {"field", "array", "elems"} => fr.depth < RecursionLimit
  BY <1>4 DEF Admitted
<1>7. fr.op = "elems" => fr.done <= fr.n
  BY DEF Admitted
<1> QED
  BY <1>1, <1>3, <1>5, <1>6, <1>7 DEF Pending

LEMMA TopPending ==
  ASSUME Walks, stack # <<>>, NEW c
  PROVE  /\ Top \in GoodFrame /\ Top \in Frame /\ Admitted(Top) /\ Follows(Top)
         /\ Top \in Pending(GivenTo(c)) /\ stack \in Seq(Pending(GivenTo(c)))
         /\ Readers(GivenTo(c)) /\ Here \in Reference!State
<1>1. stack \in Seq(GoodFrame) /\ Len(stack) \in Nat /\ DOMAIN stack = 1..Len(stack)
  BY DEF Walks, TypeInv
<1>2. \A i \in 1..Len(stack) : stack[i] \in GoodFrame /\ Admitted(stack[i]) /\ Follows(stack[i])
  BY <1>1 DEF Walks, NestInv
<1>3. \A i \in 1..Len(stack) : stack[i] \in Pending(GivenTo(c))
  BY <1>2, GoodPending
<1>4. 1 \in 1..Len(stack) /\ Top = stack[1]
  BY <1>1 DEF Top
<1>5. stack \in Seq(Pending(GivenTo(c)))
  <2> DEFINE P == Pending(GivenTo(c))
  <2>1. \A i \in 1..Len(stack) : stack[i] \in P
    BY <1>3
  <2> HIDE DEF P
  <2>2. stack \in Seq(P)
    BY <1>1, <2>1
  <2> QED
    BY <2>2 DEF P
<1>6. Readers(GivenTo(c)) /\ Here \in Reference!State
  BY GivenParts, HereTyped DEF Walks, TypeInv
<1> QED
  BY <1>2, <1>3, <1>4, <1>5, <1>6 DEF GoodFrame

\* The innermost call gives way to calls that read what it has left to read.
Goes(c) ==
  \E frames \in Seq(Pending(GivenTo(c))) :
    /\ Continue(frames)
    /\ \A i \in DOMAIN frames : Follows(frames[i])
    /\ Here' \in Reference!State
    /\ Reference!Through(Here', Todo(GivenTo(c), frames)) = Rest(GivenTo(c), Top, Here)

LEMMA GoesBack ==
  ASSUME Walks, stack # <<>>, NEW c, Continue(<<>>), Here' \in Reference!State,
         Here' = Rest(GivenTo(c), Top, Here)
  PROVE  Goes(c)
<1> DEFINE none == <<>>
           here == Here'
           g == GivenTo(c)
<1>1. Readers(g)
  BY TopPending
<1>2. none \in Seq(Pending(g)) /\ DOMAIN none = {}
  OBVIOUS
<1>3. here \in Reference!State
  OBVIOUS
<1> HIDE DEF here, g
<1>4. Reference!Through(here, Todo(g, <<>>)) = here
  BY <1>1, <1>3, TodoFew
<1> QED
  BY <1>2, <1>4 DEF Goes, here, g

LEMMA GoesOn ==
  ASSUME Walks, stack # <<>>, NEW c, NEW fr \in Pending(GivenTo(c)), Follows(fr),
         Continue(<<fr>>), Here' \in Reference!State,
         Rest(GivenTo(c), fr, Here') = Rest(GivenTo(c), Top, Here)
  PROVE  Goes(c)
<1> DEFINE one == <<fr>>
           here == Here'
           g == GivenTo(c)
<1>1. Readers(g)
  BY TopPending
<1>2. one \in Seq(Pending(g)) /\ \A i \in DOMAIN one : one[i] = fr
  OBVIOUS
<1>3. here \in Reference!State
  OBVIOUS
<1> HIDE DEF here, g
<1>4. fr \in Pending(g)
  BY DEF g
<1>5. Reference!Through(here, Todo(g, <<fr>>)) = Rest(g, fr, here)
  BY <1>1, <1>3, <1>4, TodoFew
<1> HIDE DEF one
<1>6. Continue(one) /\ Reference!Through(here, Todo(g, one)) = Rest(g, fr, here)
  BY <1>5 DEF one
<1> QED
  BY <1>2, <1>6 DEF Goes, here, g

LEMMA GoesDown ==
  ASSUME Walks, stack # <<>>, NEW c, NEW fr \in Pending(GivenTo(c)), Follows(fr),
         NEW up \in Pending(GivenTo(c)), Follows(up),
         Continue(<<fr, up>>), Here' \in Reference!State,
         Rest(GivenTo(c), up, Rest(GivenTo(c), fr, Here')) = Rest(GivenTo(c), Top, Here)
  PROVE  Goes(c)
<1> DEFINE two == <<fr, up>>
           here == Here'
           g == GivenTo(c)
<1>1. Readers(g)
  BY TopPending
<1>2. two \in Seq(Pending(g)) /\ \A i \in DOMAIN two : two[i] = fr \/ two[i] = up
  OBVIOUS
<1>3. here \in Reference!State
  OBVIOUS
<1> HIDE DEF here, g
<1>4. fr \in Pending(g) /\ up \in Pending(g)
  BY DEF g
<1>5. Reference!Through(here, Todo(g, <<fr, up>>)) = Rest(g, up, Rest(g, fr, here))
  BY <1>1, <1>3, <1>4, TodoFew
<1> HIDE DEF two
<1>6. Continue(two) /\ Reference!Through(here, Todo(g, two)) = Rest(g, up, Rest(g, fr, here))
  BY <1>5 DEF two
<1> QED
  BY <1>2, <1>6 DEF Goes, here, g

LEMMA HereStays == NoRead => Here' = Here
BY DEF NoRead, Here, BytesRead

\* A number is read by both from the same place.
LEMMA HereUnpacks ==
  ASSUME Walks, NEW c, NEW width \in {1, 2, 4, 8}, Take(width, Align(width))
  PROVE  /\ Here' = Reference!Unpack(GivenTo(c), Here, width)
         /\ Here' \in Reference!State
         /\ Here'.failed = FALSE
         /\ Reference!AlignTo(GivenTo(c), Here, width) + width <= GivenTo(c).body
         /\ Reference!AlignTo(GivenTo(c), Here, width) = Start(Align(width)) - 4
<1> DEFINE g == GivenTo(c)
           al == Align(width)
           from == Padded(Here.at, al)
<1>1. ConfigTyped /\ ReaderTyped /\ al \in Alignments
  BY AlignTyped DEF Walks, TypeInv
<1>2. Readers(g) /\ g.body = payload.size - 4 /\ g.eight = align8
  BY GivenParts DEF Walks, TypeInv
<1>3. Here \in Reference!State /\ Here.failed = FALSE
  BY <1>1, HereTyped DEF Here
<1>4. Reference!AlignTo(g, Here, width) = from
  <2>1. Reference!AlignTo(g, Here, width) = Padded(Here.at, IF width = 8 THEN g.eight ELSE width)
    BY <1>2, <1>3, AlignsTo
  <2> QED
    BY <1>2, <2>1 DEF Align
<1>5. width \in Nat
  OBVIOUS
<1> HIDE DEF al, g, from
<1>6. Take(width, al)
  BY DEF al
<1>7. /\ Here' = Reference!Moved(Here, from + width, Reference!Bytes(from, width))
      /\ from + width <= payload.size - 4 /\ Start(al) - 4 = from
  BY <1>1, <1>5, <1>6, TakeMoves DEF from
<1>8. from \in Nat /\ g.body \in Int
  BY <1>1, <1>2, <1>3, PaddedAligned DEF from, Reference!State, Readers
<1>9. Reference!Unpack(g, Here, width) = Reference!Moved(Here, from + width, Reference!Bytes(from, width))
  <2>1. ~(from + width > g.body)
    BY <1>2, <1>5, <1>7, <1>8
  <2> QED
    BY <1>3, <1>4, <2>1 DEF Reference!Unpack
<1>10. Reference!Unpack(g, Here, width) \in Reference!State
  BY <1>2, <1>3, UnpackTyped
<1>11. Here'.failed = FALSE
  BY DEF Here
<1> QED
  BY <1>2, <1>4, <1>7, <1>9, <1>10, <1>11 DEF g, al

\* And is the same number.
LEMMA HereNumber ==
  ASSUME NEW c, Knows(c)', NEW n, NEW al, NEW v, TakeNumber(n, al, v)
  PROVE  Start(al) - 4 \in DOMAIN c /\ c[Start(al) - 4] = v
<1> DEFINE at == Start(al) - 4
<1>1. cells' = [i \in DOMAIN cells \cup {at} |-> IF i = at THEN v ELSE cells[i]]
  BY DEF TakeNumber
<1> HIDE DEF at
<1>2. at \in DOMAIN cells' /\ cells'[at] = v
  BY <1>1
<1>3. at \in DOMAIN c /\ c[at] = v
  BY <1>2 DEF Knows
<1> QED
  BY <1>3 DEF at

LEMMA RestOf ==
  ASSUME NEW g, NEW fr, NEW s
  PROVE  /\ fr.op = "field" => Rest(g, fr, s) = Reference!FieldValue(g, Below(g, fr), s, fr.field)
         /\ fr.op = "array" => Rest(g, fr, s) = Reference!Items(g, Below(g, fr), s, fr.field, fr.n)
         /\ fr.op = "text" => Rest(g, fr, s) = Reference!Slice(g, s, s.at, fr.n)
         /\ fr.op = "nsec" => Rest(g, fr, s) = Reference!Unpack(g, s, 4)
BY DEF Rest

LEMMA CallParts ==
  ASSUME NEW op, NEW f, NEW n, NEW d
  PROVE  /\ Call(op, f, n, d).op = op /\ Call(op, f, n, d).field = f
         /\ Call(op, f, n, d).n = n /\ Call(op, f, n, d).done = 0 /\ Call(op, f, n, d).depth = d
BY DEF Call

LEMMA AlignFour == Align(4) = 4 /\ Align(1) = 1
BY DEF Align

\* A call of a field, of an array or of a loop in place of one at the same depth.
LEMMA CallPending ==
  ASSUME Walks, stack # <<>>, NEW c, NEW op \in {"field", "array", "elems"}, NEW f,
         GoodField(f), NEW n \in Nat, Top.depth <= MaxDepth,
         op = "elems" /\ f.count # -1 => n <= payload.size - 4,
         Follows(Call(op, f, n, Top.depth))
  PROVE  /\ Call(op, f, n, Top.depth) \in Pending(GivenTo(c))
         /\ Below(GivenTo(c), Call(op, f, n, Top.depth)) = Below(GivenTo(c), Top)
<1> DEFINE fr == Call(op, f, n, Top.depth)
<1>1. Top.depth \in Nat
  BY TopGood DEF Walks
<1>2. fr \in GoodFrame
  BY <1>1, CallGood
<1>3. fr.op = op /\ fr.field = f /\ fr.n = n /\ fr.done = 0 /\ fr.depth = Top.depth
  BY CallParts
<1> HIDE DEF fr
<1>4. Admitted(fr)
  BY <1>1, <1>3 DEF Admitted
<1>5. Follows(fr)
  BY DEF fr
<1>6. fr \in Pending(GivenTo(c))
  BY <1>2, <1>4, <1>5, GoodPending
<1> QED
  BY <1>3, <1>6 DEF fr, Below

\* The targets of a plan.
LEMMA TargetsPlain ==
  ASSUME Walks, stack # <<>>, At("plan"), NEW f \in Targets(ThePlan)
  PROVE  GoodField(f) /\ Plain(f)
<1>1. GoodField(f)
  BY PlanGood DEF Walks
<1>2. Top \in GoodFrame /\ Top.op = "plan"
  BY TopPending DEF At, Top
<1>3. Top.field.target \in DOMAIN schema.plans
  BY <1>2 DEF GoodFrame, GoodField
<1>4. Plain(f)
  BY <1>3 DEF Walks, Comparable, ThePlan, Plain
<1> QED
  BY <1>1, <1>4

LEMMA StructGoes ==
  ASSUME Walks, EnterStruct, NEW c PROVE Goes(c)
<1> DEFINE g == GivenTo(c)
           fs == ThePlan.fields
           frames == Fields(fs)
           nested == Below(g, Top)
           here == Here'
<1>1. stack # <<>> /\ At("plan") /\ Top.op = "plan" /\ Top.depth <= MaxDepth /\ TypeInv
  BY DEF EnterStruct, InPlan, At, Top, Walks
<1>2. /\ Top \in Pending(g) /\ Top \in GoodFrame /\ Readers(g) /\ Here \in Reference!State
      /\ Here.failed = FALSE /\ g.plans = schema.plans /\ Top.depth \in Nat
  BY <1>1, TopPending, TopGood, GivenParts DEF Here, Walks, TypeInv
<1>3. ThePlan \in Plan /\ fs \in Seq(Field) /\ fs # <<>> /\ ~ThePlan.union
  BY <1>1, PlanGood DEF Plan, EnterStruct
<1>4. \A i \in DOMAIN fs : GoodField(fs[i]) /\ Plain(fs[i])
  <2>1. \A i \in DOMAIN fs : fs[i] \in Targets(ThePlan)
    BY DEF Targets
  <2> QED
    BY <1>1, <2>1, TargetsPlain
<1>5. here = Here
  BY HereStays DEF EnterStruct
<1>6. Rest(g, Top, Here) = Reference!Complex(g, nested, Here, Top.field.target)
  <2>1. Top.depth < RecursionLimit
    BY <1>1, <1>2, RecursionAssumption, LimitsAssumption
  <2> HIDE DEF g
  <2> QED
    BY <1>1, <1>2, <2>1, PlanRest
<1>7. g.plans[Top.field.target] = ThePlan
  BY <1>2 DEF ThePlan
<1> HIDE DEF g, here
<1>8. Reference!Complex(g, nested, Here, Top.field.target) =
        Reference!Through(Here, [i \in DOMAIN fs |-> [r \in Reference!State |->
                                   Reference!FieldValue(g, nested, r, fs[i])]])
  BY <1>3, <1>7 DEF Reference!Complex
<1>9. ASSUME NEW i \in DOMAIN fs
      PROVE  /\ Call("field", fs[i], 0, Top.depth) \in Pending(g)
             /\ Follows(Call("field", fs[i], 0, Top.depth))
             /\ \A r : Rest(g, Call("field", fs[i], 0, Top.depth), r) =
                         Reference!FieldValue(g, nested, r, fs[i])
  <2> DEFINE fr == Call("field", fs[i], 0, Top.depth)
  <2>1. fr.op = "field" /\ fr.field = fs[i]
    BY CallParts
  <2>2. Follows(fr)
    BY <1>4, <2>1 DEF Follows
  <2>3. fr \in Pending(g) /\ Below(g, fr) = nested
    BY <1>1, <1>4, <2>2, CallPending DEF g
  <2> HIDE DEF fr, nested
  <2>4. \A r : Rest(g, fr, r) = Reference!FieldValue(g, nested, r, fs[i])
    BY <2>1, <2>3, RestOf
  <2> QED
    BY <2>2, <2>3, <2>4 DEF fr
<1>10. /\ DOMAIN frames = DOMAIN fs
       /\ \A i \in DOMAIN fs : frames[i] = Call("field", fs[i], 0, Top.depth)
  BY DEF Fields
<1> HIDE DEF frames, nested
<1>11. Todo(g, frames) = [i \in DOMAIN fs |-> [r \in Reference!State |->
                            Reference!FieldValue(g, nested, r, fs[i])]]
  BY <1>9, <1>10 DEF Todo
<1>12. frames \in Seq(Pending(g))
  <2> DEFINE P == Pending(g)
             n == Len(fs)
  <2>1. \A i \in DOMAIN fs : frames[i] \in P
    BY <1>9, <1>10
  <2>2. n \in Nat /\ DOMAIN fs = 1..n
    BY <1>3
  <2>3. frames = [i \in 1..n |-> frames[i]]
    BY <1>10, <2>2 DEF frames, Fields
  <2> HIDE DEF P, n
  <2>4. frames \in Seq(P)
    BY <2>1, <2>2, <2>3
  <2> QED
    BY <2>4 DEF P
<1>13. Reference!Through(here, Todo(g, frames)) = Rest(g, Top, Here)
  BY <1>5, <1>6, <1>8, <1>11
<1>14. Continue(frames)
  BY DEF EnterStruct, frames
<1>15. \A i \in DOMAIN frames : Follows(frames[i])
  BY <1>9, <1>10
<1> QED
  BY <1>2, <1>5, <1>12, <1>13, <1>14, <1>15 DEF Goes, here, g

LEMMA EmptyGoes ==
  ASSUME Walks, EnterEmpty, NEW c PROVE Goes(c) \/ outcome' \in Errors
<1> DEFINE g == GivenTo(c)
<1>1. stack # <<>> /\ At("plan") /\ Top.op = "plan" /\ Top.depth <= MaxDepth /\ TypeInv
  BY DEF EnterEmpty, InPlan, At, Top, Walks
<1>2. /\ Top \in Pending(g) /\ Top \in GoodFrame /\ Readers(g) /\ Here \in Reference!State
      /\ Here.failed = FALSE /\ g.plans = schema.plans /\ Top.depth \in Nat
  BY <1>1, TopPending, TopGood, GivenParts DEF Here, Walks, TypeInv
<1>3. CASE Truncated(1, 1)
  BY <1>3 DEF Truncated, Raise, Errors
<1>4. CASE Take(1, 1) /\ Continue(<<>>)
  <2>1. Here' = Reference!Unpack(g, Here, 1) /\ Here' \in Reference!State
    BY <1>4, AlignFour, HereUnpacks
  <2>2. Rest(g, Top, Here) = Reference!Complex(g, Below(g, Top), Here, Top.field.target)
    <3>1. Top.depth < RecursionLimit
      BY <1>1, <1>2, RecursionAssumption, LimitsAssumption
    <3> HIDE DEF g
    <3> QED
      BY <1>1, <1>2, <3>1, PlanRest
  <2>3. g.plans[Top.field.target] = ThePlan
    BY <1>2 DEF ThePlan
  <2> HIDE DEF g
  <2>4. Reference!Complex(g, Below(g, Top), Here, Top.field.target) = Reference!Unpack(g, Here, 1)
    BY <2>3 DEF Reference!Complex, EnterEmpty
  <2>5. Here' = Rest(g, Top, Here)
    BY <2>1, <2>2, <2>4
  <2> QED
    BY <1>1, <1>4, <2>1, <2>5, GoesBack DEF g
<1> QED
  BY <1>3, <1>4 DEF EnterEmpty

LEMMA UnionGoes ==
  ASSUME Walks, EnterUnion, NEW c, Knows(c)' PROVE Goes(c) \/ outcome' \in Errors
<1> DEFINE g == GivenTo(c)
           n == Widths[ThePlan.switch]
           a == Align(n)
           p == ThePlan
           nested == Below(g, Top)
<1>1. stack # <<>> /\ At("plan") /\ Top.op = "plan" /\ Top.depth <= MaxDepth /\ TypeInv
  BY DEF EnterUnion, InPlan, At, Top, Walks
<1>2. /\ Top \in Pending(g) /\ Top \in GoodFrame /\ Readers(g) /\ Here \in Reference!State
      /\ Here.failed = FALSE /\ g.plans = schema.plans /\ g.cells = c /\ Top.depth \in Nat
  BY <1>1, TopPending, TopGood, GivenParts DEF Here, Walks, TypeInv
<1>3. p \in Plan /\ p.union /\ p.switch \in NumberKinds
  BY <1>1, PlanGood DEF EnterUnion, IntegerKinds
<1>4. n \in {1, 2, 4, 8}
  BY <1>3, WidthsTyped
<1>5. ASSUME NEW v, TakeNumber(n, a, v), NEW f \in Selected(p, v),
             Continue(<<Call("field", f, 0, Top.depth)>>)
      PROVE  Goes(c)
  <2> DEFINE fr == Call("field", f, 0, Top.depth)
             at == Reference!AlignTo(g, Here, n)
             picked == Reference!CaseField(p, g.cells[at])
  <2>1. /\ Here' = Reference!Unpack(g, Here, n) /\ Here' \in Reference!State
        /\ at = Start(a) - 4
    BY <1>4, <1>5, HereUnpacks DEF TakeNumber
  <2>2. at \in DOMAIN c /\ c[at] = v
    BY <1>5, <2>1, HereNumber
  <2>3. picked # <<>> /\ picked[1] = f /\ f \in Targets(p)
    BY <1>2, <1>3, <1>5, <2>2, SamePick
  <2>4. GoodField(f) /\ Plain(f)
    BY <1>1, <2>3, TargetsPlain
  <2>5. fr.op = "field" /\ fr.field = f
    BY CallParts
  <2>6. Follows(fr)
    BY <2>4, <2>5 DEF Follows
  <2>7. fr \in Pending(g) /\ Below(g, fr) = nested
    BY <1>1, <2>4, <2>6, CallPending
  <2>8. Rest(g, Top, Here) = Reference!Complex(g, nested, Here, Top.field.target)
    <3>1. Top.depth < RecursionLimit
      BY <1>1, <1>2, RecursionAssumption, LimitsAssumption
    <3> HIDE DEF g
    <3> QED
      BY <1>1, <1>2, <3>1, PlanRest
  <2>9. g.plans[Top.field.target] = p
    BY <1>2 DEF ThePlan
  <2>10. Reference!Complex(g, nested, Here, Top.field.target) = Reference!Union(g, nested, Here, p)
    <3> HIDE DEF g, nested
    <3> QED
      BY <1>3, <2>9 DEF Reference!Complex
  <2> DEFINE here == Here'
  <2>11. Reference!Union(g, nested, Here, p) = Reference!FieldValue(g, nested, here, f)
    <3>1. n = Reference!Sizes[p.switch] /\ p.switch \in DOMAIN Reference!Sizes
      BY <1>3, SizesAlike DEF NumberKinds
    <3>2. at \in DOMAIN g.cells
      BY <1>2, <2>2
    <3>3. here = Reference!Unpack(g, Here, n)
      BY <2>1
    <3> HIDE DEF g, nested, here
    <3> QED
      BY <2>3, <3>1, <3>2, <3>3 DEF Reference!Union
  <2>12. Rest(g, fr, here) = Reference!FieldValue(g, nested, here, f)
    <3> HIDE DEF g, nested, here, fr
    <3> QED
      BY <2>5, <2>7, RestOf
  <2>13. Rest(g, fr, here) = Rest(g, Top, Here)
    BY <2>8, <2>10, <2>11, <2>12
  <2> HIDE DEF fr
  <2>14. Continue(<<fr>>)
    BY <1>5 DEF fr
  <2> QED
    BY <1>1, <2>1, <2>6, <2>7, <2>13, <2>14, GoesOn
<1>6. CASE Truncated(n, a)
  BY <1>6 DEF Truncated, Raise, Errors
<1>7. ASSUME NEW v, TakeNumber(n, a, v),
             IF v > MaxSigned THEN Raise("OverflowError")
             ELSE IF Selected(p, v) = {} THEN Raise("ValueError")
             ELSE \E f \in Selected(p, v) : Continue(<<Call("field", f, 0, Top.depth)>>)
      PROVE  Goes(c) \/ outcome' \in Errors
  <2>1. CASE Raise("OverflowError") \/ Raise("ValueError")
    BY <2>1 DEF Raise, Errors
  <2>2. CASE \E f \in Selected(p, v) : Continue(<<Call("field", f, 0, Top.depth)>>)
    BY <1>5, <1>7, <2>2
  <2> QED
    BY <1>7, <2>1, <2>2
<1> QED
  BY <1>6, <1>7 DEF EnterUnion

LEMMA EnterGoes ==
  ASSUME Walks, Enter, NEW c, Knows(c)' PROVE Goes(c) \/ outcome' \in Errors
<1>1. CASE TooDeep
  BY <1>1 DEF TooDeep, Raise, Errors
<1>2. CASE BadSwitch
  BY <1>2 DEF BadSwitch, Raise, Errors
<1> QED
  BY <1>1, <1>2, UnionGoes, EmptyGoes, StructGoes DEF Enter

\* What is known of the innermost call while it reads a field.
LEMMA InnermostField ==
  ASSUME Walks, NEW c, stack # <<>>, NEW op \in {"field", "array", "elems"}, Top.op = op
  PROVE  /\ Top \in Pending(GivenTo(c)) /\ Readers(GivenTo(c))
         /\ Here \in Reference!State /\ Here.failed = FALSE
         /\ Top.depth <= MaxDepth /\ Top.depth \in Nat /\ Top.n \in Nat /\ Top.done \in Nat
         /\ GoodField(Top.field) /\ Top.field \in Field /\ Plain(Top.field)
         /\ Below(GivenTo(c), Top) \in Nesters(GivenTo(c))
         /\ offset \in Nat /\ payload.size \in Nat /\ ConfigTyped /\ ReaderTyped
         /\ GivenTo(c).body = payload.size - 4 /\ GivenTo(c).cells = c
<1>1. /\ Top \in Pending(GivenTo(c)) /\ Top \in Frame /\ Admitted(Top) /\ Follows(Top)
      /\ Readers(GivenTo(c)) /\ Here \in Reference!State
  BY TopPending
<1>2. Top.depth <= MaxDepth /\ Top.depth < RecursionLimit /\ Top.depth \in Nat
      /\ Top.n \in Nat /\ Top.done \in Nat
  BY <1>1 DEF Admitted, Pending, Frame
<1>3. Below(GivenTo(c), Top) \in Nesters(GivenTo(c))
  BY <1>1, <1>2, BelowTyped
<1>4. Here.failed = FALSE
  BY DEF Here
<1>5. TypeInv /\ outcome = "running"
  BY DEF Walks
<1>6. GivenTo(c).body = payload.size - 4 /\ GivenTo(c).cells = c
  BY <1>5, GivenParts DEF TypeInv
<1>7. GoodField(Top.field) /\ Top.field \in Field
  BY <1>5, TopGood
<1>8. offset \in Nat /\ payload.size \in Nat /\ ConfigTyped /\ ReaderTyped
  BY <1>5 DEF TypeInv, ConfigTyped, ReaderTyped, Payload
<1> QED
  BY <1>1, <1>2, <1>3, <1>4, <1>6, <1>7, <1>8 DEF Follows

LEMMA OneGoes ==
  ASSUME Walks, One, NEW c PROVE Goes(c)
<1> DEFINE g == GivenTo(c)
           nested == Below(g, Top)
           here == Here'
           fr == Call("elems", Top.field, 1, Top.depth)
<1>1. stack # <<>> /\ Top.op = "field" /\ Top.field.count = -1
  BY DEF One, InField, At, Top
<1>2. /\ Here \in Reference!State /\ Top.depth <= MaxDepth /\ Top.field \in Field
      /\ GoodField(Top.field) /\ Plain(Top.field)
  BY <1>1, InnermostField
<1>3. fr.op = "elems" /\ fr.field = Top.field /\ fr.n = 1 /\ fr.done = 0
  BY CallParts
<1>4. Follows(fr)
  BY <1>1, <1>2, <1>3 DEF Follows
<1>5. fr \in Pending(g) /\ Below(g, fr) = nested
  BY <1>1, <1>2, <1>4, CallPending
<1>6. here = Here
  BY HereStays DEF One
<1> HIDE DEF g, nested, here, fr
<1>7. Rest(g, Top, Here) = Reference!Single(g, nested, Here, Top.field)
  BY <1>1, RestOf DEF Reference!FieldValue, nested
<1>8. Rest(g, fr, here) = Reference!Single(g, nested, Here, Top.field)
  BY <1>1, <1>3, <1>5, <1>6 DEF Rest
<1>9. Continue(<<fr>>)
  BY DEF One, fr
<1> QED
  BY <1>1, <1>2, <1>4, <1>5, <1>6, <1>7, <1>8, <1>9, GoesOn DEF g, here

\* The array that a field becomes when its length is known.
LEMMA ArrayStarts ==
  ASSUME Walks, NEW c, stack # <<>>, Top.op = "field", Top.field.count # -1,
         Top.field.kind # "wstring", NEW n \in Nat
  PROVE  /\ Call("array", Top.field, n, Top.depth) \in Pending(GivenTo(c))
         /\ Follows(Call("array", Top.field, n, Top.depth))
         /\ \A s : Rest(GivenTo(c), Call("array", Top.field, n, Top.depth), s) =
                     Reference!Items(GivenTo(c), Below(GivenTo(c), Top), s, Top.field, n)
<1> DEFINE g == GivenTo(c)
           nested == Below(g, Top)
           fr == Call("array", Top.field, n, Top.depth)
<1>1. /\ Top.depth <= MaxDepth /\ Top.field \in Field
      /\ GoodField(Top.field) /\ Plain(Top.field)
  BY InnermostField
<1>2. fr.op = "array" /\ fr.field = Top.field /\ fr.n = n
  BY CallParts
<1>3. Follows(fr)
  BY <1>1, <1>2 DEF Follows
<1>4. fr \in Pending(g) /\ Below(g, fr) = nested
  BY <1>1, <1>3, CallPending
<1> HIDE DEF g, nested, fr
<1>5. \A s : Rest(g, fr, s) = Reference!Items(g, nested, s, Top.field, n)
  BY <1>2, <1>4, RestOf
<1> QED
  BY <1>3, <1>4, <1>5 DEF g, nested, fr

LEMMA FixedGoes ==
  ASSUME Walks, FixedCount, NEW c PROVE Goes(c)
<1> DEFINE g == GivenTo(c)
           nested == Below(g, Top)
           here == Here'
           n == Top.field.count
           fr == Call("array", Top.field, n, Top.depth)
<1>1. stack # <<>> /\ Top.op = "field" /\ n >= 0 /\ Top.field.kind # "wstring"
  BY DEF FixedCount, InField, At, Top
<1>2. Here \in Reference!State /\ Top.field \in Field /\ Plain(Top.field)
  BY <1>1, InnermostField
<1>3. n \in Nat /\ n > 0 /\ n # -1
  BY <1>1, <1>2 DEF Plain, Field
<1>4. /\ fr \in Pending(g) /\ Follows(fr)
      /\ \A s : Rest(g, fr, s) = Reference!Items(g, nested, s, Top.field, n)
  BY <1>1, <1>3, ArrayStarts
<1>5. here = Here
  BY HereStays DEF FixedCount
<1> HIDE DEF g, nested, here, fr
<1>6. Rest(g, Top, Here) = Reference!FieldValue(g, nested, Here, Top.field)
  BY <1>1, RestOf DEF nested
<1>7. Reference!FieldValue(g, nested, Here, Top.field) = Reference!Items(g, nested, Here, Top.field, n)
  BY <1>3 DEF Reference!FieldValue
<1>8. Rest(g, fr, here) = Rest(g, Top, Here)
  BY <1>4, <1>5, <1>6, <1>7
<1>9. Continue(<<fr>>)
  BY DEF FixedCount, fr
<1> QED
  BY <1>1, <1>2, <1>4, <1>5, <1>8, <1>9, GoesOn DEF g, here

\* A length that both read.
LEMMA LengthRead ==
  ASSUME Walks, NEW c, Knows(c)', NEW v \in Nat, TakeNumber(4, 4, v)
  PROVE  /\ Here' = Reference!Unpack(GivenTo(c), Here, 4)
         /\ Here' \in Reference!State /\ Here'.failed = FALSE
         /\ Reference!LengthKnown(GivenTo(c), Here) /\ Reference!LengthAt(GivenTo(c), Here) = v
<1> DEFINE g == GivenTo(c)
           at == Reference!AlignTo(g, Here, 4)
<1>1. Take(4, Align(4))
  BY AlignFour DEF TakeNumber
<1>2. /\ Here' = Reference!Unpack(g, Here, 4) /\ Here' \in Reference!State /\ Here'.failed = FALSE
      /\ at = Start(Align(4)) - 4
  BY <1>1, HereUnpacks
<1>3. at \in DOMAIN c /\ c[at] = v
  BY <1>2, AlignFour, HereNumber
<1>4. g.cells = c
  BY GivenParts DEF Walks, TypeInv
<1>5. Reference!LengthKnown(g, Here) /\ Reference!LengthAt(g, Here) = v
  BY <1>3, <1>4 DEF Reference!LengthKnown, Reference!LengthAt
<1> QED
  BY <1>2, <1>5

LEMMA CountGoes ==
  ASSUME Walks, ReadCount, NEW c, Knows(c)' PROVE Goes(c) \/ outcome' \in Errors
<1> DEFINE g == GivenTo(c)
           nested == Below(g, Top)
           here == Here'
<1>1. stack # <<>> /\ Top.op = "field" /\ Top.field.count = -2 /\ Top.field.kind # "wstring"
  BY DEF ReadCount, InField, At, Top
<1>2. CASE Truncated(4, 4)
  BY <1>2 DEF Truncated, Raise, Errors
<1>3. ASSUME NEW v \in Nat, TakeNumber(4, 4, v), Continue(<<Call("array", Top.field, v, Top.depth)>>)
      PROVE  Goes(c)
  <2> DEFINE fr == Call("array", Top.field, v, Top.depth)
  <2>1. /\ fr \in Pending(g) /\ Follows(fr)
        /\ \A s : Rest(g, fr, s) = Reference!Items(g, nested, s, Top.field, v)
    BY <1>1, ArrayStarts
  <2>2. /\ here = Reference!Unpack(g, Here, 4) /\ here \in Reference!State /\ here.failed = FALSE
        /\ Reference!LengthKnown(g, Here) /\ Reference!LengthAt(g, Here) = v
    BY <1>3, LengthRead
  <2>3. Continue(<<fr>>)
    BY <1>3
  <2> HIDE DEF g, nested, here, fr
  <2>4. Rest(g, Top, Here) = Reference!FieldValue(g, nested, Here, Top.field)
    BY <1>1, RestOf DEF nested
  <2>5. Reference!FieldValue(g, nested, Here, Top.field) = Reference!Items(g, nested, here, Top.field, v)
    BY <1>1, <2>2 DEF Reference!FieldValue
  <2>6. Rest(g, fr, here) = Rest(g, Top, Here)
    BY <2>1, <2>4, <2>5
  <2> QED
    BY <1>1, <2>1, <2>2, <2>3, <2>6, GoesOn DEF g, here
<1> QED
  BY <1>2, <1>3 DEF ReadCount

LEMMA FieldGoes ==
  ASSUME Walks, FieldStep, NEW c, Knows(c)' PROVE Goes(c) \/ outcome' \in Errors
<1>1. CASE Wide
  BY <1>1 DEF Wide, Raise, Errors
<1>2. CASE NegativeCount
  BY <1>2 DEF NegativeCount, Raise, Errors
<1> QED
  BY <1>1, <1>2, OneGoes, CountGoes, FixedGoes DEF FieldStep

\* Numbers that both read at once.
LEMMA NumbersTaken ==
  ASSUME Walks, NEW c, stack # <<>>, Top.op = "array", Top.field.kind \in NumberKinds, Top.n # 0,
         Take(Top.n * Widths[Top.field.kind], Align(Widths[Top.field.kind]))
  PROVE  /\ Here' = Rest(GivenTo(c), Top, Here)
         /\ Here' \in Reference!State
<1> DEFINE g == GivenTo(c)
           nested == Below(g, Top)
           width == Widths[Top.field.kind]
           al == Align(width)
           n == Top.n
           size == n * width
           from == Padded(Here.at, al)
           here == Here'
<1>1. /\ Here \in Reference!State /\ Here.failed = FALSE /\ n \in Nat /\ nested \in Nesters(g)
      /\ Readers(g) /\ ConfigTyped /\ ReaderTyped /\ g.body = payload.size - 4
      /\ payload.size \in Nat /\ Top \in Pending(g)
  BY InnermostField
<1>2. width \in {1, 2, 4, 8} /\ width \in Nat
  BY WidthsTyped
<1>3. al \in Alignments /\ size \in Nat
  BY <1>1, <1>2, AlignTyped
<1>4. g.eight = align8
  BY GivenParts DEF Walks, TypeInv
<1>5. Reference!AlignTo(g, Here, width) = from
  <2>1. Reference!AlignTo(g, Here, width) = Padded(Here.at, IF width = 8 THEN g.eight ELSE width)
    BY <1>1, <1>2, AlignsTo
  <2> QED
    BY <1>4, <2>1 DEF Align
<1>6. Take(size, al)
  OBVIOUS
<1> HIDE DEF al, from, size
<1>7. /\ here = Reference!Moved(Here, from + size, Reference!Bytes(from, size))
      /\ from + size <= payload.size - 4
  BY <1>1, <1>3, <1>6, TakeMoves DEF from
<1>8. Rest(g, Top, Here) = Reference!Items(g, nested, Here, Top.field, n)
  BY RestOf
<1>9. Rest(g, Top, Here) \in Reference!State
  BY <1>1, RestTyped
<1> HIDE DEF g, nested, here
<1>10. from = Reference!AlignTo(g, Here, Widths[Top.field.kind])
       /\ from + n * Widths[Top.field.kind] <= g.body
  BY <1>1, <1>5, <1>7 DEF size
<1>11. Reference!Items(g, nested, Here, Top.field, n) =
         Reference!Moved(Here, from + n * Widths[Top.field.kind],
                         Reference!Bytes(from, n * Widths[Top.field.kind]))
  BY <1>1, <1>10, NumbersFit
<1>12. here = Rest(g, Top, Here)
  BY <1>7, <1>8, <1>11 DEF size
<1> QED
  BY <1>9, <1>12 DEF g, here

LEMMA NothingTaken ==
  ASSUME Walks, NEW c, stack # <<>>, Top.op = "array", Top.n = 0
  PROVE  Rest(GivenTo(c), Top, Here) = Here
<1> DEFINE g == GivenTo(c)
           nested == Below(g, Top)
<1>1. Here \in Reference!State /\ Plain(Top.field)
  BY InnermostField
<1>2. Top.field.count # -1 /\ Top.field.kind # "wstring"
  BY TopPending DEF Follows
<1>3. Top.field.kind \in KnownKinds \ {"wstring"}
  BY <1>1, <1>2 DEF Plain
<1>4. Rest(g, Top, Here) = Reference!Items(g, nested, Here, Top.field, 0)
  BY RestOf
<1> HIDE DEF g, nested
<1> QED
  BY <1>1, <1>3, <1>4, NoItems DEF g

LEMMA BytesGo ==
  ASSUME Walks, ReadBytes, NEW c PROVE Goes(c)
<1>1. stack # <<>> /\ Top.op = "array" /\ Top.field.kind = "uint8"
  BY DEF ReadBytes, AsBytes, At, Top
<1>2. Here \in Reference!State /\ Top.n \in Nat /\ ConfigTyped /\ ReaderTyped
  BY <1>1, InnermostField
<1>3. Take(Top.n, 1) /\ Continue(<<>>)
  BY DEF ReadBytes
<1>4. "uint8" \in NumberKinds /\ Widths["uint8"] = 1 /\ Top.n * 1 = Top.n
  BY <1>2 DEF NumberKinds, Widths
<1>5. CASE Top.n # 0
  <2>1. Take(Top.n * Widths[Top.field.kind], Align(Widths[Top.field.kind]))
    BY <1>1, <1>3, <1>4, AlignFour
  <2>2. Here' = Rest(GivenTo(c), Top, Here) /\ Here' \in Reference!State
    BY <1>1, <1>4, <1>5, <2>1, NumbersTaken
  <2> QED
    BY <1>1, <1>3, <2>2, GoesBack
<1>6. CASE Top.n = 0
  <2>1. Rest(GivenTo(c), Top, Here) = Here
    BY <1>1, <1>6, NothingTaken
  <2> DEFINE from == Padded(Here.at, 1)
             here == Here'
  <2>2. Here.at \in Nat /\ Here = [at |-> Here.at, read |-> Here.read, failed |-> Here.failed]
    BY <1>2 DEF Reference!State
  <2>3. from = Here.at
    BY <2>2 DEF Padded, Padding
  <2>4. here = Reference!Moved(Here, from + Top.n, Reference!Bytes(from, Top.n))
    BY <1>2, <1>3, TakeMoves DEF Alignments
  <2> HIDE DEF from, here
  <2>5. from + Top.n = Here.at /\ Reference!Bytes(from, Top.n) = {}
    BY <1>6, <2>2, <2>3 DEF Reference!Bytes
  <2>6. here = Here
    BY <2>2, <2>4, <2>5 DEF Reference!Moved
  <2> QED
    BY <1>1, <1>2, <1>3, <2>1, <2>6, GoesBack DEF here
<1> QED
  BY <1>5, <1>6

LEMMA ArrayGoes ==
  ASSUME Walks, ArrayStep, NEW c, Knows(c)' PROVE Goes(c) \/ outcome' \in Errors
<1>0. /\ stack # <<>> /\ Top.op = "array"
  BY DEF ArrayStep, LengthExceeds, ReadBytes, EmptyArray, Bulk, StartLoop, At, Top
<1>1. CASE LengthExceeds
  BY <1>1 DEF LengthExceeds, Raise, Errors
<1>2. CASE EmptyArray
  <2>1. Here' = Here /\ Top.n = 0 /\ Continue(<<>>)
    BY <1>2, HereStays DEF EmptyArray
  <2>2. Rest(GivenTo(c), Top, Here) = Here /\ Here \in Reference!State
    BY <1>0, <2>1, NothingTaken, InnermostField
  <2> QED
    BY <1>0, <2>1, <2>2, GoesBack
<1>3. CASE Bulk
  <2>1. CASE Truncated(Top.n * Widths[Top.field.kind], Align(Widths[Top.field.kind]))
    BY <2>1 DEF Truncated, Raise, Errors
  <2>2. CASE Take(Top.n * Widths[Top.field.kind], Align(Widths[Top.field.kind])) /\ Continue(<<>>)
    <3>1. Top.field.kind \in NumberKinds /\ Top.n # 0
      BY <1>3 DEF Bulk, InBulk
    <3>2. Here' = Rest(GivenTo(c), Top, Here) /\ Here' \in Reference!State
      BY <1>0, <2>2, <3>1, NumbersTaken
    <3> QED
      BY <1>0, <2>2, <3>2, GoesBack
  <2> QED
    BY <1>3, <2>1, <2>2 DEF Bulk
<1>4. CASE StartLoop
  <2> DEFINE g == GivenTo(c)
             nested == Below(g, Top)
             here == Here'
             fr == Call("elems", Top.field, Top.n, Top.depth)
  <2>1. /\ Here \in Reference!State /\ Top.depth <= MaxDepth /\ Top.n \in Nat
        /\ GoodField(Top.field) /\ Plain(Top.field) /\ offset \in Nat /\ payload.size \in Nat
        /\ ReaderTyped
    BY <1>0, InnermostField
  <2>2. Top.n > 0 /\ Top.n <= payload.size - 4 /\ Top.field.count # -1
    <3>1. Top.field.count # -1
      BY <1>0, TopPending DEF Follows
    <3>2. offset >= 4
      BY <2>1 DEF ReaderTyped
    <3> QED
      BY <1>4, <2>1, <3>1, <3>2 DEF StartLoop, Exceeds
  <2>3. fr.op = "elems" /\ fr.field = Top.field /\ fr.n = Top.n /\ fr.done = 0
    BY CallParts
  <2>4. Follows(fr)
    BY <2>1, <2>2, <2>3 DEF Follows
  <2>5. fr \in Pending(g) /\ Below(g, fr) = nested
    BY <1>0, <2>1, <2>2, <2>4, CallPending
  <2>6. here = Here
    BY <1>4, HereStays DEF StartLoop
  <2> HIDE DEF g, nested, here, fr
  <2>7. Rest(g, Top, Here) = Reference!Items(g, nested, Here, Top.field, Top.n)
    BY <1>0, RestOf DEF nested
  <2>8. fr.done # fr.n /\ fr.n - fr.done = Top.n
    BY <2>1, <2>2, <2>3
  <2>9. Rest(g, fr, here) = Reference!Items(g, nested, Here, Top.field, Top.n)
    BY <2>2, <2>3, <2>5, <2>6, <2>8 DEF Rest
  <2>10. Continue(<<fr>>)
    BY <1>4 DEF StartLoop, fr
  <2> QED
    BY <1>0, <2>1, <2>4, <2>5, <2>6, <2>7, <2>9, <2>10, GoesOn DEF g, here
<1> QED
  BY <1>1, <1>2, <1>3, <1>4, BytesGo DEF ArrayStep

\* The loop that goes on after one more element.
LEMMA CountedPending ==
  ASSUME Walks, NEW c, stack # <<>>, Top.op = "elems", Top.done < Top.n
  PROVE  /\ Counted \in Pending(GivenTo(c)) /\ Follows(Counted) /\ Counted = Again(Top)
         /\ Top.done # Top.n /\ (Top.field.count = -1 => Top.n = 1)
<1>1. Top \in Pending(GivenTo(c)) /\ Top \in Frame /\ Follows(Top) /\ Top.done # Top.n
  <2>1. Top \in Pending(GivenTo(c)) /\ Top \in Frame /\ Follows(Top)
    BY TopPending
  <2>2. Top.done \in Nat /\ Top.n \in Nat
    BY <2>1 DEF Frame
  <2> QED
    BY <2>1, <2>2
<1>2. Counted = Again(Top)
  BY DEF Counted, Again
<1>3. Again(Top) \in Pending(GivenTo(c))
  BY <1>1, AgainPending
<1>4. /\ Again(Top).op = Top.op /\ Again(Top).field = Top.field /\ Again(Top).n = Top.n
  BY <1>1, AgainParts
<1>5. Follows(Again(Top))
  BY <1>1, <1>4 DEF Follows
<1> QED
  BY <1>1, <1>2, <1>3, <1>5 DEF Follows

\* A call for an element of the loop.
LEMMA InnerPending ==
  ASSUME Walks, NEW c, stack # <<>>, Top.op = "elems", NEW op \in {"plan", "text", "nsec"},
         op = "plan" => Top.field.kind = "complex", NEW n \in Nat
  PROVE  /\ Inner(op, n) \in Pending(GivenTo(c)) /\ Follows(Inner(op, n))
         /\ Inner(op, n).op = op /\ Inner(op, n).field = Top.field /\ Inner(op, n).n = n
         /\ Inner(op, n).depth = Top.depth + 1
<1> DEFINE fr == Inner(op, n)
<1>1. /\ Top.depth <= MaxDepth /\ Top.depth \in Nat
      /\ GoodField(Top.field) /\ Plain(Top.field)
  BY InnermostField
<1>2. fr \in GoodFrame
  BY <1>1, CallGood DEF Inner
<1>3. fr.op = op /\ fr.field = Top.field /\ fr.n = n /\ fr.depth = Top.depth + 1
  BY CallParts DEF Inner
<1> HIDE DEF fr
<1>4. Admitted(fr)
  BY <1>3 DEF Admitted
<1>5. Follows(fr)
  BY <1>1, <1>3, LimitsAssumption DEF Follows
<1>6. fr \in Pending(GivenTo(c))
  BY <1>2, <1>4, <1>5, GoodPending
<1> QED
  BY <1>3, <1>5, <1>6 DEF fr

\* An element that takes a call of its own: what the call reads is one element.
LEMMA ElementGoes ==
  ASSUME Walks, NEW c, stack # <<>>, Top.op = "elems", Top.done < Top.n,
         Top.field.kind \in ItemWise, Here' \in Reference!State,
         NEW fr \in Pending(GivenTo(c)), Follows(fr), Continue(<<fr, Counted>>),
         Rest(GivenTo(c), fr, Here') =
           Reference!Single(GivenTo(c), Below(GivenTo(c), Top), Here, Top.field)
  PROVE  Goes(c)
<1> DEFINE g == GivenTo(c)
           here == Here'
           nested == Below(g, Top)
<1>1. /\ Counted \in Pending(g) /\ Follows(Counted) /\ Counted = Again(Top)
      /\ Top.done # Top.n /\ (Top.field.count = -1 => Top.n = 1)
  BY CountedPending
<1>2. Top \in Pending(g) /\ Readers(g) /\ Here \in Reference!State
  BY TopPending
<1>3. Rest(g, Again(Top), Reference!Single(g, nested, Here, Top.field)) = Rest(g, Top, Here)
  BY <1>1, <1>2, ElementRest
<1>4. Rest(g, fr, here) = Reference!Single(g, nested, Here, Top.field)
  OBVIOUS
<1> HIDE DEF g, here, nested
<1>5. Rest(g, Counted, Rest(g, fr, here)) = Rest(g, Top, Here)
  BY <1>1, <1>3, <1>4
<1>6. fr \in Pending(g) /\ here \in Reference!State
  BY DEF g, here
<1> QED
  BY <1>1, <1>5, <1>6, GoesDown DEF g, here

LEMMA NestedGoes ==
  ASSUME Walks, Nested, NEW c PROVE Goes(c)
<1> DEFINE g == GivenTo(c)
           here == Here'
           nested == Below(g, Top)
           fr == Inner("plan", 0)
<1>1. stack # <<>> /\ Top.op = "elems" /\ Top.done < Top.n /\ Top.field.kind = "complex"
  BY DEF Nested, InLoop, At, Top
<1>2. Here \in Reference!State /\ here = Here /\ Continue(<<fr, Counted>>) /\ Top.depth \in Nat
  BY <1>1, InnermostField, HereStays DEF Nested
<1>3. /\ fr \in Pending(g) /\ Follows(fr) /\ fr.op = "plan" /\ fr.field = Top.field
      /\ fr.depth = Top.depth + 1
  BY <1>1, InnerPending
<1> HIDE DEF g, here, nested, fr
<1>4. Rest(g, fr, here) = nested[<<Here, Top.field.target>>]
  BY <1>2, <1>3 DEF Rest, Below, nested
<1>5. Reference!Single(g, nested, Here, Top.field) = nested[<<Here, Top.field.target>>]
  BY <1>1 DEF Reference!Single
<1>6. Rest(g, fr, here) = Reference!Single(g, nested, Here, Top.field)
  BY <1>4, <1>5
<1> QED
  BY <1>1, <1>2, <1>3, <1>6, ElementGoes DEF g, here, nested, ItemWise

LEMMA NumberGoes ==
  ASSUME Walks, Number, NEW c PROVE Goes(c) \/ outcome' \in Errors
<1> DEFINE g == GivenTo(c)
           here == Here'
           width == Widths[Top.field.kind]
<1>1. stack # <<>> /\ Top.op = "elems" /\ Top.done < Top.n /\ Top.field.kind \in NumberKinds
  BY DEF Number, InLoop, At, Top
<1>2. CASE Truncated(width, Align(width))
  BY <1>2 DEF Truncated, Raise, Errors
<1>3. CASE Take(width, Align(width)) /\ Continue(<<Counted>>)
  <2>1. width \in {1, 2, 4, 8}
    BY <1>1, WidthsTyped
  <2>2. /\ here = Reference!Unpack(g, Here, width) /\ here \in Reference!State
        /\ Reference!AlignTo(g, Here, width) + width <= g.body
    BY <1>3, <2>1, HereUnpacks
  <2>3. /\ Counted \in Pending(g) /\ Follows(Counted) /\ Counted = Again(Top)
        /\ Top.done # Top.n /\ (Top.field.count = -1 => Top.n = 1)
    BY <1>1, CountedPending
  <2>4. Top \in Pending(g) /\ Readers(g) /\ Here \in Reference!State /\ Here.failed = FALSE
    BY <1>1, InnermostField
  <2> HIDE DEF g, here
  <2>5. Rest(g, Again(Top), Reference!Unpack(g, Here, Widths[Top.field.kind])) = Rest(g, Top, Here)
    BY <1>1, <2>2, <2>3, <2>4, NumberRest
  <2>6. Rest(g, Counted, here) = Rest(g, Top, Here)
    BY <2>2, <2>3, <2>5
  <2> QED
    BY <1>1, <1>3, <2>2, <2>3, <2>6, GoesOn DEF g, here
<1> QED
  BY <1>2, <1>3 DEF Number

LEMMA StringGoes ==
  ASSUME Walks, StringLength, NEW c, Knows(c)' PROVE Goes(c) \/ outcome' \in Errors
<1> DEFINE g == GivenTo(c)
           here == Here'
           nested == Below(g, Top)
<1>1. stack # <<>> /\ Top.op = "elems" /\ Top.done < Top.n /\ Top.field.kind = "string"
  BY DEF StringLength, InLoop, At, Top
<1>2. CASE Truncated(4, 4)
  BY <1>2 DEF Truncated, Raise, Errors
<1>3. ASSUME NEW v \in Nat, TakeNumber(4, 4, v), Continue(<<Inner("text", v), Counted>>)
      PROVE  Goes(c)
  <2> DEFINE fr == Inner("text", v)
  <2>1. /\ here = Reference!Unpack(g, Here, 4) /\ here \in Reference!State /\ here.failed = FALSE
        /\ Reference!LengthKnown(g, Here) /\ Reference!LengthAt(g, Here) = v
    BY <1>3, LengthRead
  <2>2. fr \in Pending(g) /\ Follows(fr) /\ fr.op = "text" /\ fr.n = v
    BY <1>1, InnerPending
  <2>3. Continue(<<fr, Counted>>)
    BY <1>3
  <2> HIDE DEF g, here, nested, fr
  <2>4. Rest(g, fr, here) = Reference!Slice(g, here, here.at, v)
    BY <2>2, RestOf
  <2>5. Reference!Single(g, nested, Here, Top.field) = Reference!String(g, Here)
    BY <1>1, TextIs
  <2>6. Reference!String(g, Here) = Reference!Slice(g, here, here.at, v)
    BY <2>1 DEF Reference!String
  <2>7. Rest(g, fr, here) = Reference!Single(g, nested, Here, Top.field)
    BY <2>4, <2>5, <2>6
  <2> QED
    BY <1>1, <2>1, <2>2, <2>3, <2>7, ElementGoes DEF g, here, nested, ItemWise
<1> QED
  BY <1>2, <1>3 DEF StringLength

LEMMA SecondsGo ==
  ASSUME Walks, Seconds, NEW c PROVE Goes(c) \/ outcome' \in Errors
<1> DEFINE g == GivenTo(c)
           here == Here'
           nested == Below(g, Top)
           fr == Inner("nsec", 0)
<1>1. stack # <<>> /\ Top.op = "elems" /\ Top.done < Top.n /\ Top.field.kind \in TimeKinds
  BY DEF Seconds, InLoop, At, Top
<1>2. CASE Truncated(4, 4)
  BY <1>2 DEF Truncated, Raise, Errors
<1>3. CASE Take(4, 4) /\ Continue(<<fr, Counted>>)
  <2>1. Take(4, Align(4))
    BY <1>3, AlignFour
  <2>2. here = Reference!Unpack(g, Here, 4) /\ here \in Reference!State
    BY <2>1, HereUnpacks
  <2>3. fr \in Pending(g) /\ Follows(fr) /\ fr.op = "nsec"
    BY <1>1, InnerPending
  <2> HIDE DEF g, here, nested, fr
  <2>4. Rest(g, fr, here) = Reference!Unpack(g, here, 4)
    BY <2>3, RestOf
  <2>5. Reference!Single(g, nested, Here, Top.field) =
          Reference!Unpack(g, Reference!Unpack(g, Here, 4), 4)
    BY <1>1, TimeIs
  <2>6. Rest(g, fr, here) = Reference!Single(g, nested, Here, Top.field)
    BY <2>2, <2>4, <2>5
  <2>7. Top.field.kind \in ItemWise
    BY <1>1 DEF TimeKinds, ItemWise
  <2> QED
    BY <1>1, <1>3, <2>2, <2>3, <2>6, <2>7, ElementGoes DEF g, here, nested
<1> QED
  BY <1>2, <1>3 DEF Seconds

LEMMA TextGoes ==
  ASSUME Walks, Text, NEW c PROVE Goes(c) \/ outcome' \in Errors
<1> DEFINE g == GivenTo(c)
           here == Here'
           n == Top.n
           from == Padded(Here.at, 1)
<1>1. stack # <<>> /\ Top.op = "text"
  BY DEF Text, At, Top
<1>2. CASE Truncated(n, 1)
  BY <1>2 DEF Truncated, Raise, Errors
<1>3. CASE Raise("ValueError")
  BY <1>3 DEF Raise, Errors
<1>4. CASE Take(n, 1) /\ Continue(<<>>)
  <2>1. /\ Top \in Pending(g) /\ Top \in Frame /\ Readers(g) /\ Here \in Reference!State
    BY <1>1, TopPending
  <2>2. n \in Nat /\ Here.at \in Nat
    BY <2>1 DEF Frame, Reference!State
  <2>3. ConfigTyped /\ ReaderTyped /\ g.body = payload.size - 4 /\ g.body \in Int
    BY <2>1, GivenParts DEF Walks, TypeInv, Readers
  <2>4. from = Here.at
    BY <2>2 DEF Padded, Padding
  <2>5. /\ here = Reference!Moved(Here, from + n, Reference!Bytes(from, n))
        /\ from + n <= payload.size - 4
    BY <1>4, <2>2, <2>3, TakeMoves DEF Alignments
  <2>6. Rest(g, Top, Here) \in Reference!State
    BY <2>1, RestTyped
  <2> HIDE DEF g, here, from
  <2>7. Rest(g, Top, Here) = Reference!Slice(g, Here, Here.at, n)
    BY <1>1, RestOf
  <2>8. {i \in Reference!Bytes(Here.at, n) : i < g.body} = Reference!Bytes(Here.at, n)
    BY <2>2, <2>3, <2>4, <2>5 DEF Reference!Bytes
  <2>9. here = Rest(g, Top, Here)
    BY <2>4, <2>5, <2>7, <2>8 DEF Reference!Slice
  <2> QED
    BY <1>1, <1>4, <2>6, <2>9, GoesBack DEF g, here
<1> QED
  BY <1>2, <1>3, <1>4 DEF Text

LEMMA NanosecondsGo ==
  ASSUME Walks, Nanoseconds, NEW c PROVE Goes(c) \/ outcome' \in Errors
<1>1. stack # <<>> /\ Top.op = "nsec"
  BY DEF Nanoseconds, At, Top
<1>2. CASE Truncated(4, 4)
  BY <1>2 DEF Truncated, Raise, Errors
<1>3. CASE Take(4, 4) /\ Continue(<<>>)
  <2>1. Take(4, Align(4))
    BY <1>3, AlignFour
  <2>2. Here' = Reference!Unpack(GivenTo(c), Here, 4) /\ Here' \in Reference!State
    BY <2>1, HereUnpacks
  <2>3. Rest(GivenTo(c), Top, Here) = Reference!Unpack(GivenTo(c), Here, 4)
    BY <1>1, RestOf
  <2>4. Here' = Rest(GivenTo(c), Top, Here)
    BY <2>2, <2>3
  <2> QED
    BY <1>1, <1>3, <2>2, <2>4, GoesBack
<1> QED
  BY <1>2, <1>3 DEF Nanoseconds

LEMMA EndGoes ==
  ASSUME Walks, EndLoop, NEW c PROVE Goes(c)
<1>1. stack # <<>> /\ Top.op = "elems" /\ Top.done = Top.n /\ Continue(<<>>) /\ Here' = Here
  BY HereStays DEF EndLoop, At, Top
<1>2. Here \in Reference!State
  BY <1>1, InnermostField
<1>3. Rest(GivenTo(c), Top, Here) = Here
  <2> DEFINE g == GivenTo(c)
  <2> HIDE DEF g
  <2>1. Rest(g, Top, Here) = Here
    BY <1>1 DEF Rest
  <2> QED
    BY <2>1 DEF g
<1> QED
  BY <1>1, <1>2, <1>3, GoesBack

LEMMA LoopGoes ==
  ASSUME Walks, ElementStep, NEW c, Knows(c)' PROVE Goes(c) \/ outcome' \in Errors
<1>1. CASE Unrecognized
  BY <1>1 DEF Unrecognized, Raise, Errors
<1> QED
  BY <1>1, EndGoes, NestedGoes, NumberGoes, StringGoes, TextGoes, SecondsGo, NanosecondsGo
     DEF ElementStep

-----------------------------------------------------------------------------
(* Agreement *)

\* The invariant behind AgreesWithPython: what the calls in progress have left to
\* read, when the Python reader does it, comes to what the Python reader makes of
\* the whole payload, whatever the numbers not yet found will be.
AgreeInv ==
  /\ outcome \in {"new", "built"} => offset = 4 /\ spans = <<>> /\ stack = <<>>
  /\ outcome = "ok" => stack = <<>>
  /\ outcome = "running" => align8 = (IF payload.kind > 3 THEN 4 ELSE 8)
  /\ outcome \in {"running", "ok"} /\ Comparable =>
       /\ \A i \in DOMAIN stack : Follows(stack[i])
       /\ \A c : Knows(c) =>
            Reference!Through(Here, Todo(GivenTo(c), stack)) = ReadByPython(c)

\* No number that was found is found anew.
Grows ==
  DOMAIN cells \subseteq DOMAIN cells' /\ \A at \in DOMAIN cells : cells'[at] = cells[at]

LEMMA NumberGrows ==
  ASSUME NEW n, NEW a, NEW choices, NEW v \in Found(a, choices), TakeNumber(n, a, v)
  PROVE  Grows
BY DEF Found, TakeNumber, Grows

LEMMA StepGrows ==
  ASSUME Enter \/ FieldStep \/ ArrayStep \/ ElementStep PROVE Grows
<1>0. cells' = cells => Grows
  BY DEF Grows
<1>1. NoRead => Grows
  BY <1>0 DEF NoRead
<1>2. CASE EnterUnion
  BY <1>1, <1>2, NumberGrows DEF EnterUnion, Truncated
<1>3. CASE Enter /\ ~EnterUnion
  BY <1>0, <1>1, <1>3 DEF Enter, TooDeep, BadSwitch, EnterEmpty, EnterStruct, Truncated
<1>4. CASE ReadCount
  BY <1>1, <1>4, NumberGrows DEF ReadCount, Truncated
<1>5. CASE FieldStep /\ ~ReadCount
  BY <1>1, <1>5 DEF FieldStep, Wide, One, FixedCount, NegativeCount
<1>6. CASE ArrayStep
  BY <1>0, <1>1, <1>6
     DEF ArrayStep, LengthExceeds, ReadBytes, EmptyArray, Bulk, StartLoop, Truncated
<1>7. CASE StringLength
  BY <1>1, <1>7, NumberGrows DEF StringLength, Truncated
<1>8. CASE ElementStep /\ ~StringLength
  BY <1>0, <1>1, <1>8
     DEF ElementStep, EndLoop, Nested, Number, Text, Seconds, Nanoseconds, Unrecognized, Truncated
<1> QED
  BY <1>2, <1>3, <1>4, <1>5, <1>6, <1>7, <1>8

LEMMA AgreeGoes ==
  ASSUME Walks, AgreeInv, stack # <<>>, Grows, \A c : Knows(c)' => Goes(c)
  PROVE  AgreeInv'
<1>1. PICK found : found = cells'
  OBVIOUS
<1>2. Goes(found)
  BY <1>1 DEF Knows
<1>3. PICK frames \in Seq(Pending(GivenTo(found))) :
        Continue(frames) /\ \A i \in DOMAIN frames : Follows(frames[i])
  BY <1>2 DEF Goes
<1>4. /\ outcome' = "running" /\ schema' = schema /\ payload' = payload /\ align8' = align8
      /\ stack' = frames \o Tail(stack)
  BY <1>3 DEF Continue, Walks
<1>5. \A i \in DOMAIN stack' : Follows(stack'[i])
  <2>1. stack \in Seq(GoodFrame)
    BY DEF Walks, TypeInv
  <2> DEFINE rest == Tail(stack)
  <2>2. rest \in Seq(GoodFrame) /\ \A i \in DOMAIN rest : i + 1 \in DOMAIN stack /\ rest[i] = stack[i + 1]
    BY <2>1
  <2>3. \A i \in DOMAIN rest : Follows(rest[i])
    BY <2>2 DEF Walks
  <2> HIDE DEF rest
  <2>4. ASSUME NEW i \in DOMAIN (frames \o rest) PROVE Follows((frames \o rest)[i])
    <3>1. \/ i \in DOMAIN frames /\ (frames \o rest)[i] = frames[i]
          \/ i - Len(frames) \in DOMAIN rest /\ (frames \o rest)[i] = rest[i - Len(frames)]
      BY <2>2
    <3> QED
      BY <1>3, <2>3, <3>1
  <2> QED
    BY <1>4, <2>4 DEF rest
<1>6. Comparable
  BY DEF Walks
<1>7. ASSUME NEW c, Knows(c)'
      PROVE  Reference!Through(Here', Todo(GivenTo(c)', stack')) = ReadByPython(c)'
  <2> DEFINE g == GivenTo(c)
             here == Here'
  <2>1. PICK more \in Seq(Pending(g)) :
          /\ Continue(more) /\ here \in Reference!State
          /\ Reference!Through(here, Todo(g, more)) = Rest(g, Top, Here)
    BY <1>7 DEF Goes
  <2>2. Knows(c)
    BY <1>7 DEF Knows, Grows
  <2>3. Reference!Through(Here, Todo(g, stack)) = ReadByPython(c)
    BY <1>6, <2>2 DEF AgreeInv, Walks
  <2>4. stack \in Seq(Pending(g)) /\ Readers(g) /\ Here \in Reference!State
    BY TopPending
  <2>5. stack' = more \o Tail(stack)
    BY <2>1 DEF Continue
  <2>6. GivenTo(c)' = g /\ ReadByPython(c)' = ReadByPython(c)
    BY <1>4 DEF GivenTo, ReadByPython
  <2> HIDE DEF g, here
  <2>7. Reference!Through(here, Todo(g, more \o Tail(stack))) = Reference!Through(Here, Todo(g, stack))
    BY <2>1, <2>4, Resume DEF Top
  <2> QED
    BY <2>3, <2>5, <2>6, <2>7 DEF here
<1> QED
  BY <1>4, <1>5, <1>7 DEF AgreeInv, Follows, Walks

LEMMA InitAgrees == Init => AgreeInv
BY DEF Init, AgreeInv

LEMMA BuildAgrees == ASSUME AgreeInv, Build PROVE AgreeInv'
BY DEF AgreeInv, Build, Errors

\* Both readers start before the first byte of the body.
LEMMA OpenAgrees ==
  ASSUME TypeInv, AgreeInv, Open PROVE AgreeInv'
<1>0. outcome = "built" /\ stack = <<>> /\ offset = 4 /\ spans = <<>>
  BY DEF Open, AgreeInv
<1>1. CASE ~Readable(payload)
  BY <1>1 DEF Open, AgreeInv
<1>2. CASE Readable(payload)
  <2> DEFINE fr == Call("plan", Root, 0, 0)
  <2>1. /\ outcome' = "running" /\ stack' = <<fr>>
        /\ align8' = (IF payload.kind > 3 THEN 4 ELSE 8)
        /\ UNCHANGED <<schema, payload, cells, offset, spans>>
    BY <1>2 DEF Open
  <2>2. /\ fr.op = "plan" /\ fr.field = Root /\ fr.n = 0 /\ fr.done = 0 /\ fr.depth = 0
        /\ Root.kind = "complex" /\ Root.count = -1 /\ Root.target = schema.root
    BY CallParts DEF Root
  <2>3. fr \in Frame /\ Root \in Field /\ schema.root \in DOMAIN schema.plans
    <3>1. schema \in Schema /\ WellFormed(schema)
      BY <1>0 DEF TypeInv, ConfigTyped
    <3>2. schema.root \in DOMAIN schema.plans /\ schema.root \in Nat
      BY <3>1 DEF Schema, WellFormed
    <3>3. Root \in Field
      <4>1. "complex" \in Kinds
        BY DEF Kinds
      <4> QED
        BY <3>2, <4>1 DEF Root, Field
    <3> QED
      BY <3>2, <3>3 DEF Call, Frame
  <2> HIDE DEF fr
  <2>4. Follows(fr)
    BY <2>2, LimitsAssumption DEF Follows, Plain
  <2>5. Here' = Reference!Start /\ Here = Reference!Start /\ Reference!Start \in Reference!State
    <3>1. BytesRead = {} /\ BytesRead' = {}
      BY <1>0, <2>1 DEF BytesRead
    <3>2. Here = [at |-> 0, read |-> {}, failed |-> FALSE]
      BY <1>0, <3>1 DEF Here
    <3>3. Here' = [at |-> 0, read |-> {}, failed |-> FALSE]
      BY <1>0, <2>1, <3>1 DEF Here
    <3> QED
      BY <3>2, <3>3 DEF Reference!Start, Reference!State
  <2>6. ASSUME NEW c
        PROVE  Reference!Through(Reference!Start, Todo(GivenTo(c), <<fr>>)) = ReadByPython(c)
    <3> DEFINE g == GivenTo(c)
    <3>1. Readers(g) /\ g.plans = schema.plans
      BY <1>0, GivenParts DEF TypeInv
    <3>2. ReadByPython(c) = Reference!Levels(g)[RecursionLimit][<<Reference!Start, schema.root>>]
      BY DEF ReadByPython, GivenTo, Reference!Message
    <3> HIDE DEF g
    <3>3. fr \in Pending(g)
      BY <2>2, <2>3, <3>1, RecursionAssumption DEF Pending, FieldIn
    <3>4. Reference!Through(Reference!Start, Todo(g, <<fr>>)) = Rest(g, fr, Reference!Start)
      BY <2>5, <3>1, <3>3, TodoFew
    <3>5. RecursionLimit - fr.depth = RecursionLimit
      BY <2>2, RecursionAssumption
    <3>6. Rest(g, fr, Reference!Start) =
            Reference!Levels(g)[RecursionLimit][<<Reference!Start, schema.root>>]
      BY <2>2, <3>5 DEF Rest
    <3> QED
      BY <3>2, <3>4, <3>6 DEF g
  <2>7. ASSUME NEW c
        PROVE  Reference!Through(Here', Todo(GivenTo(c)', stack')) = ReadByPython(c)'
    <3>1. GivenTo(c)' = GivenTo(c) /\ ReadByPython(c)' = ReadByPython(c)
      BY <2>1 DEF GivenTo, ReadByPython
    <3> QED
      BY <2>1, <2>5, <2>6, <3>1
  <2>8. \A i \in DOMAIN stack' : Follows(stack'[i])
    <3>1. \A i \in DOMAIN <<fr>> : <<fr>>[i] = fr
      OBVIOUS
    <3> QED
      BY <2>1, <2>4, <3>1
  <2> QED
    BY <2>1, <2>7, <2>8 DEF AgreeInv, Follows
<1> QED
  BY <1>1, <1>2

LEMMA RaiseAgrees == ASSUME outcome' \in Errors PROVE AgreeInv'
BY DEF AgreeInv, Errors

LEMMA WalkAgrees ==
  ASSUME TypeInv, NestInv, AgreeInv, Enter \/ FieldStep \/ ArrayStep \/ ElementStep
  PROVE  AgreeInv'
<1>1. outcome = "running" /\ stack # <<>>
  <2>1. CASE Enter
    BY <2>1 DEF Enter, TooDeep, EnterUnion, BadSwitch, EnterEmpty, EnterStruct, InPlan, At
  <2>2. CASE FieldStep
    BY <2>2 DEF FieldStep, Wide, One, ReadCount, FixedCount, NegativeCount, InField, At
  <2>3. CASE ArrayStep
    BY <2>3 DEF ArrayStep, LengthExceeds, ReadBytes, EmptyArray, Bulk, StartLoop, At
  <2>4. CASE ElementStep
    BY <2>4 DEF ElementStep, EndLoop, Nested, Number, StringLength, Text, Seconds, Nanoseconds,
                Unrecognized, InLoop, At
  <2> QED
    BY <2>1, <2>2, <2>3, <2>4
<1>2. schema' = schema /\ payload' = payload /\ align8' = align8
  <2>1. \A e : Raise(e) => schema' = schema /\ payload' = payload /\ align8' = align8
    BY DEF Raise
  <2>2. \A f : Continue(f) => schema' = schema /\ payload' = payload /\ align8' = align8
    BY DEF Continue
  <2>3. CASE Enter
    BY <2>1, <2>2, <2>3
       DEF Enter, TooDeep, EnterUnion, BadSwitch, EnterEmpty, EnterStruct, Truncated
  <2>4. CASE FieldStep
    BY <2>1, <2>2, <2>4 DEF FieldStep, Wide, One, ReadCount, FixedCount, NegativeCount, Truncated
  <2>5. CASE ArrayStep
    BY <2>1, <2>2, <2>5
       DEF ArrayStep, LengthExceeds, ReadBytes, EmptyArray, Bulk, StartLoop, Truncated
  <2>6. CASE ElementStep
    BY <2>1, <2>2, <2>6
       DEF ElementStep, EndLoop, Nested, Number, StringLength, Text, Seconds, Nanoseconds,
           Unrecognized, Truncated
  <2> QED
    BY <2>3, <2>4, <2>5, <2>6
<1>3. CASE Comparable
  <2>1. Walks
    BY <1>1, <1>3 DEF Walks, AgreeInv
  <2>2. CASE outcome' \in Errors
    BY <2>2, RaiseAgrees
  <2>3. CASE outcome' \notin Errors
    <3>1. \A c : Knows(c)' => Goes(c)
      BY <2>1, <2>3, EnterGoes, FieldGoes, ArrayGoes, LoopGoes
    <3> QED
      BY <1>1, <2>1, <3>1, StepGrows, AgreeGoes
  <2> QED
    BY <2>2, <2>3
<1>4. CASE ~Comparable
  <2>1. ~Comparable'
    BY <1>2, <1>4 DEF Comparable
  <2>2. outcome' \in Errors \cup {"running"}
    <3>1. \A e : Raise(e) => outcome' = e
      BY DEF Raise
    <3>2. \A f : Continue(f) => outcome' = "running"
      BY <1>1 DEF Continue
    <3>3. CASE Enter
      BY <3>1, <3>2, <3>3
         DEF Enter, TooDeep, EnterUnion, BadSwitch, EnterEmpty, EnterStruct, Truncated, Errors
    <3>4. CASE FieldStep
      BY <3>1, <3>2, <3>4
         DEF FieldStep, Wide, One, ReadCount, FixedCount, NegativeCount, Truncated, Errors
    <3>5. CASE ArrayStep
      BY <3>1, <3>2, <3>5
         DEF ArrayStep, LengthExceeds, ReadBytes, EmptyArray, Bulk, StartLoop, Truncated, Errors
    <3>6. CASE ElementStep
      BY <3>1, <3>2, <3>6
         DEF ElementStep, EndLoop, Nested, Number, StringLength, Text, Seconds, Nanoseconds,
             Unrecognized, Truncated, Errors
    <3> QED
      BY <3>3, <3>4, <3>5, <3>6
  <2>3. CASE outcome' = "running"
    BY <1>1, <1>2, <2>1, <2>3 DEF AgreeInv
  <2> QED
    BY <2>2, <2>3, RaiseAgrees
<1> QED
  BY <1>3, <1>4

LEMMA AgreeStep == TypeInv /\ NestInv /\ AgreeInv /\ [Next]_vars => AgreeInv'
<1> SUFFICES ASSUME TypeInv, NestInv, AgreeInv, [Next]_vars PROVE AgreeInv'
  OBVIOUS
<1>1. CASE UNCHANGED vars \/ Finish
  <2>1. UNCHANGED <<schema, payload, cells, offset, align8, stack, spans>>
    BY <1>1 DEF vars, Finish
  <2>2. outcome' = outcome \/ (outcome = "running" /\ outcome' = "ok" /\ stack = <<>>)
    BY <1>1 DEF vars, Finish
  <2>3. /\ Comparable' = Comparable /\ Here' = Here
        /\ \A fr : Follows(fr)' = Follows(fr)
        /\ \A c : Knows(c)' = Knows(c) /\ GivenTo(c)' = GivenTo(c) /\ ReadByPython(c)' = ReadByPython(c)
    BY <2>1 DEF Comparable, Here, BytesRead, Follows, Knows, GivenTo, ReadByPython
  <2> QED
    BY <2>1, <2>2, <2>3 DEF AgreeInv
<1> QED
  BY <1>1, BuildAgrees, OpenAgrees, WalkAgrees DEF Next

LEMMA AgreeInvImpliesAgrees == TypeInv /\ AgreeInv => AgreesWithPython
<1> SUFFICES ASSUME TypeInv, AgreeInv, outcome = "ok", Comparable
             PROVE  ReadByPython(cells) = Here
  BY DEF AgreesWithPython, Here
<1> DEFINE g == GivenTo(cells)
<1>1. stack = <<>>
  BY DEF AgreeInv
<1>2. Reference!Through(Here, Todo(g, stack)) = ReadByPython(cells)
  BY DEF AgreeInv, Knows
<1>3. Readers(g) /\ Here \in Reference!State
  BY GivenParts, HereTyped DEF TypeInv
<1> HIDE DEF g
<1>4. Reference!Through(Here, Todo(g, <<>>)) = Here
  BY <1>3, TodoFew
<1> QED
  BY <1>1, <1>2, <1>4

\* For every schema both can read, whatever the compiled decoder accepts the
\* Python reader reads too, taking the same bytes and ending at the same place.
THEOREM AgreesWithPythonHolds == Spec => []AgreesWithPython
<1>1. TypeInv /\ NestInv /\ AgreeInv /\ [Next]_vars => (NestInv /\ AgreeInv)'
  BY NestStep, AgreeStep
<1>2. Init => NestInv /\ AgreeInv
  BY InitAgrees DEF Init, NestInv
<1> QED
  BY <1>1, <1>2, AgreeInvImpliesAgrees, TypeCorrect, PTL DEF Spec

=============================================================================
