---------------------------- MODULE NativeDecoder ----------------------------
(***************************************************************************)
(* The compiled decoder, src/lib.rs: a tree of plans is walked over one    *)
(* CDR payload.  The Rust call stack (read_plan, read_field, the element   *)
(* loop, primitive) is the variable stack, top first; one action is one    *)
(* branch of one of those functions and makes at most one Reader::take.    *)
(*                                                                         *)
(* The payload is not fixed beforehand: cells holds the numbers that steer *)
(* the walk (counts, string lengths, discriminants) by their place in the  *)
(* body, and a number that is not there yet is chosen when it is read.     *)
(* Started with empty cells the walk meets every payload; started with the *)
(* cells of an encoder it meets exactly what that encoder wrote.           *)
(***************************************************************************)
EXTENDS CdrAlignment, DecoderPlans

CONSTANTS
  Schemas,     \* the decoders that may be built
  Payloads,    \* the payloads that may arrive: total size and first two bytes
  Contents,    \* the cells known beforehand, a set of functions
  Words,       \* the numbers a payload may hold
  MaxSigned,   \* i64::MAX
  MaxDepth     \* the nesting limit, 128 in the code

Payload == [size : Nat, reserved : Nat, kind : Nat]

ASSUME SchemasAssumption == Schemas \subseteq Schema
ASSUME PayloadsAssumption == Payloads \subseteq Payload
ASSUME ContentsAssumption ==
  \A c \in Contents : DOMAIN c \subseteq Int /\ \A at \in DOMAIN c : c[at] \in Int
ASSUME WordsAssumption == Words \subseteq Int
ASSUME LimitsAssumption == MaxSigned \in Nat /\ MaxDepth \in Nat

VARIABLES
  schema,    \* the plans, the root and byte_arrays of the Decoder
  payload,   \* the data given to read_message
  cells,     \* place in the body -> the number found there
  offset,    \* Reader::offset
  align8,    \* Reader::align8
  stack,     \* the calls in progress, innermost first
  outcome,   \* how far the call is, or what it returned or raised
  spans      \* history: the takes so far, relative to the body

vars == <<schema, payload, cells, offset, align8, stack, outcome, spans>>

Errors == {"ValueError", "RuntimeError", "TypeError", "OverflowError"}
Outcomes == {"new", "built", "running", "ok"} \cup Errors

Frame ==
  [op : {"plan", "field", "array", "elems", "text", "nsec"},
   field : Field, n : Nat, done : Nat, depth : Nat]

Call(op, field, n, depth) ==
  [op |-> op, field |-> field, n |-> n, done |-> 0, depth |-> depth]

Init ==
  /\ schema \in Schemas
  /\ payload \in Payloads
  /\ cells \in Contents
  /\ offset = 4
  /\ align8 = 8
  /\ stack = <<>>
  /\ outcome = "new"
  /\ spans = <<>>

-----------------------------------------------------------------------------
(* Decoder::new and Reader::new *)

Build ==
  /\ outcome = "new"
  /\ outcome' = IF WellFormed(schema) THEN "built" ELSE "ValueError"
  /\ UNCHANGED <<schema, payload, cells, offset, align8, stack, spans>>

Readable(p) ==
  p.size >= 4 /\ p.reserved = 0 /\ p.kind \in {0, 1, 6, 7, 16, 17}

Root == [kind |-> "complex", target |-> schema.root, count |-> -1, mapped |-> FALSE]

Open ==
  /\ outcome = "built"
  /\ IF Readable(payload)
     THEN /\ outcome' = "running"
          /\ align8' = (IF payload.kind > 3 THEN 4 ELSE 8)
          /\ stack' = <<Call("plan", Root, 0, 0)>>
     ELSE /\ outcome' = "ValueError"
          /\ UNCHANGED <<align8, stack>>
  /\ UNCHANGED <<schema, payload, cells, offset, spans>>

-----------------------------------------------------------------------------
(* Reader::take and Reader::number *)

\* Bug: aligning to the start of the payload, header included.
Start_FromHeader(a) == offset + Padding(offset, a)

Start(a) == offset + Padding(offset - 4, a)

\* Bug: only the start of the read is checked.
Fits_StartOnly(n, a) == Start(a) <= payload.size

Fits(n, a) == Start(a) + n <= payload.size

\* Bug: eight-byte alignment under XCDR2 too.
Align_Always8(width) == width

Align(width) == IF width = 8 THEN align8 ELSE width

Take(n, a) ==
  /\ Fits(n, a)
  /\ offset' = Start(a) + n
  /\ spans' = Append(spans, [from |-> Start(a) - 4, size |-> n, align |-> a])

At(op) == outcome = "running" /\ stack # <<>> /\ Head(stack).op = op

\* The innermost call gives way to frames.
Continue(frames) ==
  /\ stack' = frames \o Tail(stack)
  /\ UNCHANGED <<schema, payload, align8, outcome>>

Raise(error) ==
  /\ outcome' = error
  /\ stack' = <<>>
  /\ UNCHANGED <<schema, payload, align8>>

NoRead == UNCHANGED <<cells, offset, spans>>

Truncated(n, a) == ~Fits(n, a) /\ Raise("ValueError") /\ NoRead

\* What a number read with alignment a can be: what is known to be at its
\* place, else any of choices.
Found(a, choices) ==
  IF Start(a) - 4 \in DOMAIN cells THEN {cells[Start(a) - 4]} ELSE choices

TakeNumber(n, a, v) ==
  /\ Take(n, a)
  /\ cells' = [at \in DOMAIN cells \cup {Start(a) - 4} |->
                 IF at = Start(a) - 4 THEN v ELSE cells[at]]

Counts == {v \in Words : v >= 0}

ValuesOf(kind) ==
  CASE kind = "bool" -> {0, 1}
    [] kind = "uint64" -> Counts
    [] kind \in {"uint8", "uint16", "uint32"} -> {v \in Counts : v <= MaxSigned}
    [] OTHER -> {v \in Words : v <= MaxSigned}

-----------------------------------------------------------------------------
(* read_plan *)

Top == Head(stack)
ThePlan == schema.plans[Top.field.target]
InPlan == At("plan") /\ Top.depth <= MaxDepth

TooDeep ==
  /\ At("plan")
  /\ Top.depth > MaxDepth
  /\ Raise("ValueError")
  /\ NoRead

Fields(fs) == [i \in DOMAIN fs |-> Call("field", fs[i], 0, Top.depth)]

Matching(p, v) == {i \in DOMAIN p.cases : v \in p.cases[i].values}

\* The field that v selects: that of the first case that lists v, else the
\* default, else none.
Selected(p, v) ==
  IF Matching(p, v) = {}
  THEN IF p.default = <<>> THEN {} ELSE {Head(p.default)}
  ELSE {p.cases[i].field : i \in {i \in Matching(p, v) : \A j \in Matching(p, v) : i <= j}}

EnterUnion ==
  /\ InPlan
  /\ ThePlan.union
  /\ ThePlan.switch \in IntegerKinds
  /\ LET n == Widths[ThePlan.switch]
         a == Align(n)
     IN \/ Truncated(n, a)
        \/ \E v \in Found(a, ValuesOf(ThePlan.switch)) :
             /\ TakeNumber(n, a, v)
             /\ IF v > MaxSigned THEN Raise("OverflowError")
                ELSE IF Selected(ThePlan, v) = {} THEN Raise("ValueError")
                ELSE \E f \in Selected(ThePlan, v) :
                       Continue(<<Call("field", f, 0, Top.depth)>>)

\* A discriminant that is not an integer is read and cannot become an i64; text
\* may also be cut short or not be UTF-8.
BadSwitch ==
  /\ InPlan
  /\ ThePlan.union
  /\ LET kind == ThePlan.switch
     IN \/ /\ kind \in {"float32", "float64"}
           /\ Raise(IF Fits(Widths[kind], Align(Widths[kind])) THEN "TypeError" ELSE "ValueError")
        \/ /\ kind \in TimeKinds
           /\ Raise(IF Fits(8, 4) THEN "TypeError" ELSE "ValueError")
        \/ /\ kind = "string"
           /\ \E e \in {"ValueError"} \cup IF Fits(4, 4) THEN {"TypeError"} ELSE {} : Raise(e)
        \/ /\ kind = "wstring"
           /\ Raise("RuntimeError")
        \/ /\ kind \notin NumberKinds \cup TimeKinds \cup {"string", "wstring"}
           /\ Raise("ValueError")
  /\ NoRead

EnterEmpty ==
  /\ InPlan
  /\ ~ThePlan.union
  /\ ThePlan.fields = <<>>
  /\ \/ Truncated(1, 1)
     \/ Take(1, 1) /\ Continue(<<>>) /\ UNCHANGED cells

EnterStruct ==
  /\ InPlan
  /\ ~ThePlan.union
  /\ ThePlan.fields # <<>>
  /\ Continue(Fields(ThePlan.fields))
  /\ NoRead

-----------------------------------------------------------------------------
(* read_field *)

Wide ==
  /\ At("field")
  /\ Top.field.kind = "wstring"
  /\ Raise("RuntimeError")
  /\ NoRead

InField == At("field") /\ Top.field.kind # "wstring"

One ==
  /\ InField
  /\ Top.field.count = -1
  /\ Continue(<<Call("elems", Top.field, 1, Top.depth)>>)
  /\ NoRead

\* Bug: the count is taken as a signed number.
ReadCount_Signed ==
  /\ InField
  /\ Top.field.count = -2
  /\ \/ Truncated(4, 4)
     \/ \E v \in Found(4, Words) :
          /\ TakeNumber(4, 4, v)
          /\ Continue(<<Call("array", Top.field, v, Top.depth)>>)

ReadCount ==
  /\ InField
  /\ Top.field.count = -2
  /\ \/ Truncated(4, 4)
     \/ \E v \in Found(4, Counts) \cap Nat :
          /\ TakeNumber(4, 4, v)
          /\ Continue(<<Call("array", Top.field, v, Top.depth)>>)

FixedCount ==
  /\ InField
  /\ Top.field.count >= 0
  /\ Continue(<<Call("array", Top.field, Top.field.count, Top.depth)>>)
  /\ NoRead

\* -1 and -2 are taken for what the reader means by them; any other negative
\* length of a text is, as a usize, more than every payload holds.
NegativeCount ==
  /\ InField
  /\ Top.field.count < -2
  /\ Raise("ValueError")
  /\ NoRead

\* Bug: the count is not compared with what is left of the payload.
Exceeds_Unchecked == FALSE

Exceeds == Top.n > payload.size - offset

LengthExceeds ==
  /\ At("array")
  /\ Exceeds
  /\ Raise("ValueError")
  /\ NoRead

AsBytes == schema.bytes /\ Top.field.kind = "uint8" /\ ~Top.field.mapped

\* The check above leaves room for the bytes, so this take cannot fail.
ReadBytes ==
  /\ At("array")
  /\ ~Exceeds
  /\ AsBytes
  /\ Take(Top.n, 1)
  /\ Continue(<<>>)
  /\ UNCHANGED cells

EmptyArray ==
  /\ At("array")
  /\ ~AsBytes
  /\ Top.n = 0
  /\ ~Exceeds
  /\ Continue(<<>>)
  /\ NoRead

InBulk == Top.field.kind \in NumberKinds /\ ~Top.field.mapped

Bulk ==
  /\ At("array")
  /\ ~Exceeds
  /\ ~AsBytes
  /\ Top.n > 0
  /\ InBulk
  /\ LET width == Widths[Top.field.kind]
     IN \/ Truncated(Top.n * width, Align(width))
        \/ Take(Top.n * width, Align(width)) /\ Continue(<<>>) /\ UNCHANGED cells

\* Vec::with_capacity(count), then the loop over one.
StartLoop ==
  /\ At("array")
  /\ ~Exceeds
  /\ ~AsBytes
  /\ Top.n > 0
  /\ ~InBulk
  /\ Continue(<<Call("elems", Top.field, Top.n, Top.depth)>>)
  /\ NoRead

-----------------------------------------------------------------------------
(* one and primitive *)

EndLoop ==
  /\ At("elems")
  /\ Top.done = Top.n
  /\ Continue(<<>>)
  /\ NoRead

InLoop(kinds) == At("elems") /\ Top.done < Top.n /\ Top.field.kind \in kinds
\* Bug: an element that took no bytes is not counted.
Counted_ByBytes == [Top EXCEPT !.done = IF Top.field.kind = "complex" THEN @ ELSE @ + 1]

Counted == [Top EXCEPT !.done = @ + 1]
Inner(op, n) == Call(op, Top.field, n, Top.depth + 1)

Nested ==
  /\ InLoop({"complex"})
  /\ Continue(<<Inner("plan", 0), Counted>>)
  /\ NoRead

Number ==
  /\ InLoop(NumberKinds)
  /\ LET n == Widths[Top.field.kind]
     IN \/ Truncated(n, Align(n))
        \/ Take(n, Align(n)) /\ Continue(<<Counted>>) /\ UNCHANGED cells

StringLength ==
  /\ InLoop({"string"})
  /\ \/ Truncated(4, 4)
     \/ \E v \in Found(4, Counts) \cap Nat :
          /\ TakeNumber(4, 4, v)
          /\ Continue(<<Inner("text", v), Counted>>)

\* The last byte is dropped as the terminator whatever it is.
Text ==
  /\ At("text")
  /\ \/ Truncated(Top.n, 1)
     \/ Take(Top.n, 1) /\ Continue(<<>>) /\ UNCHANGED cells
     \/ Top.n > 1 /\ Take(Top.n, 1) /\ Raise("ValueError") /\ UNCHANGED cells

Seconds ==
  /\ InLoop(TimeKinds)
  /\ \/ Truncated(4, 4)
     \/ Take(4, 4) /\ Continue(<<Inner("nsec", 0), Counted>>) /\ UNCHANGED cells

Nanoseconds ==
  /\ At("nsec")
  /\ \/ Truncated(4, 4)
     \/ Take(4, 4) /\ Continue(<<>>) /\ UNCHANGED cells

Unrecognized ==
  /\ At("elems")
  /\ Top.done < Top.n
  /\ Top.field.kind \notin NumberKinds \cup TimeKinds \cup {"complex", "string"}
  /\ Raise("ValueError")
  /\ NoRead

Finish ==
  /\ outcome = "running"
  /\ stack = <<>>
  /\ outcome' = "ok"
  /\ UNCHANGED <<schema, payload, cells, offset, align8, stack, spans>>

-----------------------------------------------------------------------------

Enter == TooDeep \/ EnterUnion \/ BadSwitch \/ EnterEmpty \/ EnterStruct
FieldStep == Wide \/ One \/ ReadCount \/ FixedCount \/ NegativeCount
ArrayStep == LengthExceeds \/ ReadBytes \/ EmptyArray \/ Bulk \/ StartLoop
ElementStep ==
  \/ EndLoop \/ Nested \/ Number \/ StringLength \/ Text
  \/ Seconds \/ Nanoseconds \/ Unrecognized

Next == Build \/ Open \/ Enter \/ FieldStep \/ ArrayStep \/ ElementStep \/ Finish

Spec == Init /\ [][Next]_vars

\* The walk is one sequential call: it goes on while it can.
FairSpec == Spec /\ WF_vars(Next)

-----------------------------------------------------------------------------
(* Properties *)

TypeOK ==
  /\ schema \in Schemas
  /\ payload \in Payloads
  /\ DOMAIN cells \subseteq Int
  /\ \A at \in DOMAIN cells : cells[at] \in Int
  /\ offset \in Nat
  /\ align8 \in {4, 8}
  /\ stack \in Seq(Frame)
  /\ outcome \in Outcomes
  /\ spans \in Seq(Span)

\* Every read of read_message lies in the payload, starts at the first place
\* after the read before it that has its alignment, and the reader stands where
\* the last one ended: no byte is read twice and none but padding is skipped.
SpansSound ==
  /\ Contiguous(spans)
  /\ offset = 4 + EndOf(spans, Len(spans))
  /\ spans # <<>> => offset <= payload.size

\* The loops of read_field in progress are at different depths, none deeper
\* than the limit, and each was admitted only for a count that the body could
\* hold: what Vec::with_capacity has reserved at any moment is bounded by
\* (MaxDepth + 1) times the size of the payload, whatever the payload says.
LoopsNest ==
  /\ \A i, j \in DOMAIN stack :
       i < j /\ stack[j].op = "elems" => stack[j].depth < stack[i].depth
  /\ \A i \in DOMAIN stack : stack[i].op = "elems" =>
       /\ stack[i].depth <= MaxDepth
       /\ stack[i].done <= stack[i].n
       /\ stack[i].field.count # -1 => stack[i].n <= payload.size - 4

BytesRead == UNION {spans[i].from..(spans[i].from + spans[i].size - 1) : i \in DOMAIN spans}

\* The call comes to an end for every payload and every schema, recursive
\* schemas and elements of no size included.
Terminates == <>(outcome \in {"ok"} \cup Errors)

\* lib.rs: "Every supported element consumes at least one byte."  Whenever the
\* element loop has finished some elements of a sequence, at least that many
\* bytes of the payload have been read.
EveryElementConsumes ==
  \A i \in DOMAIN stack :
    stack[i].op = "elems" /\ i = 1 => stack[i].done <= offset - 4

\* DESIGN.md: "malformed payloads raise ValueError".  With a schema that uses
\* no wide string and whose unions switch on integers, no other error is raised.
MalformedRaisesValueError ==
  outcome \in {"RuntimeError", "TypeError", "OverflowError"} =>
    \E i \in DOMAIN schema.plans :
      LET p == schema.plans[i]
      IN  \/ p.union /\ p.switch \notin IntegerKinds
          \/ \E f \in Targets(p) : f.kind = "wstring"

\* The walk, seen as a cursor: see CdrCursor.
Cursor == INSTANCE CdrCursor WITH
  length <- IF payload.size < 4 THEN 0 ELSE payload.size - 4,
  position <- offset - 4,
  spans <- spans,
  verdict <- IF outcome = "ok" THEN "accepted"
             ELSE IF outcome \in Errors THEN "rejected" ELSE "reading"

\* Decoding implements the cursor: reads only move forward, aligned and inside
\* the body, and the verdict is given once and is final.
ReadsAsCursor == Cursor!Spec

=============================================================================
