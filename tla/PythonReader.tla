---------------------------- MODULE PythonReader ----------------------------
(***************************************************************************)
(* The reader the compiled decoder replaced and is measured against,       *)
(* _python_reader.py over cdr/reader.py, as a function of a compiled       *)
(* schema and of the numbers in a payload: which bytes it reads, where it  *)
(* stops and whether it fails.                                             *)
(*                                                                         *)
(* What is fixed for one call is g: plans, body (its size), cells, eight,  *)
(* little.  A number that cells does not hold fails the reader: it would   *)
(* be another payload.                                                     *)
(***************************************************************************)
EXTENDS Integers, Sequences, CdrAlignment

CONSTANT
  RecursionLimit  \* how many definitions deep the interpreter lets it go

\* at is the position in the body, read are the positions read so far.
State == [at : Nat, read : SUBSET Nat, failed : BOOLEAN]

\* NativeDecoder's plan of each type is the definition both readers share.
Given(plans, body, cells, kind) ==
  [plans |-> plans, body |-> body, cells |-> cells,
   eight |-> IF kind > 3 THEN 4 ELSE 8, little |-> kind % 2 = 1]

Start == [at |-> 0, read |-> {}, failed |-> FALSE]

Sizes ==
  [bool |-> 1, uint8 |-> 1, int8 |-> 1, uint16 |-> 2, int16 |-> 2,
   uint32 |-> 4, int32 |-> 4, float32 |-> 4,
   uint64 |-> 8, int64 |-> 8, float64 |-> 8]

\* An exception: nothing is left of the reader.
Failed == [at |-> 0, read |-> {}, failed |-> TRUE]

\* The reader goes on to at, having read more.
Moved(s, at, more) == [at |-> at, read |-> s.read \cup more, failed |-> s.failed]

\* A loop: each step goes on from where the one before it ended.
Through(s, steps) ==
  LET after[k \in 0..Len(steps)] == IF k = 0 THEN s ELSE steps[k][after[k - 1]]
  IN  after[Len(steps)]

-----------------------------------------------------------------------------
(* CdrReader *)

AlignTo(g, s, width) == Padded(s.at, IF width = 8 THEN g.eight ELSE width)

Bytes(from, n) == from..(from + n - 1)

\* struct.unpack_from: a number that is not all there is an error.
Unpack(g, s, width) ==
  LET from == AlignTo(g, s, width)
  IN  IF s.failed \/ from + width > g.body THEN Failed
      ELSE Moved(s, from + width, Bytes(from, width))

\* The length that steers the reader next.
LengthAt(g, s) == g.cells[AlignTo(g, s, 4)]
LengthKnown(g, s) == AlignTo(g, s, 4) \in DOMAIN g.cells /\ LengthAt(g, s) \in Nat

\* A slice of the view is cut at its end without complaint.
Slice(g, s, from, n) == Moved(s, from + n, {i \in Bytes(from, n) : i < g.body})

\* string: an empty text still moves over its terminator; the text is a slice.
String(g, s) ==
  LET head == Unpack(g, s, 4)
  IN  IF head.failed \/ ~LengthKnown(g, s) THEN Failed
      ELSE Slice(g, head, head.at, LengthAt(g, s))

\* _array: no alignment when it is empty; a short slice fails when its bytes
\* do not make whole items, or must be swapped by struct.unpack.
Array(g, s, width, n) ==
  LET from == AlignTo(g, s, width)
      have == IF from < g.body THEN g.body - from ELSE 0
  IN  IF s.failed \/ n = 0 THEN s
      ELSE IF have < n * width /\ (have % width # 0 \/ (~g.little /\ width > 1)) THEN Failed
      ELSE Slice(g, s, from, n * width)

-----------------------------------------------------------------------------
(* _read_complex_type: nested[<<s, t>>] reads the definition t *)

\* _deserializers.  The byte order of the host is little.
Value(g, s, kind) ==
  CASE kind = "string" -> String(g, s)
    [] kind \in {"time", "duration"} -> Unpack(g, Unpack(g, s, 4), 4)
    [] kind \in DOMAIN Sizes -> Unpack(g, s, Sizes[kind])
    [] OTHER -> Failed

\* A nested definition, or a primitive type.
Single(g, nested, s, f) ==
  IF f.kind = "complex" THEN nested[<<s, f.target>>] ELSE Value(g, s, f.kind)

\* _typed_array_deserializers: numbers are read at once, but for bool; the
\* others item by item.
Items(g, nested, s, f, n) ==
  CASE f.kind \in DOMAIN Sizes \ {"bool"} -> Array(g, s, Sizes[f.kind], n)
    [] f.kind \in {"bool", "string", "time", "duration", "complex"} ->
         Through(s, [k \in 1..n |-> [r \in State |-> Single(g, nested, r, f)]])
    [] OTHER -> Failed

\* "field.arrayLength or reader.sequence_length()": zero also reads a length.  One
\* below zero, which the compiled decoder refuses, is not followed here.
FieldValue(g, nested, s, f) ==
  CASE f.count = -1 -> Single(g, nested, s, f)
    [] f.count > 0 -> Items(g, nested, s, f, f.count)
    [] f.count \in {0, -2} ->
         LET counted == Unpack(g, s, 4)
         IN  IF counted.failed \/ ~LengthKnown(g, s) THEN Failed
             ELSE Items(g, nested, counted, f, LengthAt(g, s))
    [] f.count < -2 -> Failed

\* _union_case_field: the first case that lists the discriminant, or default.
CaseField(p, v) ==
  LET listed == {i \in DOMAIN p.cases : v \in p.cases[i].values}
  IN  IF listed = {} THEN p.default
      ELSE <<p.cases[CHOOSE i \in listed : \A j \in listed : i <= j].field>>

Union(g, nested, s, p) ==
  LET width == Sizes[p.switch]
      at == AlignTo(g, s, width)
      field == CaseField(p, g.cells[at])
  IN  IF p.switch \notin DOMAIN Sizes \/ at \notin DOMAIN g.cells \/ field = <<>> THEN Failed
      ELSE FieldValue(g, nested, Unpack(g, s, width), field[1])

Complex(g, nested, s, t) ==
  LET p == g.plans[t]
  IN  CASE p.union -> Union(g, nested, s, p)
        [] ~p.union /\ p.fields = <<>> -> Unpack(g, s, 1)
        [] ~p.union /\ p.fields # <<>> ->
             Through(s, [i \in DOMAIN p.fields |->
                          [r \in State |-> FieldValue(g, nested, r, p.fields[i])]])

\* Levels(g)[n] reads what nests at most n definitions deep.
Levels(g) ==
  LET level[n \in Nat] ==
        [c \in State \X (DOMAIN g.plans) |->
           IF n = 0 \/ c[1].failed THEN Failed ELSE Complex(g, level[n - 1], c[1], c[2])]
  IN  level

\* read_message
Message(g, root) == Levels(g)[RecursionLimit][<<Start, root>>]

=============================================================================
