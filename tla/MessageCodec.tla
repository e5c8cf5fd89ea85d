---------------------------- MODULE MessageCodec ----------------------------
(***************************************************************************)
(* MessageWriter, message_writer.py, and the compiled decoder at the other *)
(* end: a message is sized, written by walking the definitions, and the    *)
(* payload is given to the decoder of NativeDecoder.                       *)
(*                                                                         *)
(* The definitions are the decoder's plans, which the same schema compiles *)
(* to; the writer knows no unions.  Of what is written the model keeps the *)
(* bytes that are not padding and the numbers that steer the decoder.      *)
(***************************************************************************)
EXTENDS NativeDecoder

CONSTANTS
  Subjects,    \* what is written: [schema, defaults, message]
  Values,      \* messages, defaults and all they are made of
  MaxNesting   \* how many definitions deep the interpreter lets a walk go

(* A value is a record that says what it is: "none"; "number", or "huge"   *)
(* for one that does not fit its type; "text" of chars and bytes; "list"   *)
(* (list or tuple), "buffer" (array.array, memoryview) or "bytes" of       *)
(* items; "dict" with a value for each field of the definition.            *)
None == [is |-> "none"]
Zero == [is |-> "number"]
EmptyText == [is |-> "text", chars |-> 0, bytes |-> 0]

ASSUME ValuesAssumption ==
  /\ {None, Zero, EmptyText} \subseteq Values
  /\ \A v \in Values :
       /\ v.is \in {"none", "number", "huge", "text", "list", "buffer", "bytes", "dict"}
       /\ v.is = "text" => v.chars \in Nat /\ v.bytes \in Nat
       /\ v.is \in {"list", "buffer", "bytes"} => v.items \in Seq(Values)
       /\ v.is = "dict" => v.of \in Seq(Values)
ASSUME SubjectsAssumption ==
  \A su \in Subjects :
    /\ su.schema \in Schema /\ WellFormed(su.schema)
    /\ \A t \in DOMAIN su.schema.plans :
         su.schema.plans[t].union => su.schema.plans[t].fields = <<>>
    /\ su.message \in Values
    /\ \A at \in DOMAIN su.defaults : su.defaults[at] \in Values
ASSUME NestingAssumption == MaxNesting \in Nat

VARIABLES
  subject,      \* chosen beforehand
  phase,        \* "new", "sized", "refused" or "written"
  calculated,   \* what calculate_byte_size returned, -1 before
  body          \* what write_message left after the header

codecVars == <<subject, phase, calculated, body>>
allVars == <<vars, codecVars>>

WalkErrors ==
  {"none", "ValueError", "RuntimeError", "TypeError", "OverflowError", "struct.error", "RecursionError"}

\* at is new_offset - 4 in the walk that sizes, the writer's offset - 4 in the
\* walk that writes.  lost are those who cannot follow what the writer did: see
\* WrittenIsRead and SizesAgree.
Sizer == [at : Int, error : WalkErrors]
Writer ==
  [at : Nat, put : SUBSET Nat, cells : SUBSET (Nat \X Nat), error : WalkErrors,
   lost : SUBSET {"decoder", "sizer"}]

Unsized == [at |-> 0, error |-> "none"]
Nothing == [at |-> 0, put |-> {}, cells |-> {}, error |-> "none", lost |-> {}]

CodecInit ==
  /\ subject \in Subjects
  /\ schema = subject.schema
  /\ payload = [size |-> 0, reserved |-> 0, kind |-> 0]
  /\ cells = <<>> /\ offset = 4 /\ align8 = 8
  /\ stack = <<>> /\ outcome = "new" /\ spans = <<>>
  /\ phase = "new"
  /\ calculated = -1
  /\ body = Nothing

-----------------------------------------------------------------------------
(* What both walks ask of a field and of the value given for it *)

DefinitionOf(su, t) == su.schema.plans[t].fields
DefaultOf(su, t, i) == IF <<t, i>> \in DOMAIN su.defaults THEN su.defaults[<<t, i>>] ELSE None

\* A message that is no dict has none of the fields.
Member(d, i) == IF d.is = "dict" /\ i \in DOMAIN d.of THEN d.of[i] ELSE None

\* _field_length
LengthOf(v) ==
  CASE v.is \in {"list", "buffer", "bytes"} -> Len(v.items)
    [] v.is = "dict" -> Len(v.of)
    [] v.is = "text" -> v.chars
    [] OTHER -> 0

\* "field.arrayLength or _field_length(...)"
ArrayLength(f, v) == IF f.count \in {0, -2} THEN LengthOf(v) ELSE f.count

\* The entry for the k-th element of an array.
Entry(v, k, absent) == IF v.is = "list" /\ k \in DOMAIN v.items THEN v.items[k] ELSE absent

SizedKinds == NumberKinds \cup TimeKinds
SizeOf(kind) == IF kind \in TimeKinds THEN 8 ELSE Widths[kind]
AlignmentOf(kind) == IF kind \in TimeKinds THEN 4 ELSE Widths[kind]

\* _get_primitive_size and the tables of writers refuse alike.
Refusal(kind) == IF kind = "wstring" THEN "RuntimeError" ELSE "ValueError"

Fail(w, e) == IF w.error # "none" THEN w ELSE [w EXCEPT !.error = e]

\* A loop of either walk: each step goes on from where the one before it ended.
Through(w, steps) ==
  LET after[k \in 0..Len(steps)] == IF k = 0 THEN w ELSE steps[k][after[k - 1]]
  IN  after[Len(steps)]

-----------------------------------------------------------------------------
(* calculate_byte_size: nested[<<s, t, d>>] sizes d as definition t *)

Grow(s, n, a) == IF s.error # "none" THEN s ELSE [s EXCEPT !.at = Padded(@, a) + n]

\* Bug: the terminator is forgotten.
SizeText_Unterminated(s, v) == Grow(s, 4 + LengthOf(v), 4)

\* The length is len(entry), whatever the entry is.
SizeText(s, v) ==
  IF v.is \in {"none", "number", "huge"} THEN Fail(s, "TypeError")
  ELSE Grow(s, 4 + LengthOf(v) + 1, 4)

\* The items of an array are padded for even when there are none.
SizeArray(nested, s, f, v) ==
  LET n == ArrayLength(f, v)
      counted == IF f.count = -2 THEN Grow(s, 4, 4) ELSE s
  IN  CASE f.kind = "complex" ->
             Through(counted, [k \in 1..n |->
               [r \in Sizer |-> nested[<<r, f.target, Entry(v, k, None)>>]]])
        [] f.kind = "string" ->
             Through(counted, [k \in 1..n |-> [r \in Sizer |-> SizeText(r, Entry(v, k, EmptyText))]])
        [] f.kind \in SizedKinds -> Grow(counted, n * SizeOf(f.kind), AlignmentOf(f.kind))
        [] OTHER -> Fail(counted, Refusal(f.kind))

SizeField(nested, s, f, v) ==
  CASE f.count # -1 -> SizeArray(nested, s, f, v)
    [] f.count = -1 /\ f.kind = "complex" -> nested[<<s, f.target, v>>]
    [] f.count = -1 /\ f.kind = "string" -> SizeText(s, IF v.is = "text" THEN v ELSE EmptyText)
    [] f.count = -1 /\ f.kind \in SizedKinds -> Grow(s, SizeOf(f.kind), AlignmentOf(f.kind))
    [] OTHER -> Fail(s, Refusal(f.kind))

SizeDefinition(su, nested, s, t, d) ==
  IF DefinitionOf(su, t) = <<>> THEN Grow(s, 1, 1)
  ELSE Through(s, [i \in DOMAIN DefinitionOf(su, t) |->
         [r \in Sizer |-> SizeField(nested, r, DefinitionOf(su, t)[i], Member(d, i))]])

\* Sizes(su)[n] sizes what nests at most n definitions deep.
Sizes(su) ==
  LET level[n \in Nat] ==
        [c \in Sizer \X (DOMAIN su.schema.plans) \X Values |->
           IF n = 0 THEN Fail(c[1], "RecursionError")
           ELSE SizeDefinition(su, level[n - 1], c[1], c[2], c[3])]
  IN  level

-----------------------------------------------------------------------------
(* write_message: nested[<<w, t, d>>] writes d as definition t *)

Put(w, n, a) ==
  IF w.error # "none" THEN w
  ELSE [w EXCEPT !.at = Padded(@, a) + n,
                 !.put = @ \cup Padded(w.at, a)..(Padded(w.at, a) + n - 1)]

\* Bug: the length is written where the writer stands.
PutLength_Unaligned(w, v) ==
  IF w.error # "none" THEN w ELSE [Put(w, 4, 1) EXCEPT !.cells = @ \cup {<<w.at, v>>}]

\* sequenceLength, and the length of a text.
PutLength(w, v) ==
  IF w.error # "none" THEN w
  ELSE [Put(w, 4, 4) EXCEPT !.cells = @ \cup {<<Padded(w.at, 4), v>>}]

\* Bug: the length of a text leaves its terminator out.
PutText_Short(w, v) ==
  LET n == IF v.is = "text" THEN v.bytes ELSE 0
  IN  Put(PutLength(w, n), n + 1, 1)

\* CdrWriter.string
PutText(w, v) ==
  LET n == IF v.is = "text" THEN v.bytes ELSE 0
  IN  Put(PutLength(w, n + 1), n + 1, 1)

\* What int or float take; everything has a truth value, and the writer of a
\* time makes zeros of what is no dict.
Suits(kind, v) ==
  /\ kind = "string" => v.is = "text"
  /\ kind \in NumberKinds \ {"bool"} => v.is \in {"number", "huge"}

ZeroOf(kind) ==
  IF kind = "string" THEN EmptyText ELSE IF kind \in TimeKinds THEN None ELSE Zero

Unfit(kind) == IF kind \in {"float32", "float64"} THEN "OverflowError" ELSE "struct.error"

\* The primitive writers, once they have chosen what to write.
PutPrimitive(w, kind, v) ==
  IF kind \in SizedKinds \ {"bool"} /\ v.is = "huge" THEN Fail(w, Unfit(kind))
  ELSE CASE kind = "string" -> PutText(w, v)
         [] kind \in TimeKinds -> Put(Put(w, 4, 4), 4, 4)
         [] kind \in NumberKinds -> Put(w, Widths[kind], Widths[kind])
         [] OTHER -> Fail(w, Refusal(kind))

\* The writer goes on with what a decoder of the same schema can follow, and what
\* the walk that sizes has foreseen, or not.  What the model does not know, such
\* as the text of a number, counts as neither.
Followed(w, byDecoder, bySizer) ==
  [w EXCEPT !.lost = @ \cup (IF byDecoder THEN {} ELSE {"decoder"})
                      \cup (IF bySizer THEN {} ELSE {"sizer"})]

\* A single value is written, or the default, or a zero; the size of a text is
\* that of the value given, in characters.
WriteSingle(w, kind, v, default) ==
  LET chosen == IF Suits(kind, v) THEN v
                ELSE IF default.is # "none" THEN default ELSE ZeroOf(kind)
      sizes == IF v.is = "text" THEN v.chars = v.bytes ELSE chosen = EmptyText
  IN  PutPrimitive(Followed(w, Suits(kind, chosen), kind = "string" => sizes), kind, chosen)

\* What the array writers write: what is given if they take it for a sequence,
\* else the default, else as many zeros as a fixed array has.
ItemsOf(f, v, default) ==
  IF v.is \in {"list", "buffer"} \/ (v.is = "bytes" /\ f.kind = "uint8") THEN v.items
  ELSE IF f.kind \notin TimeKinds /\ default.is = "list" /\ default.items # <<>> THEN default.items
  ELSE [k \in 1..(IF f.count < 0 THEN 0 ELSE f.count) |-> ZeroOf(f.kind)]

\* As many items as were counted, of the kind the field has.  They are not when
\* a sequence is absent and has a default, or is given as bytes for wider items.
DecoderFollows(f, v, default) ==
  /\ f.count >= -2
  /\ f.kind # "complex" =>
       /\ default.is \in {"none", "list"}
       /\ Len(ItemsOf(f, v, default)) = IF f.count = -2 THEN ArrayLength(f, v) ELSE f.count
       /\ \A k \in DOMAIN ItemsOf(f, v, default) : Suits(f.kind, ItemsOf(f, v, default)[k])

\* No array is empty, and the texts are those that are sized.
SizerFollows(f, v, default) ==
  LET items == ItemsOf(f, v, default)
  IN  /\ f.kind \in SizedKinds => items # <<>>
      /\ f.kind = "string" => \A k \in DOMAIN items :
           /\ items[k].is = "text"
           /\ items[k].chars = items[k].bytes
           /\ v.is # "list" => items[k] = EmptyText

\* The decoder does not believe in elements that take no byte.
WriteArray(nested, w, f, v, default) ==
  LET items == ItemsOf(f, v, default)
      flagged == Followed(w, DecoderFollows(f, v, default), SizerFollows(f, v, default))
      counted == IF f.count = -2 THEN PutLength(flagged, ArrayLength(f, v)) ELSE flagged
      element(r, k) == nested[<<r, f.target, Entry(v, k, None)>>]
  IN  IF f.count # -2 /\ v.is # "none" /\ LengthOf(v) # f.count THEN Fail(w, "ValueError")
      ELSE CASE f.kind = "complex" ->
                  Through(counted, [k \in 1..ArrayLength(f, v) |->
                    [r \in Writer |-> Followed(element(r, k), element(r, k).at > r.at, TRUE)]])
             [] f.kind \in SizedKinds \cup {"string"} ->
                  Through(counted, [k \in DOMAIN items |->
                    [r \in Writer |-> PutPrimitive(r, f.kind, items[k])]])
             [] OTHER -> Fail(counted, Refusal(f.kind))

WriteField(nested, w, f, v, default) ==
  CASE f.count # -1 -> WriteArray(nested, w, f, v, default)
    [] f.count = -1 /\ f.kind = "complex" -> nested[<<w, f.target, v>>]
    [] f.count = -1 /\ f.kind # "complex" -> WriteSingle(w, f.kind, v, default)

\* A definition without fields, such as that of a union, is a byte.
WriteDefinition(su, nested, w, t, d) ==
  IF DefinitionOf(su, t) = <<>> THEN Put(Followed(w, ~su.schema.plans[t].union, TRUE), 1, 1)
  ELSE Through(w, [i \in DOMAIN DefinitionOf(su, t) |->
         [r \in Writer |->
            WriteField(nested, r, DefinitionOf(su, t)[i], Member(d, i), DefaultOf(su, t, i))]])

\* Writes(su)[n] writes what nests at most n definitions deep; the decoder stops
\* at MaxDepth.
Writes(su) ==
  LET level[n \in Nat] ==
        [c \in Writer \X (DOMAIN su.schema.plans) \X Values |->
           IF n = 0 THEN Fail(c[1], "RecursionError")
           ELSE WriteDefinition(su, level[n - 1], Followed(c[1], MaxNesting - n <= MaxDepth, TRUE),
                                c[2], c[3])]
  IN  level

-----------------------------------------------------------------------------
(* The calls *)

SizeOfMessage(su) == Sizes(su)[MaxNesting][<<Unsized, su.schema.root, su.message>>]
BodyOfMessage(su) == Writes(su)[MaxNesting][<<Nothing, su.schema.root, su.message>>]

\* The numbers of a body, by their place.
CellsOf(w) == [at \in {c[1] : c \in w.cells} |-> (CHOOSE c \in w.cells : c[1] = at)[2]]

Calculate ==
  /\ phase = "new"
  /\ LET s == SizeOfMessage(subject)
     IN  /\ calculated' = IF s.error = "none" THEN s.at + 4 ELSE -1
         /\ phase' = IF s.error = "none" THEN "sized" ELSE "refused"
  /\ UNCHANGED <<vars, subject, body>>

\* write_message goes on from the size, or does without when it is given a
\* buffer.
WriteMessage ==
  /\ phase \in {"new", "sized"}
  /\ LET w == BodyOfMessage(subject)
     IN  /\ body' = w
         /\ phase' = IF w.error = "none" THEN "written" ELSE "refused"
         /\ payload' = [size |-> w.at + 4, reserved |-> 0, kind |-> 1]
         /\ cells' = CellsOf(w)
  /\ UNCHANGED <<schema, offset, align8, stack, outcome, spans, subject, calculated>>

\* The texts that were written are UTF-8: one that is all there is taken.
Decode ==
  /\ phase = "written"
  /\ Next
  /\ At("text") /\ Fits(Top.n, 1) => outcome' = "running"
  /\ UNCHANGED codecVars

CodecNext == Calculate \/ WriteMessage \/ Decode

CodecSpec == CodecInit /\ [][CodecNext]_allVars

-----------------------------------------------------------------------------
(* Properties *)

\* Lengths are written at multiples of four, and all that was written lies
\* between the header and the end.
CodecTypeOK ==
  /\ phase \in {"new", "sized", "refused", "written"}
  /\ calculated \in Int
  /\ body.put \subseteq 0..(body.at - 1)
  /\ \A c \in body.cells : c[1] % 4 = 0 /\ c[1]..(c[1] + 3) \subseteq body.put
  /\ body.error \in WalkErrors

\* Every message the writer writes is read back by the decoder compiled from
\* the same schema: nothing in it is malformed to the decoder, which reads each
\* byte that was written, no padding between them, and stops at the end.
WrittenIsRead ==
  phase = "written" /\ "decoder" \notin body.lost =>
    /\ outcome \notin Errors
    /\ outcome = "ok" => offset = payload.size /\ BytesRead = body.put

\* The two walks over the definitions agree on the size of a message, where the
\* sizes of its texts in characters and bytes agree, no array is empty and no
\* default stands in for a text.
SizesAgree ==
  phase = "written" /\ calculated # -1 /\ body.lost = {} =>
    calculated = payload.size

\* tests/rosmsg2_serialization/test_message_writer.py: "assert
\* writer.calculate_byte_size(message) == len(expected)", expected being what
\* write_message returns.  For every message that can be read back.
CalculatedIsWritten ==
  phase = "written" /\ calculated # -1 /\ "decoder" \notin body.lost => calculated = payload.size

=============================================================================
