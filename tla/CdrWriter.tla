------------------------------ MODULE CdrWriter ------------------------------
(***************************************************************************)
(* CdrWriter, cdr/writer.py: numbers, texts, arrays and member headers are *)
(* appended to a buffer that grows.  A call is an action; the loop that    *)
(* writes an array item by item is an action per item.                     *)
(*                                                                         *)
(* A byte records the value it is part of, its place in it and the order   *)
(* the value was written in, so that whoever reads it back can tell what   *)
(* it was.  A value is a tuple of numbers: <<n>> for a number, the fields  *)
(* of a member header for a header.                                        *)
(***************************************************************************)
EXTENDS Integers, Sequences, CdrAlignment

CONSTANTS
  Kinds,      \* the encapsulation kinds in use, by their codes
  Rooms,      \* lengths of the buffers a writer may be given
  Numbers,    \* the numbers that may be written
  MaxWord     \* the largest number of four bytes

\* EncapsulationKind
Codes == 0..3 \cup 6..11 \cup 16..21

ASSUME KindsAssumption == Kinds \subseteq Codes
ASSUME RoomsAssumption == Rooms \subseteq Nat
ASSUME NumbersAssumption == Numbers \subseteq Nat
ASSUME MaxWordAssumption == MaxWord \in Nat /\ MaxWord >= 65536

\* get_encapsulation_kind_info
Cdr2(kind) == kind > 3
LittleEndian(kind) == kind \in {1, 3, 7, 9, 11, 17, 19, 21}

Order(kind) == IF LittleEndian(kind) THEN "little" ELSE "big"

ExtendedPid == 16129   \* 0x3F01
SentinelPid == 16130   \* 0x3F02

Byte == [of : Seq(Nat), order : {"little", "big", "none"}, width : Nat, k : Nat]

Zero == [of |-> <<0>>, order |-> "none", width |-> 1, k |-> 1]
Zeros(n) == [k \in 1..n |-> Zero]

\* The bytes of a value; the order of a single byte does not show.
Encoded(v, n, order) ==
  IF v = <<0>> THEN Zeros(n)
  ELSE [k \in 1..n |-> [of |-> v, order |-> IF n = 1 THEN "none" ELSE order,
                        width |-> n, k |-> k]]

\* The UTF-8 of a text of n bytes.
Text(n) == [k \in 1..n |-> [of |-> <<n>>, order |-> "none", width |-> n, k |-> k]]

\* The items of an array one after the other.
Packed(vs, n, order) ==
  [k \in 1..(n * Len(vs)) |->
     Encoded(<<vs[((k - 1) \div n) + 1]>>, n, order)[((k - 1) % n) + 1]]

\* What struct.pack_into accepts in n bytes.
InRange(x, n) ==
  CASE n = 1 -> x <= 255
    [] n = 2 -> x <= 65535
    [] n = 4 -> x <= MaxWord
    [] OTHER -> TRUE

VARIABLES
  kind,       \* fixed by the constructor
  capacity,   \* len(self._buffer)
  data,       \* the buffer up to self._offset
  origin,     \* self._origin
  items,      \* the items an array call has yet to write, and their width
  error       \* what the last call raised, "" for nothing

writerVars == <<kind, capacity, data, origin, items, error>>

NoItems == [width |-> 1, left |-> <<>>]
Errors == {"", "ValueError", "struct.error", "no room"}

TypeOK ==
  /\ kind \in Kinds
  /\ capacity \in Nat
  /\ data \in Seq(Byte)
  /\ origin \in Nat
  /\ items \in [width : {1, 2, 4, 8}, left : Seq(Nat)]
  /\ error \in Errors

-----------------------------------------------------------------------------
(* A call is composed of two parts of the state, the buffer and its end:   *)
(* w.capacity and w.data, with w.origin and w.error along.                 *)

Writer == [capacity |-> capacity, data |-> data, origin |-> origin, error |-> ""]

\* _resize_if_needed, for n more bytes.
Grown(room, needed) ==
  IF room >= needed THEN room
  ELSE IF 2 * room > needed THEN 2 * room ELSE needed

\* Bug: the buffer grows without room for the padding.
Aligned_Unpadded(w, a, n) ==
  LET pad == IF a = 0 THEN 0 ELSE Padding(Len(w.data) - w.origin, a)
  IN  IF w.error # "" THEN w
      ELSE [w EXCEPT !.capacity = Grown(@, Len(w.data) + n), !.data = @ \o Zeros(pad)]

\* align(a, n); alignment zero only makes room.
Aligned(w, a, n) ==
  LET pad == IF a = 0 THEN 0 ELSE Padding(Len(w.data) - w.origin, a)
  IN  IF w.error # "" THEN w
      ELSE [w EXCEPT !.capacity = Grown(@, Len(w.data) + pad + n), !.data = @ \o Zeros(pad)]

\* struct.pack_into and slice assignment, which need the room they write to.
Put(w, bytes) ==
  IF w.error # "" THEN w
  ELSE IF Len(w.data) + Len(bytes) > w.capacity THEN [w EXCEPT !.error = "no room"]
  ELSE [w EXCEPT !.data = @ \o bytes]

Raised(w, e) == IF w.error # "" THEN w ELSE [w EXCEPT !.error = e]

AlignmentOf(n) == IF n = 8 /\ Cdr2(kind) THEN 4 ELSE n

\* A number: the padding is there before the value turns out not to fit.
Number(w, n, order, v) ==
  IF InRange(v[1], n) THEN Put(Aligned(w, AlignmentOf(n), n), Encoded(v, n, order))
  ELSE Raised(Aligned(w, AlignmentOf(n), n), "struct.error")

Uint32(w, x) == Number(w, 4, Order(kind), <<x>>)
Uint16(w, v) == Number(w, 2, Order(kind), v)

\* The length in front of a text or an array, where it is asked for.
Prefixed(writeLength, n) == IF writeLength THEN Uint32(Writer, n) ELSE Writer

\* The call comes to w.
Becomes(w) ==
  /\ capacity' = w.capacity
  /\ data' = w.data
  /\ origin' = w.origin
  /\ error' = w.error

Idle == items.left = <<>>

-----------------------------------------------------------------------------
(* The calls *)

\* __init__: the header takes the first four bytes.
Init ==
  /\ kind \in Kinds
  /\ \E room \in Rooms : capacity = Grown(room, 4)
  /\ data = <<Zero>> \o Encoded(<<kind>>, 1, "none") \o Zeros(2)
  /\ origin = 4
  /\ items = NoItems
  /\ error = ""

\* int8 to float64, and uint16BE to uint64BE with their own byte order.
PutNumber(n, order, x) ==
  /\ Idle
  /\ Becomes(Number(Writer, n, order, <<x>>))
  /\ UNCHANGED <<kind, items>>

\* string: a text of n bytes.
PutText(n, writeLength) ==
  /\ Idle
  /\ Becomes(Put(Aligned(Prefixed(writeLength, n + 1), 0, n + 1), Text(n) \o <<Zero>>))
  /\ UNCHANGED <<kind, items>>

\* Arrays given as bytes, or as a typed buffer of the right format, are copied
\* at once, after aligning for items that may not be there.
PutBulk(n, xs, writeLength) ==
  /\ Idle
  /\ LET w == Prefixed(writeLength, Len(xs))
     IN  Becomes(Put(Aligned(w, AlignmentOf(n), n * Len(xs)), Packed(xs, n, Order(kind))))
  /\ UNCHANGED <<kind, items>>

\* Any other sequence is written item by item.
PutEach(n, xs, writeLength) ==
  /\ Idle
  /\ LET w == Prefixed(writeLength, Len(xs))
     IN  /\ Becomes(w)
         /\ items' = IF w.error = "" THEN [width |-> n, left |-> xs] ELSE NoItems
  /\ UNCHANGED kind

\* An item that does not fit ends the call with the items before it written.
PutItem ==
  /\ ~Idle
  /\ LET w == Number(Writer, items.width, Order(kind), <<Head(items.left)>>)
     IN  /\ Becomes(w)
         /\ items' = IF w.error = "" THEN [items EXCEPT !.left = Tail(@)] ELSE NoItems
  /\ UNCHANGED kind

\* 0x3F00 and 0xFFFF are the last that the short form takes.
Extended(id, size) == id > 16128 \/ size > 65535

\* Bug: alignment goes on from the start of the payload.
HeaderV1_KeepsOrigin(must, id, size) ==
  LET w == Aligned(Writer, 4, 4)
  IN  IF Extended(id, size)
      THEN Uint32(Uint32(Uint16(Uint16(w, <<must, ExtendedPid>>), <<8>>), id), size)
      ELSE Uint16(Uint16(w, <<must, id>>), <<size>>)

\* _member_header_v1
HeaderV1(must, id, size) ==
  LET w == Aligned(Writer, 4, 4)
      written == IF Extended(id, size)
                 THEN Uint32(Uint32(Uint16(Uint16(w, <<must, ExtendedPid>>), <<8>>), id), size)
                 ELSE Uint16(Uint16(w, <<must, id>>), <<size>>)
  IN  IF written.error # "" THEN written
      ELSE [written EXCEPT !.origin = Len(written.data)]

\* length_codes.py: the sizes that need no size field, by length code.
FixedSizes == <<1, 2, 4, 8>>
NoCode == -1
CodeOf(size) ==
  IF \E c \in 0..3 : FixedSizes[c + 1] = size
  THEN CHOOSE c \in 0..3 : FixedSizes[c + 1] = size
  ELSE 4

\* _member_header_v2: the header is written before the size is judged.
HeaderV2(must, id, size, code) ==
  LET c == IF code = NoCode THEN CodeOf(size) ELSE code
      w == Number(Writer, 4, Order(kind), <<must, c, id>>)
      unit == CASE c = 6 -> 4 [] c = 7 -> 8 [] OTHER -> 1
  IN  IF id > 268435455 \/ (code = NoCode /\ size > MaxWord) THEN Raised(Writer, "ValueError")
      ELSE IF c <= 3
           THEN IF size = FixedSizes[c + 1] THEN w ELSE Raised(w, "ValueError")
      ELSE IF size % unit # 0 THEN Raised(w, "ValueError")
      ELSE Uint32(w, size \div unit)

\* emHeader
PutMember(must, id, size, code) ==
  /\ Idle
  /\ Becomes(IF Cdr2(kind) THEN HeaderV2(must, id, size, code) ELSE HeaderV1(must, id, size))
  /\ UNCHANGED <<kind, items>>

\* sentinelHeader
PutSentinel ==
  /\ Idle
  /\ Becomes(IF Cdr2(kind) THEN Writer
             ELSE Uint16(Uint16(Aligned(Writer, 4, 4), <<0, SentinelPid>>), <<0>>))
  /\ UNCHANGED <<kind, items>>

\* align and reset_origin are public too.
PutAlign(a) ==
  /\ Idle
  /\ Becomes(Aligned(Writer, a, a))
  /\ UNCHANGED <<kind, items>>

ResetOrigin ==
  /\ Idle
  /\ origin' = Len(data)
  /\ error' = ""
  /\ UNCHANGED <<kind, capacity, data, items>>

-----------------------------------------------------------------------------
(* Properties *)

\* Every write has made the room it needs, whatever buffer the writer was given
\* and whatever was padded: struct.pack_into never runs into the end of the
\* buffer, and all of data lies in it.
RoomSuffices ==
  /\ error # "no room"
  /\ Len(data) <= capacity

=============================================================================
