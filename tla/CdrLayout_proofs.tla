-------------------------- MODULE CdrLayout_proofs --------------------------
(***************************************************************************)
(* The stream for any kinds, buffers, numbers and calls: that whatever a   *)
(* call writes, it has made the room for it; its types, where each call of *)
(* the writer leaves its bytes, and what the calculator makes of the same  *)
(* calls.                                                                  *)
(***************************************************************************)
EXTENDS CdrStream, TLAPS, WellFoundedInduction

Orders == {"little", "big", "none"}

Writers == [capacity : Nat, data : Seq(Byte), origin : Nat, error : Errors]

\* A call so far, and one that has made room for n more bytes.
Sound(w) == w \in Writers /\ Len(w.data) <= w.capacity /\ w.error # "no room"
Roomy(w, n) == Sound(w) /\ (w.error = "" => Len(w.data) + n <= w.capacity)

\* Inductive as it stands, with the types.
RoomInv == TypeOK /\ RoomSuffices

-----------------------------------------------------------------------------

LEMMA ZeroType == Zero \in Byte
BY DEF Zero, Byte

LEMMA ZerosType == ASSUME NEW n \in Nat PROVE Zeros(n) \in Seq(Byte) /\ Len(Zeros(n)) = n
BY ZeroType DEF Zeros

LEMMA EncodedType ==
  ASSUME NEW v \in Seq(Nat), NEW n \in Nat, NEW order \in Orders
  PROVE  Encoded(v, n, order) \in Seq(Byte) /\ Len(Encoded(v, n, order)) = n
<1>1. CASE v = <<0>>
  BY <1>1, ZerosType DEF Encoded
<1>2. CASE v # <<0>>
  <2> DEFINE b(k) == [of |-> v, order |-> IF n = 1 THEN "none" ELSE order, width |-> n, k |-> k]
  <2>1. \A k \in 1..n : b(k) \in Byte
    BY DEF Byte, Orders
  <2>2. Encoded(v, n, order) = [k \in 1..n |-> b(k)]
    BY <1>2 DEF Encoded
  <2> QED
    BY <2>1, <2>2
<1> QED
  BY <1>1, <1>2

LEMMA TextType == ASSUME NEW n \in Nat PROVE Text(n) \in Seq(Byte) /\ Len(Text(n)) = n
<1> DEFINE b(k) == [of |-> <<n>>, order |-> "none", width |-> n, k |-> k]
<1>1. \A k \in 1..n : b(k) \in Byte
  BY DEF Byte
<1>2. Text(n) = [k \in 1..n |-> b(k)]
  BY DEF Text
<1> QED
  BY <1>1, <1>2

LEMMA PackedType ==
  ASSUME NEW xs \in Seq(Nat), NEW n \in Alignments, NEW order \in Orders
  PROVE  Packed(xs, n, order) \in Seq(Byte) /\ Len(Packed(xs, n, order)) = n * Len(xs)
<1> DEFINE b(k) == Encoded(<<xs[((k - 1) \div n) + 1]>>, n, order)[((k - 1) % n) + 1]
<1>1. n * Len(xs) \in Nat
  BY DEF Alignments
<1>2. ASSUME NEW k \in 1..(n * Len(xs)) PROVE b(k) \in Byte
  <2>1. ((k - 1) \div n) + 1 \in 1..Len(xs) /\ ((k - 1) % n) + 1 \in 1..n
    <3>1. Len(xs) \in Nat
      OBVIOUS
    <3>2. CASE n = 1
      BY <3>1, <3>2
    <3>3. CASE n = 2
      BY <3>1, <3>3
    <3>4. CASE n = 4
      BY <3>1, <3>4
    <3>5. CASE n = 8
      BY <3>1, <3>5
    <3> QED
      BY <3>2, <3>3, <3>4, <3>5 DEF Alignments
  <2>2. <<xs[((k - 1) \div n) + 1]>> \in Seq(Nat)
    BY <2>1
  <2>3. n \in Nat
    BY DEF Alignments
  <2> DEFINE e == Encoded(<<xs[((k - 1) \div n) + 1]>>, n, order)
  <2>4. e \in Seq(Byte) /\ Len(e) = n
    BY <2>2, <2>3, EncodedType
  <2> HIDE DEF e
  <2>5. e[((k - 1) % n) + 1] \in Byte
    BY <2>1, <2>4
  <2> QED
    BY <2>5 DEF e
<1>3. Packed(xs, n, order) = [k \in 1..(n * Len(xs)) |-> b(k)]
  BY DEF Packed
<1> HIDE DEF b
<1> QED
  BY <1>1, <1>2, <1>3

LEMMA GrownRoom ==
  ASSUME NEW room \in Nat, NEW needed \in Nat
  PROVE  Grown(room, needed) \in Nat /\ Grown(room, needed) >= needed
BY DEF Grown

LEMMA PaddingNat ==
  ASSUME NEW o \in Int, NEW a \in Alignments PROVE Padding(o, a) \in Nat
BY DEF Padding, Alignments

LEMMA Fields ==
  ASSUME NEW w \in Writers
  PROVE  /\ w.data \in Seq(Byte) /\ Len(w.data) \in Nat
         /\ w.capacity \in Nat /\ w.origin \in Nat /\ w.error \in Errors
<1>1. w.data \in Seq(Byte)
  BY DEF Writers
<1>2. w.capacity \in Nat /\ w.origin \in Nat /\ w.error \in Errors
  BY DEF Writers
<1> QED
  BY <1>1, <1>2

LEMMA Marked ==
  ASSUME NEW w \in Writers, NEW e \in Errors
  PROVE  LET u == [w EXCEPT !.error = e]
         IN  u \in Writers /\ u.capacity = w.capacity /\ u.data = w.data /\ u.error = e
BY DEF Writers

LEMMA LenNat == ASSUME NEW S, NEW s \in Seq(S) PROVE Len(s) \in Nat
OBVIOUS

LEMMA Joined ==
  ASSUME NEW s \in Seq(Byte), NEW t \in Seq(Byte)
  PROVE  s \o t \in Seq(Byte) /\ Len(s \o t) = Len(s) + Len(t)
OBVIOUS

-----------------------------------------------------------------------------
(* What the parts of a call do *)

LEMMA AlignedRoom ==
  ASSUME NEW w, Sound(w), NEW a \in {0} \cup Alignments, NEW n \in Nat
  PROVE  Roomy(Aligned(w, a, n), n)
<1> DEFINE pad == IF a = 0 THEN 0 ELSE Padding(Len(w.data) - w.origin, a)
<1>1. w.data \in Seq(Byte) /\ w.origin \in Nat /\ w.capacity \in Nat /\ Len(w.data) \in Nat
  BY Fields DEF Sound
<1>2. pad \in Nat
  BY <1>1, PaddingNat
<1>3. CASE w.error # ""
  BY <1>3 DEF Aligned, Roomy
<1>4. CASE w.error = ""
  <2> DEFINE room == Grown(w.capacity, Len(w.data) + pad + n)
             bytes == w.data \o Zeros(pad)
  <2> HIDE DEF pad
  <2>1. room \in Nat /\ room >= Len(w.data) + pad + n
    <3>1. Len(w.data) + pad + n \in Nat
      BY <1>1, <1>2
    <3> QED
      BY ONLY <1>1, <3>1, GrownRoom
  <2>2. bytes \in Seq(Byte) /\ Len(bytes) = Len(w.data) + pad
    BY <1>1, <1>2, ZerosType, Joined
  <2> HIDE DEF room, bytes
  <2>3. Aligned(w, a, n) = [w EXCEPT !.capacity = room, !.data = bytes]
    BY <1>4 DEF Aligned, pad, room, bytes
  <2> QED
    <3>1. w \in Writers /\ w.error # "no room"
      BY DEF Sound
    <3> DEFINE u == Aligned(w, a, n)
    <3>2. u \in Writers /\ u.capacity = room /\ u.data = bytes /\ u.error = w.error
      <4>1. room \in Nat /\ bytes \in Seq(Byte)
        BY <2>1, <2>2
      <4>2. u = [w EXCEPT !.capacity = room, !.data = bytes]
        BY <2>3
      <4> HIDE DEF u
      <4> QED
        BY ONLY <3>1, <4>1, <4>2 DEF Writers
    <3>3. Len(bytes) + n <= room /\ Len(bytes) <= room
      BY <1>1, <1>2, <2>1, <2>2
    <3> HIDE DEF u
    <3>4. Roomy(u, n)
      BY <3>1, <3>2, <3>3 DEF Roomy, Sound
    <3> QED
      BY <3>4 DEF u
<1> QED
  BY <1>3, <1>4

LEMMA PutSound ==
  ASSUME NEW bytes \in Seq(Byte), NEW w, Roomy(w, Len(bytes))
  PROVE  Sound(Put(w, bytes))
<1>1. CASE w.error # ""
  BY <1>1 DEF Put, Roomy
<1>2. CASE w.error = ""
  <2>1. w \in Writers /\ Len(w.data) + Len(bytes) <= w.capacity
    BY <1>2 DEF Roomy, Sound
  <2>2. w.data \o bytes \in Seq(Byte) /\ Len(w.data \o bytes) = Len(w.data) + Len(bytes)
    BY <2>1, Fields, Joined
  <2>3. w.capacity \in Nat /\ Len(w.data) \in Nat /\ Len(bytes) \in Nat
    BY <2>1, Fields
  <2>4. Put(w, bytes) = [w EXCEPT !.data = w.data \o bytes]
    <3>1. ~(Len(w.data) + Len(bytes) > w.capacity)
      BY <2>1, <2>3
    <3> QED
      BY <1>2, <3>1, Zenon DEF Put
  <2>5. Put(w, bytes) \in Writers /\ Put(w, bytes).data = w.data \o bytes
         /\ Put(w, bytes).capacity = w.capacity /\ Put(w, bytes).error = w.error
    BY <2>1, <2>2, <2>4 DEF Writers
  <2> QED
    BY <1>2, <2>1, <2>2, <2>5 DEF Sound
<1> QED
  BY <1>1, <1>2

LEMMA RaisedSound ==
  ASSUME NEW w, Sound(w), NEW e \in {"ValueError", "struct.error"}
  PROVE  Sound(Raised(w, e))
<1>1. e \in Errors /\ e # "no room"
  BY DEF Errors
<1> QED
  BY <1>1, Marked DEF Raised, Sound

LEMMA AlignmentType == ASSUME NEW n \in Alignments PROVE AlignmentOf(n) \in Alignments
BY DEF AlignmentOf, Alignments

LEMMA NumberSound ==
  ASSUME NEW w, Sound(w), NEW n \in Alignments, NEW order \in Orders, NEW v \in Seq(Nat)
  PROVE  Sound(Number(w, n, order, v))
<1> DEFINE u == Aligned(w, AlignmentOf(n), n)
<1>1. n \in Nat
  BY DEF Alignments
<1>2. Roomy(u, n)
  BY <1>1, AlignmentType, AlignedRoom
<1>3. Sound(u)
  BY <1>2 DEF Roomy
<1>4. Sound(Put(u, Encoded(v, n, order)))
  BY <1>1, <1>2, EncodedType, PutSound
<1>5. Sound(Raised(u, "struct.error"))
  BY <1>3, RaisedSound
<1> QED
  BY <1>4, <1>5 DEF Number

LEMMA OrderType == Order(kind) \in Orders
BY DEF Order, Orders

LEMMA Uint32Sound == ASSUME NEW w, Sound(w), NEW x \in Nat PROVE Sound(Uint32(w, x))
<1>1. <<x>> \in Seq(Nat) /\ 4 \in Alignments
  BY DEF Alignments
<1> QED
  BY <1>1, NumberSound, OrderType DEF Uint32

LEMMA Uint16Sound == ASSUME NEW w, Sound(w), NEW v \in Seq(Nat) PROVE Sound(Uint16(w, v))
<1>1. 2 \in Alignments
  BY DEF Alignments
<1> QED
  BY <1>1, NumberSound, OrderType DEF Uint16

LEMMA WriterSound == ASSUME RoomInv PROVE Sound(Writer)
<1>1. /\ capacity \in Nat /\ data \in Seq(Byte) /\ origin \in Nat
      /\ Len(data) <= capacity
  BY DEF RoomInv, TypeOK, RoomSuffices
<1>2. "" \in Errors
  BY DEF Errors
<1>3. /\ Writer \in Writers
      /\ Writer.data = data /\ Writer.capacity = capacity /\ Writer.error = ""
  BY <1>1, <1>2 DEF Writer, Writers
<1> QED
  BY <1>1, <1>3 DEF Sound

LEMMA PrefixedSound ==
  ASSUME RoomInv, NEW given \in BOOLEAN, NEW n \in Nat PROVE Sound(Prefixed(given, n))
BY WriterSound, Uint32Sound DEF Prefixed

-----------------------------------------------------------------------------
(* A call that is made of sound parts keeps the invariant *)

LEMMA BecomesKeeps ==
  ASSUME NEW w, Sound(w), Becomes(w),
         kind' \in Kinds, items' \in [width : {1, 2, 4, 8}, left : Seq(Nat)]
  PROVE  RoomInv'
<1>1. w \in Writers /\ Len(w.data) <= w.capacity /\ w.error # "no room"
  BY DEF Sound
<1>2. /\ capacity' \in Nat /\ data' \in Seq(Byte) /\ origin' \in Nat /\ error' \in Errors
  BY <1>1, Fields DEF Becomes
<1>3. Len(data') <= capacity' /\ error' # "no room"
  BY <1>1 DEF Becomes
<1> QED
  BY <1>2, <1>3 DEF RoomInv, TypeOK, RoomSuffices

\* What a call that leaves kind and items alone has to show.
LEMMA CallKeeps ==
  ASSUME RoomInv, NEW w, Sound(w), Becomes(w), UNCHANGED <<kind, items>>
  PROVE  RoomInv'
<1>1. kind' \in Kinds /\ items' \in [width : {1, 2, 4, 8}, left : Seq(Nat)]
  BY DEF RoomInv, TypeOK
<1> QED
  BY <1>1, BecomesKeeps

LEMMA InitRoom == Init => RoomInv
<1> SUFFICES ASSUME Init PROVE RoomInv
  OBVIOUS
<1>1. kind \in Kinds /\ kind \in Nat
  <2>1. kind \in Kinds
    BY DEF Init
  <2>2. kind \in Codes
    BY <2>1, KindsAssumption
  <2>3. kind \in Nat
    BY <2>2 DEF Codes
  <2> QED
    BY <2>1, <2>3
<1>2. PICK room \in Rooms : capacity = Grown(room, 4)
  BY DEF Init
<1>3. capacity \in Nat /\ capacity >= 4
  BY <1>2, RoomsAssumption, GrownRoom
<1> DEFINE e == Encoded(<<kind>>, 1, "none")
<1>4. e \in Seq(Byte) /\ Len(e) = 1
  <2>1. <<kind>> \in Seq(Nat) /\ "none" \in Orders
    BY <1>1 DEF Orders
  <2> QED
    BY <2>1, EncodedType
<1>5. Zeros(2) \in Seq(Byte) /\ Len(Zeros(2)) = 2
  BY ZerosType
<1>6. <<Zero>> \in Seq(Byte) /\ Len(<<Zero>>) = 1
  BY ZeroType
<1>7. data = <<Zero>> \o e \o Zeros(2)
  BY DEF Init
<1> HIDE DEF e
<1>8. data \in Seq(Byte) /\ Len(data) = 4
  <2>1. <<Zero>> \o e \in Seq(Byte) /\ Len(<<Zero>> \o e) = 2
    BY <1>4, <1>6, Joined
  <2> QED
    BY <1>5, <1>7, <2>1, Joined
<1>9. items \in [width : {1, 2, 4, 8}, left : Seq(Nat)]
  <2>1. items = NoItems
    BY DEF Init
  <2> QED
    BY <2>1 DEF NoItems
<1>10. origin \in Nat /\ error \in Errors /\ error # "no room"
  BY DEF Init, Errors
<1> QED
  BY <1>1, <1>3, <1>8, <1>9, <1>10 DEF RoomInv, TypeOK, RoomSuffices

LEMMA NumberKeeps ==
  ASSUME RoomInv, NEW n \in Alignments, NEW order \in Orders, NEW x \in Nat,
         PutNumber(n, order, x)
  PROVE  RoomInv'
<1>1. <<x>> \in Seq(Nat)
  OBVIOUS
<1>2. Sound(Number(Writer, n, order, <<x>>))
  BY <1>1, WriterSound, NumberSound
<1> QED
  BY <1>2, CallKeeps DEF PutNumber

LEMMA TextKeeps ==
  ASSUME RoomInv, NEW n \in Nat, NEW writeLength \in BOOLEAN, PutText(n, writeLength)
  PROVE  RoomInv'
<1> DEFINE w == Prefixed(writeLength, n + 1)
           bytes == Text(n) \o <<Zero>>
<1>1. Sound(w)
  BY PrefixedSound, LenNat
<1>2. bytes \in Seq(Byte) /\ Len(bytes) = n + 1
  <2>1. <<Zero>> \in Seq(Byte) /\ Len(<<Zero>>) = 1
    BY ZeroType
  <2> QED
    BY <2>1, TextType, Joined
<1>3. Becomes(Put(Aligned(w, 0, n + 1), bytes)) /\ UNCHANGED <<kind, items>>
  BY DEF PutText
<1> HIDE DEF w, bytes
<1>4. Roomy(Aligned(w, 0, n + 1), n + 1)
  BY <1>1, AlignedRoom
<1>5. Sound(Put(Aligned(w, 0, n + 1), bytes))
  BY <1>2, <1>4, PutSound
<1> QED
  BY <1>3, <1>5, CallKeeps

LEMMA BulkKeeps ==
  ASSUME RoomInv, NEW n \in Alignments, NEW xs \in Seq(Nat), NEW writeLength \in BOOLEAN,
         PutBulk(n, xs, writeLength)
  PROVE  RoomInv'
<1> DEFINE w == Prefixed(writeLength, Len(xs))
           bytes == Packed(xs, n, Order(kind))
           u == Aligned(w, AlignmentOf(n), n * Len(xs))
<1>1. Sound(w)
  BY PrefixedSound, LenNat
<1>2. bytes \in Seq(Byte) /\ Len(bytes) = n * Len(xs)
  BY PackedType, OrderType
<1>3. Becomes(Put(u, bytes)) /\ UNCHANGED <<kind, items>>
  BY DEF PutBulk
<1>4. n * Len(xs) \in Nat
  BY DEF Alignments
<1> HIDE DEF w, bytes
<1>5. Roomy(u, n * Len(xs))
  BY <1>1, <1>4, AlignmentType, AlignedRoom
<1> HIDE DEF u
<1>6. Sound(Put(u, bytes))
  BY <1>2, <1>5, PutSound
<1> QED
  BY <1>3, <1>6, CallKeeps

LEMMA EachKeeps ==
  ASSUME RoomInv, NEW n \in Alignments, NEW xs \in Seq(Nat), NEW writeLength \in BOOLEAN,
         PutEach(n, xs, writeLength)
  PROVE  RoomInv'
<1> DEFINE w == Prefixed(writeLength, Len(xs))
<1>1. Sound(w)
  BY PrefixedSound, LenNat
<1>2. Becomes(w) /\ items' = IF w.error = "" THEN [width |-> n, left |-> xs] ELSE NoItems
  BY DEF PutEach
<1>3. kind' \in Kinds
  BY DEF PutEach, RoomInv, TypeOK
<1>4. items' \in [width : {1, 2, 4, 8}, left : Seq(Nat)]
  <2>1. /\ [width |-> n, left |-> xs] \in [width : {1, 2, 4, 8}, left : Seq(Nat)]
        /\ NoItems \in [width : {1, 2, 4, 8}, left : Seq(Nat)]
    BY DEF Alignments, NoItems
  <2> HIDE DEF w
  <2> QED
    BY <1>2, <2>1
<1> HIDE DEF w
<1> QED
  BY <1>1, <1>2, <1>3, <1>4, BecomesKeeps

LEMMA ItemKeeps == ASSUME RoomInv, PutItem PROVE RoomInv'
<1>1. items \in [width : {1, 2, 4, 8}, left : Seq(Nat)]
  BY DEF RoomInv, TypeOK
<1>2. items.width \in Alignments /\ items.left \in Seq(Nat)
  BY <1>1 DEF Alignments
<1>3. items.left # <<>>
  BY DEF PutItem, Idle
<1>4. Head(items.left) \in Nat /\ Tail(items.left) \in Seq(Nat)
  BY <1>2, <1>3
<1>5. <<Head(items.left)>> \in Seq(Nat)
  BY <1>4
<1> DEFINE w == Number(Writer, items.width, Order(kind), <<Head(items.left)>>)
<1>6. Sound(w)
  BY <1>2, <1>5, WriterSound, NumberSound, OrderType
<1>7. Becomes(w) /\ kind' = kind
  BY DEF PutItem
<1>8. items' \in [width : {1, 2, 4, 8}, left : Seq(Nat)]
  <2>1. [items EXCEPT !.left = Tail(@)] \in [width : {1, 2, 4, 8}, left : Seq(Nat)]
    BY <1>1, <1>4
  <2>2. NoItems \in [width : {1, 2, 4, 8}, left : Seq(Nat)]
    BY DEF NoItems
  <2>3. items' = [items EXCEPT !.left = Tail(@)] \/ items' = NoItems
    BY DEF PutItem
  <2> QED
    BY <2>1, <2>2, <2>3
<1>9. kind' \in Kinds
  BY <1>7 DEF RoomInv, TypeOK
<1> HIDE DEF w
<1> QED
  BY <1>6, <1>7, <1>8, <1>9, BecomesKeeps

LEMMA HeaderV1Sound ==
  ASSUME RoomInv, NEW must \in {0, 1}, NEW id \in Nat, NEW size \in Nat
  PROVE  Sound(HeaderV1(must, id, size))
<1> DEFINE w == Aligned(Writer, 4, 4)
           short == Uint16(Uint16(w, <<must, id>>), <<size>>)
           long == Uint32(Uint32(Uint16(Uint16(w, <<must, ExtendedPid>>), <<8>>), id), size)
           all == IF Extended(id, size) THEN long ELSE short
<1>1. Sound(w)
  <2>1. 4 \in {0} \cup Alignments
    BY DEF Alignments
  <2> QED
    BY <2>1, WriterSound, AlignedRoom DEF Roomy
<1>2. /\ <<must, id>> \in Seq(Nat) /\ <<size>> \in Seq(Nat)
      /\ <<must, ExtendedPid>> \in Seq(Nat) /\ <<8>> \in Seq(Nat)
  BY DEF ExtendedPid
<1> HIDE DEF w
<1>3. Sound(short)
  BY <1>1, <1>2, Uint16Sound
<1>4. Sound(Uint16(Uint16(w, <<must, ExtendedPid>>), <<8>>))
  BY <1>1, <1>2, Uint16Sound
<1>5. Sound(long)
  BY <1>4, Uint32Sound
<1>6. Sound(all)
  BY <1>3, <1>5
<1>7. HeaderV1(must, id, size)
        = IF all.error # "" THEN all ELSE [all EXCEPT !.origin = Len(all.data)]
  BY DEF HeaderV1, w
<1> HIDE DEF all
<1>8. Sound([all EXCEPT !.origin = Len(all.data)])
  <2>1. all \in Writers /\ Len(all.data) \in Nat
    BY <1>6, Fields DEF Sound
  <2> DEFINE u == [all EXCEPT !.origin = Len(all.data)]
  <2>2. u \in Writers /\ u.capacity = all.capacity /\ u.data = all.data /\ u.error = all.error
    BY <2>1 DEF Writers
  <2> HIDE DEF u
  <2>3. Sound(u)
    BY <1>6, <2>2 DEF Sound
  <2> QED
    BY <2>3 DEF u
<1> QED
  BY <1>6, <1>7, <1>8

\* A code below four says the size.
LEMMA CodeType ==
  ASSUME NEW size \in Nat
  PROVE  /\ CodeOf(size) \in 0..4
         /\ CodeOf(size) <= 3 => FixedSizes[CodeOf(size) + 1] = size
<1>1. CASE \E c \in 0..3 : FixedSizes[c + 1] = size
  <2> DEFINE P(c) == FixedSizes[c + 1] = size
  <2>1. \E c \in 0..3 : P(c)
    BY <1>1
  <2> DEFINE m == CHOOSE c \in 0..3 : P(c)
  <2>2. CodeOf(size) = m
    BY <1>1 DEF CodeOf
  <2> HIDE DEF P
  <2>3. m \in 0..3 /\ P(m)
    BY <2>1
  <2> HIDE DEF m
  <2> QED
    BY <2>2, <2>3 DEF P
<1>2. CASE ~(\E c \in 0..3 : FixedSizes[c + 1] = size)
  BY <1>2 DEF CodeOf
<1> QED
  BY <1>1, <1>2

LEMMA HeaderV2Sound ==
  ASSUME RoomInv, NEW must \in {0, 1}, NEW id \in Nat, NEW size \in Nat, NEW code \in -1..7
  PROVE  Sound(HeaderV2(must, id, size, code))
<1> DEFINE c == IF code = NoCode THEN CodeOf(size) ELSE code
           w == Number(Writer, 4, Order(kind), <<must, c, id>>)
           unit == CASE c = 6 -> 4 [] c = 7 -> 8 [] OTHER -> 1
<1>1. c \in Nat
  BY CodeType DEF NoCode
<1>2. unit \in {1, 4, 8}
  OBVIOUS
<1> HIDE DEF c, unit
<1>3. Sound(w)
  <2>1. <<must, c, id>> \in Seq(Nat) /\ 4 \in Alignments
    BY <1>1 DEF Alignments
  <2> QED
    BY <2>1, WriterSound, NumberSound, OrderType
<1> HIDE DEF w
<1>4. size \div unit \in Nat
  BY <1>2
<1>5. /\ Sound(Raised(Writer, "ValueError")) /\ Sound(Raised(w, "ValueError"))
      /\ Sound(Uint32(w, size \div unit))
  BY <1>3, <1>4, WriterSound, RaisedSound, Uint32Sound
<1>6. \/ HeaderV2(must, id, size, code) = Raised(Writer, "ValueError")
      \/ HeaderV2(must, id, size, code) = w
      \/ HeaderV2(must, id, size, code) = Raised(w, "ValueError")
      \/ HeaderV2(must, id, size, code) = Uint32(w, size \div unit)
  BY DEF HeaderV2, c, w, unit
<1> QED
  BY <1>3, <1>5, <1>6

LEMMA MemberKeeps ==
  ASSUME RoomInv, NEW must \in {0, 1}, NEW id \in Nat, NEW size \in Nat, NEW code \in -1..7,
         PutMember(must, id, size, code)
  PROVE  RoomInv'
<1> DEFINE w == IF Cdr2(kind) THEN HeaderV2(must, id, size, code) ELSE HeaderV1(must, id, size)
<1>1. Sound(w)
  BY HeaderV1Sound, HeaderV2Sound
<1>2. Becomes(w) /\ UNCHANGED <<kind, items>>
  BY DEF PutMember
<1> HIDE DEF w
<1> QED
  BY <1>1, <1>2, CallKeeps

LEMMA SentinelKeeps == ASSUME RoomInv, PutSentinel PROVE RoomInv'
<1> DEFINE u == Aligned(Writer, 4, 4)
           w == IF Cdr2(kind) THEN Writer ELSE Uint16(Uint16(u, <<0, SentinelPid>>), <<0>>)
<1>1. Sound(u)
  <2>1. 4 \in {0} \cup Alignments
    BY DEF Alignments
  <2> QED
    BY <2>1, WriterSound, AlignedRoom DEF Roomy
<1>2. <<0, SentinelPid>> \in Seq(Nat) /\ <<0>> \in Seq(Nat)
  BY DEF SentinelPid
<1> HIDE DEF u
<1>3. Sound(w)
  BY <1>1, <1>2, WriterSound, Uint16Sound
<1>4. Becomes(w) /\ UNCHANGED <<kind, items>>
  BY DEF PutSentinel, u
<1> HIDE DEF w
<1> QED
  BY <1>3, <1>4, CallKeeps

LEMMA AlignKeeps ==
  ASSUME RoomInv, NEW a \in {0} \cup Alignments, PutAlign(a) PROVE RoomInv'
<1> DEFINE w == Aligned(Writer, a, a)
<1>1. a \in Nat
  BY DEF Alignments
<1>2. Sound(w)
  BY <1>1, WriterSound, AlignedRoom DEF Roomy
<1>3. Becomes(w) /\ UNCHANGED <<kind, items>>
  BY DEF PutAlign
<1> HIDE DEF w
<1> QED
  BY <1>2, <1>3, CallKeeps

LEMMA OriginKeeps == ASSUME RoomInv, ResetOrigin PROVE RoomInv'
<1>1. /\ kind \in Kinds /\ capacity \in Nat /\ data \in Seq(Byte)
      /\ items \in [width : {1, 2, 4, 8}, left : Seq(Nat)] /\ Len(data) <= capacity
  BY DEF RoomInv, TypeOK, RoomSuffices
<1>2. origin' \in Nat /\ error' = "" /\ UNCHANGED <<kind, capacity, data, items>>
  <2>1. origin' = Len(data) /\ error' = "" /\ UNCHANGED <<kind, capacity, data, items>>
    BY DEF ResetOrigin
  <2>2. Len(data) \in Nat
    BY <1>1
  <2> QED
    BY <2>1, <2>2
<1>3. error' \in Errors /\ error' # "no room"
  BY <1>2 DEF Errors
<1> QED
  BY <1>1, <1>2, <1>3 DEF RoomInv, TypeOK, RoomSuffices

LEMMA WriteKeeps == ASSUME RoomInv, Write PROVE RoomInv'
<1>1. CASE WriteNumber
  <2>1. PICK n \in Widths, x \in Numbers :
          \E order \in {Order(kind)} \cup IF n = 1 THEN {} ELSE {"big"} : PutNumber(n, order, x)
    BY <1>1 DEF WriteNumber
  <2>2. PICK order \in Orders : PutNumber(n, order, x)
    BY <2>1, OrderType DEF Orders
  <2> QED
    BY <2>2, NumberKeeps, WidthsAssumption, NumbersAssumption
<1>2. CASE WriteText
  BY <1>2, TextKeeps, TextsAssumption DEF WriteText
<1>3. CASE WriteBulk
  BY <1>3, BulkKeeps, WidthsAssumption, ArraysAssumption DEF WriteBulk
<1>4. CASE WriteEach
  BY <1>4, EachKeeps, WidthsAssumption, ArraysAssumption DEF WriteEach
<1>5. CASE WriteItem
  BY <1>5, ItemKeeps DEF WriteItem
<1>6. CASE WriteMember
  <2>1. PICK m \in Members : PutMember(m.must, m.id, m.size, m.code)
    BY <1>6 DEF WriteMember
  <2>2. m.must \in {0, 1} /\ m.id \in Nat /\ m.size \in Nat /\ m.code \in -1..7
    BY MembersAssumption
  <2> QED
    BY <2>1, <2>2, MemberKeeps
<1>7. CASE WriteSentinel
  BY <1>7, SentinelKeeps DEF WriteSentinel
<1>8. CASE WriteAlign
  BY <1>8, AlignKeeps, AlignSizesAssumption DEF WriteAlign
<1>9. CASE WriteOrigin
  BY <1>9, OriginKeeps DEF WriteOrigin
<1> QED
  BY <1>1, <1>2, <1>3, <1>4, <1>5, <1>6, <1>7, <1>8, <1>9 DEF Write

\* No reader touches the writer's state.
LEMMA OthersKeep ==
  ASSUME RoomInv, Open \/ ReadStep \/ Clone \/ UNCHANGED vars PROVE RoomInv'
<1>1. UNCHANGED writerVars
  BY DEF Open, ReadStep, Read, Limit, SeekBack, Clone, vars
<1> QED
  BY <1>1 DEF writerVars, RoomInv, TypeOK, RoomSuffices

\* Whatever kind of stream, buffer, numbers and calls: struct.pack_into and the
\* slice assignments of writer.py never run past the end of the buffer, because
\* _resize_if_needed counts the padding that align is about to write.
THEOREM RoomHolds == Spec => []RoomSuffices
<1>1. StreamInit => RoomInv
  BY InitRoom DEF StreamInit
<1>2. RoomInv /\ [Next]_vars => RoomInv'
  BY WriteKeeps, OthersKeep DEF Next
<1>3. RoomInv => RoomSuffices
  BY DEF RoomInv
<1> QED
  BY <1>1, <1>2, <1>3, PTL DEF Spec

-----------------------------------------------------------------------------
(* Types and layout *)

\* The calls that are logged.
Calls ==
  [op : {"number"}, width : Alignments, order : Orders, values : Seq(Seq(Nat)), end : Nat]
  \cup [op : {"text"}, width : Nat, length : BOOLEAN, end : Nat]
  \cup [op : {"array"}, how : {"bulk", "each"}, width : Alignments, length : BOOLEAN,
        values : Seq(Seq(Nat)), end : Nat]
  \cup [op : {"member", "sentinel", "align", "origin"}, width : {0} \cup Alignments,
        values : Seq(Seq(Nat)), end : Nat]

\* A reader of size bytes.
Reader(r, size) ==
  /\ r \in [limit : 4..size, offset : Nat, origin : Nat, got : {r.got}, error : {r.error}]
  /\ 4 <= r.offset

Starts == Seq([offset : Nat, origin : Nat])

\* What the types of a stream rest on: of an array that is being written the call
\* is the last in the log, and nobody reads before it is complete.
WriterInv ==
  /\ RoomInv
  /\ 4 <= Len(data)
  /\ written \in Seq(Calls)
  /\ ~Idle => written # <<>> /\ written[Len(written)].op = "array" /\ ~Reading

ReaderInv(name) ==
  /\ Reader(readers[name], Len(data))
  /\ next[name] \in 1..(Len(written) + 1)
  /\ starts[name] \in Starts /\ Len(starts[name]) <= Len(written)
  /\ name \in inStep => Len(starts[name]) >= next[name] - 1

StreamInv ==
  /\ WriterInv
  /\ DOMAIN readers \subseteq Names
  /\ DOMAIN next = DOMAIN readers /\ DOMAIN starts = DOMAIN readers
  /\ inStep \subseteq DOMAIN readers
  /\ \A name \in DOMAIN readers : ReaderInv(name)

-----------------------------------------------------------------------------
(* The log *)

LEMMA Appended ==
  ASSUME NEW S, NEW log \in Seq(S), NEW c \in S
  PROVE  /\ Append(log, c) \in Seq(S) /\ Len(Append(log, c)) = Len(log) + 1
         /\ Append(log, c)[Len(log) + 1] = c
         /\ \A i \in 1..Len(log) : Append(log, c)[i] = log[i]
OBVIOUS

\* What the types say of the lengths.
LEMMA Lengths ==
  ASSUME RoomInv, written \in Seq(Calls)
  PROVE  Len(data) \in Nat /\ Len(written) \in Nat /\ kind \in Nat
<1>1. data \in Seq(Byte) /\ kind \in Kinds
  BY DEF RoomInv, TypeOK
<1>2. kind \in Nat
  BY <1>1, KindsAssumption DEF Codes
<1> QED
  BY <1>1, <1>2, LenNat

-----------------------------------------------------------------------------
(* Where a call leaves its bytes *)

\* Where something aligned to n starts, at s or behind, under the origin o.
Place(s, o, n) == IF n = 0 THEN s ELSE s + Padding(s - o, n)

\* AlignmentOf, for any kind.
UnitOf(k, n) == IF n = 8 /\ Cdr2(k) THEN 4 ELSE n

Grows(d, e) == Len(d) <= Len(e) /\ \A k \in 1..Len(d) : e[k] = d[k]

Holds(d, p, bytes) ==
  p + Len(bytes) <= Len(d) /\ \A k \in 1..Len(bytes) : d[p + k] = bytes[k]

\* A number that ends at e.
NumberAt(k, d, s, o, n, order, v, e) ==
  LET p == Place(s, o, UnitOf(k, n))
  IN  e = p + n /\ Holds(d, p, Encoded(v, n, order))

\* Where the parts of a call go when it has got to w, and on to u.
Extends(w, u) ==
  /\ Grows(w.data, u.data)
  /\ u.origin = w.origin
  /\ u.error = "" => w.error = ""

LEMMA WidthNat == ASSUME NEW n \in Alignments PROVE n \in Nat /\ 1 <= n
BY DEF Alignments

LEMMA PlaceNat ==
  ASSUME NEW s \in Nat, NEW o \in Nat, NEW n \in Alignments
  PROVE  Place(s, o, n) \in Nat /\ s <= Place(s, o, n) /\ Place(s, o, n) < s + n
BY DEF Place, Padding, Alignments

LEMMA UnitType ==
  ASSUME NEW k, NEW n \in Alignments
  PROVE  UnitOf(k, n) \in Alignments /\ AlignmentOf(n) = UnitOf(kind, n)
BY DEF UnitOf, AlignmentOf, Alignments

LEMMA GrowsTransitive ==
  ASSUME NEW c \in Seq(Byte), NEW d \in Seq(Byte), NEW e \in Seq(Byte), Grows(c, d), Grows(d, e)
  PROVE  Grows(c, e)
<1>1. Len(c) \in Nat /\ Len(d) \in Nat /\ Len(e) \in Nat
  BY LenNat
<1> QED
  BY <1>1 DEF Grows

LEMMA HoldsGrows ==
  ASSUME NEW d \in Seq(Byte), NEW e \in Seq(Byte), NEW p \in Nat, NEW bytes \in Seq(Byte),
         Holds(d, p, bytes), Grows(d, e)
  PROVE  Holds(e, p, bytes)
<1>1. Len(d) \in Nat /\ Len(e) \in Nat /\ Len(bytes) \in Nat
  BY LenNat
<1>2. \A k \in 1..Len(bytes) : p + k \in 1..Len(d)
  BY <1>1 DEF Holds
<1> QED
  BY <1>1, <1>2 DEF Grows, Holds

LEMMA JoinedLaid ==
  ASSUME NEW d \in Seq(Byte), NEW bytes \in Seq(Byte)
  PROVE  /\ Grows(d, d \o bytes) /\ Holds(d \o bytes, Len(d), bytes)
         /\ Len(d \o bytes) = Len(d) + Len(bytes)
<1>1. Len(d) \in Nat /\ Len(bytes) \in Nat /\ Len(d \o bytes) = Len(d) + Len(bytes)
  BY LenNat
<1>2. \A k \in 1..Len(d) : (d \o bytes)[k] = d[k]
  BY <1>1
<1>3. \A k \in 1..Len(bytes) : (d \o bytes)[Len(d) + k] = bytes[k]
  BY <1>1
<1> QED
  BY <1>1, <1>2, <1>3 DEF Grows, Holds

LEMMA GrowsSelf == ASSUME NEW d \in Seq(Byte) PROVE Grows(d, d)
BY LenNat DEF Grows

LEMMA ExtendsSelf == ASSUME NEW w, Sound(w) PROVE Extends(w, w)
<1>1. w.data \in Seq(Byte)
  BY Fields DEF Sound
<1> QED
  BY <1>1, GrowsSelf DEF Extends

LEMMA ExtendsTransitive ==
  ASSUME NEW w, NEW u, NEW x, Sound(w), Sound(u), Sound(x), Extends(w, u), Extends(u, x)
  PROVE  Extends(w, x)
<1>1. w.data \in Seq(Byte) /\ u.data \in Seq(Byte) /\ x.data \in Seq(Byte)
  BY Fields DEF Sound
<1> QED
  BY <1>1, GrowsTransitive DEF Extends

LEMMA AlignedLaid ==
  ASSUME NEW w, Sound(w), NEW a \in {0} \cup Alignments, NEW n \in Nat
  PROVE  LET u == Aligned(w, a, n)
         IN  /\ Extends(w, u) /\ u.error = w.error
             /\ w.error = "" => Len(u.data) = Place(Len(w.data), w.origin, a)
<1> DEFINE u == Aligned(w, a, n)
           pad == IF a = 0 THEN 0 ELSE Padding(Len(w.data) - w.origin, a)
           bytes == w.data \o Zeros(pad)
<1>1. w.data \in Seq(Byte) /\ w.origin \in Nat /\ w.capacity \in Nat /\ Len(w.data) \in Nat
  BY Fields DEF Sound
<1>2. pad \in Nat
  BY <1>1, PaddingNat
<1>3. CASE w.error # ""
  BY <1>3, ExtendsSelf DEF Aligned
<1>4. CASE w.error = ""
  <2> HIDE DEF pad
  <2>1. Grows(w.data, bytes) /\ Len(bytes) = Len(w.data) + pad
    BY <1>1, <1>2, ZerosType, JoinedLaid
  <2>2. u = [w EXCEPT !.capacity = Grown(w.capacity, Len(w.data) + pad + n), !.data = bytes]
    BY <1>4 DEF Aligned, pad
  <2>3. w \in Writers
    BY DEF Sound
  <2> HIDE DEF bytes, u
  <2>4. u.data = bytes /\ u.origin = w.origin /\ u.error = w.error
    BY ONLY <2>2, <2>3 DEF Writers
  <2>5. Len(bytes) = Place(Len(w.data), w.origin, a)
    BY <1>1, <2>1 DEF pad, Place
  <2> QED
    BY <1>4, <2>1, <2>4, <2>5 DEF Extends, u
<1> QED
  BY <1>3, <1>4

LEMMA PutLaid ==
  ASSUME NEW bytes \in Seq(Byte), NEW w, Roomy(w, Len(bytes))
  PROVE  LET u == Put(w, bytes)
         IN  /\ Extends(w, u)
             /\ u.error = "" =>
                  Holds(u.data, Len(w.data), bytes) /\ Len(u.data) = Len(w.data) + Len(bytes)
<1>1. Sound(w)
  BY DEF Roomy
<1>2. w \in Writers /\ w.data \in Seq(Byte) /\ Len(w.data) \in Nat /\ w.capacity \in Nat
  BY <1>1, Fields DEF Sound
<1>3. CASE w.error # ""
  BY <1>1, <1>3, ExtendsSelf DEF Put
<1>4. CASE w.error = ""
  <2>1. ~(Len(w.data) + Len(bytes) > w.capacity)
    <3>1. Len(w.data) + Len(bytes) <= w.capacity
      BY <1>4 DEF Roomy
    <3>2. Len(bytes) \in Nat
      BY LenNat
    <3> QED
      BY ONLY <1>2, <3>1, <3>2
  <2>2. Put(w, bytes) = [w EXCEPT !.data = w.data \o bytes]
    BY <1>4, <2>1, Zenon DEF Put
  <2>3. /\ Put(w, bytes).data = w.data \o bytes /\ Put(w, bytes).origin = w.origin
        /\ Put(w, bytes).error = w.error
    BY ONLY <1>2, <2>2 DEF Writers
  <2> QED
    BY <1>2, <1>4, <2>3, JoinedLaid DEF Extends
<1> QED
  BY <1>3, <1>4

LEMMA RaisedLaid ==
  ASSUME NEW w, Sound(w), NEW e \in {"ValueError", "struct.error"}
  PROVE  Extends(w, Raised(w, e)) /\ Raised(w, e).error # ""
<1>1. CASE w.error # ""
  BY <1>1, ExtendsSelf DEF Raised
<1>2. CASE w.error = ""
  <2>1. w \in Writers /\ e \in Errors /\ e # ""
    BY DEF Sound, Errors
  <2>2. Raised(w, e) = [w EXCEPT !.error = e]
    BY <1>2 DEF Raised
  <2>3. Raised(w, e).data = w.data /\ Raised(w, e).origin = w.origin /\ Raised(w, e).error = e
    BY ONLY <2>1, <2>2 DEF Writers
  <2> QED
    BY <1>2, <2>1, <2>3, ExtendsSelf DEF Extends
<1> QED
  BY <1>1, <1>2

\* A number goes to the first place behind what there is that suits it.
LEMMA NumberLaid ==
  ASSUME NEW w, Sound(w), NEW n \in Alignments, NEW order \in Orders, NEW v \in Seq(Nat)
  PROVE  LET u == Number(w, n, order, v)
         IN  /\ Sound(u) /\ Extends(w, u)
             /\ u.error = "" =>
                  /\ NumberAt(kind, u.data, Len(w.data), w.origin, n, order, v, Len(u.data))
                  /\ InRange(v[1], n)
<1> DEFINE x == Aligned(w, AlignmentOf(n), n)
           bytes == Encoded(v, n, order)
           u == Number(w, n, order, v)
<1>1. n \in Nat /\ AlignmentOf(n) \in Alignments
  BY AlignmentType DEF Alignments
<1>2. /\ Extends(w, x) /\ x.error = w.error
      /\ w.error = "" => Len(x.data) = Place(Len(w.data), w.origin, AlignmentOf(n))
  BY <1>1, AlignedLaid
<1>3. bytes \in Seq(Byte) /\ Len(bytes) = n
  BY <1>1, EncodedType
<1>4. Roomy(x, n) /\ Sound(x)
  BY <1>1, AlignedRoom DEF Roomy
<1>5. Sound(u)
  BY NumberSound
<1>6. u = IF InRange(v[1], n) THEN Put(x, bytes) ELSE Raised(x, "struct.error")
  BY DEF Number
<1> HIDE DEF x, bytes, u
<1>7. CASE ~InRange(v[1], n)
  <2>1. Extends(x, u) /\ u.error # ""
    BY <1>4, <1>6, <1>7, RaisedLaid
  <2> QED
    BY <1>2, <1>4, <1>5, <2>1, ExtendsTransitive DEF u
<1>8. CASE InRange(v[1], n)
  <2>1. /\ Extends(x, u)
        /\ u.error = "" => Holds(u.data, Len(x.data), bytes) /\ Len(u.data) = Len(x.data) + n
    BY <1>3, <1>4, <1>6, <1>8, PutLaid
  <2>2. Extends(w, u)
    BY <1>2, <1>4, <1>5, <2>1, ExtendsTransitive
  <2>3. u.error = "" => NumberAt(kind, u.data, Len(w.data), w.origin, n, order, v, Len(u.data))
    BY <1>2, <2>1, UnitType DEF NumberAt, Extends, bytes
  <2> QED
    BY <1>5, <1>8, <2>2, <2>3 DEF u
<1> QED
  BY <1>7, <1>8

-----------------------------------------------------------------------------
(* What each call leaves, from s on under the origin o *)

LengthAt(k, d, s, o, given, n, q) ==
  IF given THEN NumberAt(k, d, s, o, 4, Order(k), <<n>>, q) ELSE q = s

TextAt(k, d, s, o, c) ==
  \E q \in Nat :
    /\ LengthAt(k, d, s, o, c.length, c.width + 1, q)
    /\ c.end = q + c.width + 1
    /\ Holds(d, q, Text(c.width))

\* The first m of the items vs, of n bytes each, end at e.
ItemsAt(k, d, q, o, n, vs, m, e) ==
  LET p == Place(q, o, UnitOf(k, n))
  IN  IF m = 0 THEN e = q
      ELSE /\ e = p + n * m
           /\ \A j \in 1..m : Holds(d, p + n * (j - 1), Encoded(vs[j], n, Order(k)))

\* An array but for the items that are left, the last of its values.
ArrayAt(k, d, s, o, c, left) ==
  \E q \in Nat, m \in 0..Len(c.values) :
    /\ LengthAt(k, d, s, o, c.length, Len(c.values), q)
    /\ ItemsAt(k, d, q, o, c.width, c.values, m, c.end)
    /\ m + Len(left) = Len(c.values)
    /\ \A j \in 1..Len(left) : c.values[m + j] = <<left[j]>>

ShortAt(k, d, s, o, must, id, size, e) ==
  \E q \in Nat :
    /\ NumberAt(k, d, Place(s, o, 4), o, 2, Order(k), <<must, id>>, q)
    /\ NumberAt(k, d, q, o, 2, Order(k), <<size>>, e)

ExtendedAt(k, d, s, o, must, id, size, e) ==
  \E q1, q2, q3 \in Nat :
    /\ NumberAt(k, d, Place(s, o, 4), o, 2, Order(k), <<must, ExtendedPid>>, q1)
    /\ NumberAt(k, d, q1, o, 2, Order(k), <<8>>, q2)
    /\ NumberAt(k, d, q2, o, 4, Order(k), <<id>>, q3)
    /\ NumberAt(k, d, q3, o, 4, Order(k), <<size>>, e)

SizeUnit(c) == CASE c = 6 -> 4 [] c = 7 -> 8 [] OTHER -> 1

\* The header of XCDR2 with the length code c.
CodedAt(k, d, s, o, must, id, size, e) ==
  \E c \in 0..7, q \in Nat :
    /\ NumberAt(k, d, s, o, 4, Order(k), <<must, c, id>>, q)
    /\ IF c <= 3 THEN e = q /\ size = FixedSizes[c + 1]
       ELSE /\ size % SizeUnit(c) = 0
            /\ NumberAt(k, d, q, o, 4, Order(k), <<size \div SizeUnit(c)>>, e)

MemberAt(k, d, s, o, must, id, size, e) ==
  IF Cdr2(k) THEN CodedAt(k, d, s, o, must, id, size, e)
  ELSE IF Extended(id, size) THEN ExtendedAt(k, d, s, o, must, id, size, e)
  ELSE ShortAt(k, d, s, o, must, id, size, e)

SentinelAt(k, d, s, o, e) ==
  IF Cdr2(k) THEN e = s ELSE ShortAt(k, d, s, o, 0, SentinelPid, 0, e)

\* The call c and the bytes it left; an array may have items left to write.
Laid(k, d, s, o, c, left) ==
  /\ c.end <= Len(d)
  /\ c.op = "number" => \E x \in Nat : /\ c.values = <<<<x>>>>
                                       /\ NumberAt(k, d, s, o, c.width, c.order, <<x>>, c.end)
  /\ c.op = "text" => TextAt(k, d, s, o, c)
  /\ c.op = "array" => ArrayAt(k, d, s, o, c, left)
  /\ c.op = "member" => \E must \in {0, 1}, id \in Nat, size \in Nat :
                          /\ c.values = <<<<must, id, size>>>>
                          /\ MemberAt(k, d, s, o, must, id, size, c.end)
  /\ c.op = "sentinel" => c.values = <<>> /\ SentinelAt(k, d, s, o, c.end)
  /\ c.op = "align" => c.values = <<>> /\ c.end = Place(s, o, c.width)
  /\ c.op = "origin" => c.values = <<>> /\ c.end = s

LEMMA NumberGrows ==
  ASSUME NEW d \in Seq(Byte), NEW e \in Seq(Byte), Grows(d, e), NEW k,
         NEW s \in Nat, NEW o \in Nat, NEW n \in Alignments, NEW order \in Orders,
         NEW v \in Seq(Nat), NEW q, NumberAt(k, d, s, o, n, order, v, q)
  PROVE  NumberAt(k, e, s, o, n, order, v, q) /\ q \in Nat /\ s <= q /\ q <= Len(e)
<1> DEFINE p == Place(s, o, UnitOf(k, n))
           bytes == Encoded(v, n, order)
<1>1. p \in Nat /\ s <= p
  BY UnitType, PlaceNat
<1>2. bytes \in Seq(Byte) /\ Len(bytes) = n /\ n \in Nat
  BY EncodedType DEF Alignments
<1>3. q = p + n /\ Holds(d, p, bytes)
  BY DEF NumberAt
<1> HIDE DEF p, bytes
<1>4. Holds(e, p, bytes)
  BY <1>1, <1>2, <1>3, HoldsGrows
<1>5. q <= Len(e)
  BY <1>2, <1>3, <1>4 DEF Holds
<1>6. NumberAt(k, e, s, o, n, order, v, q)
  BY <1>3, <1>4 DEF NumberAt, p, bytes
<1> QED
  BY <1>1, <1>2, <1>3, <1>5, <1>6

LEMMA ItemsGrow ==
  ASSUME NEW d \in Seq(Byte), NEW e \in Seq(Byte), Grows(d, e), NEW k, NEW q \in Nat, NEW o \in Nat,
         NEW n \in Alignments, NEW vs \in Seq(Seq(Nat)), NEW m \in 0..Len(vs), NEW end,
         Order(k) \in Orders, ItemsAt(k, d, q, o, n, vs, m, end)
  PROVE  ItemsAt(k, e, q, o, n, vs, m, end)
<1> DEFINE p == Place(q, o, UnitOf(k, n))
<1>1. p \in Nat
  BY UnitType, PlaceNat
<1> HIDE DEF p
<1>2. ASSUME m # 0, NEW j \in 1..m PROVE Holds(e, p + n * (j - 1), Encoded(vs[j], n, Order(k)))
  <2>1. Holds(d, p + n * (j - 1), Encoded(vs[j], n, Order(k)))
    BY <1>2 DEF ItemsAt, p
  <2>2. vs[j] \in Seq(Nat) /\ n \in Nat
    BY DEF Alignments
  <2>3. Encoded(vs[j], n, Order(k)) \in Seq(Byte)
    BY <2>2, EncodedType
  <2>4. p + n * (j - 1) \in Nat
    BY <1>1 DEF Alignments
  <2> QED
    BY <2>1, <2>3, <2>4, HoldsGrows
<1> QED
  BY <1>2 DEF ItemsAt, p

LEMMA CallTypes ==
  ASSUME NEW c \in Calls
  PROVE  /\ c.end \in Nat
         /\ c.op \in {"number", "array"} => c.width \in Alignments
         /\ c.op = "number" => c.order \in Orders
         /\ c.op = "text" => c.width \in Nat
         /\ c.op \in {"text", "array"} => c.length \in BOOLEAN
         /\ c.op = "array" => c.values \in Seq(Seq(Nat)) /\ Len(c.values) \in Nat
         /\ c.op = "align" => c.width \in {0} \cup Alignments
BY DEF Calls

LEMMA OrderOf == ASSUME NEW k PROVE Order(k) \in Orders
BY DEF Order, Orders

LEMMA LengthGrows ==
  ASSUME NEW d \in Seq(Byte), NEW e \in Seq(Byte), Grows(d, e), NEW k, NEW s \in Nat, NEW o \in Nat,
         NEW given, NEW n \in Nat, NEW q, LengthAt(k, d, s, o, given, n, q)
  PROVE  LengthAt(k, e, s, o, given, n, q) /\ q \in Nat
<1>1. 4 \in Alignments /\ Order(k) \in Orders /\ <<n>> \in Seq(Nat)
  BY OrderOf DEF Alignments
<1> QED
  BY <1>1, NumberGrows DEF LengthAt

LEMMA ShortGrows ==
  ASSUME NEW d \in Seq(Byte), NEW e \in Seq(Byte), Grows(d, e), NEW k, NEW s \in Nat, NEW o \in Nat,
         NEW must \in Nat, NEW id \in Nat, NEW size \in Nat, NEW end,
         ShortAt(k, d, s, o, must, id, size, end)
  PROVE  ShortAt(k, e, s, o, must, id, size, end)
<1>1. /\ 2 \in Alignments /\ 4 \in Alignments /\ Order(k) \in Orders
      /\ <<must, id>> \in Seq(Nat) /\ <<size>> \in Seq(Nat)
  BY OrderOf DEF Alignments
<1>2. Place(s, o, 4) \in Nat
  BY <1>1, PlaceNat
<1>3. PICK q \in Nat : /\ NumberAt(k, d, Place(s, o, 4), o, 2, Order(k), <<must, id>>, q)
                       /\ NumberAt(k, d, q, o, 2, Order(k), <<size>>, end)
  BY DEF ShortAt
<1> QED
  BY <1>1, <1>2, <1>3, NumberGrows DEF ShortAt

LEMMA ExtendedGrows ==
  ASSUME NEW d \in Seq(Byte), NEW e \in Seq(Byte), Grows(d, e), NEW k, NEW s \in Nat, NEW o \in Nat,
         NEW must \in Nat, NEW id \in Nat, NEW size \in Nat, NEW end,
         ExtendedAt(k, d, s, o, must, id, size, end)
  PROVE  ExtendedAt(k, e, s, o, must, id, size, end)
<1>1. /\ 2 \in Alignments /\ 4 \in Alignments /\ Order(k) \in Orders
      /\ <<must, ExtendedPid>> \in Seq(Nat) /\ <<8>> \in Seq(Nat)
      /\ <<id>> \in Seq(Nat) /\ <<size>> \in Seq(Nat)
  BY OrderOf DEF Alignments, ExtendedPid
<1>2. Place(s, o, 4) \in Nat
  BY <1>1, PlaceNat
<1>3. PICK q1 \in Nat, q2 \in Nat, q3 \in Nat :
        /\ NumberAt(k, d, Place(s, o, 4), o, 2, Order(k), <<must, ExtendedPid>>, q1)
        /\ NumberAt(k, d, q1, o, 2, Order(k), <<8>>, q2)
        /\ NumberAt(k, d, q2, o, 4, Order(k), <<id>>, q3)
        /\ NumberAt(k, d, q3, o, 4, Order(k), <<size>>, end)
  BY DEF ExtendedAt
<1>4. /\ NumberAt(k, e, Place(s, o, 4), o, 2, Order(k), <<must, ExtendedPid>>, q1)
      /\ NumberAt(k, e, q1, o, 2, Order(k), <<8>>, q2)
  BY <1>1, <1>2, <1>3, NumberGrows
<1>5. /\ NumberAt(k, e, q2, o, 4, Order(k), <<id>>, q3)
      /\ NumberAt(k, e, q3, o, 4, Order(k), <<size>>, end)
  BY <1>1, <1>3, NumberGrows
<1> QED
  BY <1>4, <1>5 DEF ExtendedAt

LEMMA CodedGrows ==
  ASSUME NEW d \in Seq(Byte), NEW e \in Seq(Byte), Grows(d, e), NEW k, NEW s \in Nat, NEW o \in Nat,
         NEW must \in Nat, NEW id \in Nat, NEW size \in Nat, NEW end,
         CodedAt(k, d, s, o, must, id, size, end)
  PROVE  CodedAt(k, e, s, o, must, id, size, end)
<1>1. 4 \in Alignments /\ Order(k) \in Orders
  BY OrderOf DEF Alignments
<1>2. PICK c \in 0..7, q \in Nat :
        /\ NumberAt(k, d, s, o, 4, Order(k), <<must, c, id>>, q)
        /\ IF c <= 3 THEN end = q /\ size = FixedSizes[c + 1]
           ELSE /\ size % SizeUnit(c) = 0
                /\ NumberAt(k, d, q, o, 4, Order(k), <<size \div SizeUnit(c)>>, end)
  BY DEF CodedAt
<1>3. <<must, c, id>> \in Seq(Nat)
  OBVIOUS
<1>4. NumberAt(k, e, s, o, 4, Order(k), <<must, c, id>>, q)
  BY <1>1, <1>2, <1>3, NumberGrows
<1>5. ASSUME ~(c <= 3) PROVE NumberAt(k, e, q, o, 4, Order(k), <<size \div SizeUnit(c)>>, end)
  <2>1. SizeUnit(c) \in {1, 4, 8}
    BY DEF SizeUnit
  <2>2. size \div SizeUnit(c) \in Nat
    BY <2>1
  <2>3. <<size \div SizeUnit(c)>> \in Seq(Nat)
    BY <2>2
  <2> QED
    BY <1>1, <1>2, <1>5, <2>3, NumberGrows
<1> QED
  BY <1>2, <1>4, <1>5 DEF CodedAt

\* What is written later does not touch it.
LEMMA LaidGrows ==
  ASSUME NEW d \in Seq(Byte), NEW e \in Seq(Byte), Grows(d, e), NEW k, NEW s \in Nat, NEW o \in Nat,
         NEW c \in Calls, NEW left, Laid(k, d, s, o, c, left)
  PROVE  Laid(k, e, s, o, c, left)
<1>1. c.end <= Len(e)
  <2>1. c.end \in Nat /\ Len(d) \in Nat /\ Len(e) \in Nat
    BY CallTypes, LenNat
  <2>2. c.end <= Len(d) /\ Len(d) <= Len(e)
    BY DEF Laid, Grows
  <2> QED
    BY ONLY <2>1, <2>2
<1>2. ASSUME c.op = "number"
      PROVE  \E x \in Nat : c.values = <<<<x>>>> /\ NumberAt(k, e, s, o, c.width, c.order, <<x>>, c.end)
  <2>1. PICK x \in Nat : c.values = <<<<x>>>> /\ NumberAt(k, d, s, o, c.width, c.order, <<x>>, c.end)
    BY <1>2 DEF Laid
  <2>2. c.width \in Alignments /\ c.order \in Orders /\ <<x>> \in Seq(Nat)
    BY <1>2, CallTypes
  <2> QED
    BY <2>1, <2>2, NumberGrows
<1>3. ASSUME c.op = "text" PROVE TextAt(k, e, s, o, c)
  <2>1. PICK q \in Nat : /\ LengthAt(k, d, s, o, c.length, c.width + 1, q)
                         /\ c.end = q + c.width + 1 /\ Holds(d, q, Text(c.width))
    BY <1>3 DEF Laid, TextAt
  <2>2. c.width \in Nat /\ c.width + 1 \in Nat
    BY <1>3, CallTypes
  <2>3. LengthAt(k, e, s, o, c.length, c.width + 1, q)
    BY <2>1, <2>2, LengthGrows
  <2>4. Holds(e, q, Text(c.width))
    BY <2>1, <2>2, TextType, HoldsGrows
  <2> QED
    BY <2>1, <2>3, <2>4 DEF TextAt
<1>4. ASSUME c.op = "array" PROVE ArrayAt(k, e, s, o, c, left)
  <2>1. PICK q \in Nat, m \in 0..Len(c.values) :
          /\ LengthAt(k, d, s, o, c.length, Len(c.values), q)
          /\ ItemsAt(k, d, q, o, c.width, c.values, m, c.end)
          /\ m + Len(left) = Len(c.values)
          /\ \A j \in 1..Len(left) : c.values[m + j] = <<left[j]>>
    BY <1>4 DEF Laid, ArrayAt
  <2>2. c.width \in Alignments /\ c.values \in Seq(Seq(Nat)) /\ Len(c.values) \in Nat
    BY <1>4, CallTypes
  <2>3. LengthAt(k, e, s, o, c.length, Len(c.values), q)
    BY <2>1, <2>2, LengthGrows
  <2>4. ItemsAt(k, e, q, o, c.width, c.values, m, c.end)
    BY <2>1, <2>2, OrderOf, ItemsGrow
  <2> QED
    BY <2>1, <2>3, <2>4 DEF ArrayAt
<1>5. ASSUME c.op = "member"
      PROVE  \E must \in {0, 1}, id \in Nat, size \in Nat :
               c.values = <<<<must, id, size>>>> /\ MemberAt(k, e, s, o, must, id, size, c.end)
  <2>1. PICK must \in {0, 1}, id \in Nat, size \in Nat :
               c.values = <<<<must, id, size>>>> /\ MemberAt(k, d, s, o, must, id, size, c.end)
    BY <1>5 DEF Laid
  <2>2. MemberAt(k, e, s, o, must, id, size, c.end)
    BY <2>1, CodedGrows, ExtendedGrows, ShortGrows DEF MemberAt
  <2> QED
    BY <2>1, <2>2
<1>6. ASSUME c.op = "sentinel" PROVE c.values = <<>> /\ SentinelAt(k, e, s, o, c.end)
  <2>1. SentinelPid \in Nat
    BY DEF SentinelPid
  <2> QED
    BY <1>6, <2>1, ShortGrows DEF Laid, SentinelAt
<1>7. /\ c.op = "align" => c.values = <<>> /\ c.end = Place(s, o, c.width)
      /\ c.op = "origin" => c.values = <<>> /\ c.end = s
  BY DEF Laid
<1> QED
  BY <1>1, <1>2, <1>3, <1>4, <1>5, <1>6, <1>7 DEF Laid

-----------------------------------------------------------------------------
(* What the calls of the writer leave *)

LEMMA WriterFields ==
  ASSUME RoomInv
  PROVE  /\ Sound(Writer) /\ Writer.data = data /\ Writer.origin = origin /\ Writer.error = ""
         /\ data \in Seq(Byte) /\ Len(data) \in Nat /\ origin \in Nat
<1>1. data \in Seq(Byte) /\ origin \in Nat
  BY DEF RoomInv, TypeOK
<1> QED
  BY <1>1, WriterSound, LenNat DEF Writer

\* A call that comes to w.
LEMMA BecomesLaid ==
  ASSUME RoomInv, NEW w, Sound(w), Extends(Writer, w), Becomes(w)
  PROVE  /\ data' = w.data /\ data' \in Seq(Byte) /\ Len(data') \in Nat
         /\ Grows(data, data') /\ origin' = origin /\ error' = w.error
<1>1. data' = w.data /\ origin' = w.origin /\ error' = w.error
  BY DEF Becomes
<1>2. w.data \in Seq(Byte) /\ Len(w.data) \in Nat
  BY Fields DEF Sound
<1> QED
  BY <1>1, <1>2, WriterFields DEF Extends

LEMMA PrefixLaid ==
  ASSUME RoomInv, NEW given \in BOOLEAN, NEW n \in Nat
  PROVE  LET w == Prefixed(given, n)
         IN  /\ Sound(w) /\ Extends(Writer, w)
             /\ w.error = "" => LengthAt(kind, w.data, Len(data), origin, given, n, Len(w.data))
<1>1. 4 \in Alignments /\ <<n>> \in Seq(Nat)
  BY DEF Alignments
<1>2. CASE given
  BY <1>1, <1>2, WriterFields, NumberLaid, OrderOf DEF Prefixed, Uint32, LengthAt
<1>3. CASE ~given
  BY <1>3, WriterFields, ExtendsSelf DEF Prefixed, LengthAt
<1> QED
  BY <1>2, <1>3

\* Bytes that are put behind w, aligned to a.
LEMMA BytesLaid ==
  ASSUME NEW w, Sound(w), NEW a \in {0} \cup Alignments, NEW bytes \in Seq(Byte)
  PROVE  LET u == Put(Aligned(w, a, Len(bytes)), bytes)
             p == Place(Len(w.data), w.origin, a)
         IN  /\ Sound(u) /\ Extends(w, u)
             /\ u.error = "" => Holds(u.data, p, bytes) /\ Len(u.data) = p + Len(bytes)
<1> DEFINE x == Aligned(w, a, Len(bytes))
           u == Put(x, bytes)
<1>1. Len(bytes) \in Nat
  BY LenNat
<1>2. /\ Extends(w, x) /\ x.error = w.error
      /\ w.error = "" => Len(x.data) = Place(Len(w.data), w.origin, a)
  BY <1>1, AlignedLaid
<1>3. Roomy(x, Len(bytes)) /\ Sound(x)
  BY <1>1, AlignedRoom DEF Roomy
<1> HIDE DEF x
<1>4. Sound(u)
  BY <1>3, PutSound
<1>5. /\ Extends(x, u)
      /\ u.error = "" => Holds(u.data, Len(x.data), bytes) /\ Len(u.data) = Len(x.data) + Len(bytes)
  BY <1>3, PutLaid
<1> HIDE DEF u
<1>6. Extends(w, u)
  BY <1>2, <1>3, <1>4, <1>5, ExtendsTransitive
<1>7. u.error = "" => Len(x.data) = Place(Len(w.data), w.origin, a)
  BY <1>2, <1>5 DEF Extends
<1>8. /\ Sound(u) /\ Extends(w, u)
      /\ u.error = "" => /\ Holds(u.data, Place(Len(w.data), w.origin, a), bytes)
                         /\ Len(u.data) = Place(Len(w.data), w.origin, a) + Len(bytes)
  BY <1>4, <1>5, <1>6, <1>7
<1> QED
  BY <1>8 DEF u, x

\* The same of a length and the bytes behind it.
LEMMA PrefixedLaid ==
  ASSUME RoomInv, NEW given \in BOOLEAN, NEW n \in Nat, NEW a \in {0} \cup Alignments,
         NEW bytes \in Seq(Byte), Becomes(Put(Aligned(Prefixed(given, n), a, Len(bytes)), bytes))
  PROVE  /\ Grows(data, data') /\ origin' = origin
         /\ error' = "" =>
              \E q \in Nat : /\ LengthAt(kind, data', Len(data), origin, given, n, q)
                            /\ Holds(data', Place(q, origin, a), bytes)
                            /\ Len(data') = Place(q, origin, a) + Len(bytes)
<1> DEFINE w == Prefixed(given, n)
           u == Put(Aligned(w, a, Len(bytes)), bytes)
           q == Len(w.data)
<1>1. /\ Sound(w) /\ Extends(Writer, w)
      /\ w.error = "" => LengthAt(kind, w.data, Len(data), origin, given, n, q)
  BY PrefixLaid
<1>2. Becomes(u)
  OBVIOUS
<1> HIDE DEF w
<1>3. /\ Sound(u) /\ Extends(w, u)
      /\ u.error = "" => /\ Holds(u.data, Place(q, w.origin, a), bytes)
                         /\ Len(u.data) = Place(q, w.origin, a) + Len(bytes)
  BY <1>1, BytesLaid
<1> HIDE DEF u
<1>4. Extends(Writer, u)
  BY <1>1, <1>3, WriterFields, ExtendsTransitive
<1>5. data' = u.data /\ error' = u.error /\ Grows(data, data') /\ origin' = origin
  BY <1>2, <1>3, <1>4, BecomesLaid
<1>6. w.origin = origin
  BY <1>1, WriterFields DEF Extends
<1>7. w.data \in Seq(Byte) /\ u.data \in Seq(Byte) /\ q \in Nat
  BY <1>1, <1>3, Fields DEF Sound
<1>8. ASSUME error' = "" PROVE LengthAt(kind, data', Len(data), origin, given, n, q)
  <2>1. w.error = "" /\ Grows(w.data, u.data)
    BY <1>3, <1>5, <1>8 DEF Extends
  <2>2. LengthAt(kind, w.data, Len(data), origin, given, n, q)
    BY <1>1, <2>1
  <2> HIDE DEF q
  <2>3. LengthAt(kind, u.data, Len(data), origin, given, n, q)
    BY <1>7, <2>1, <2>2, WriterFields, LengthGrows
  <2> QED
    BY <1>5, <2>3
<1> HIDE DEF q
<1> QED
  BY <1>3, <1>5, <1>6, <1>7, <1>8

LEMMA NumberCall ==
  ASSUME RoomInv, NEW n \in Alignments, NEW order \in Orders, NEW x \in Nat, PutNumber(n, order, x)
  PROVE  /\ Grows(data, data') /\ origin' = origin
         /\ error' = "" => NumberAt(kind, data', Len(data), origin, n, order, <<x>>, Len(data'))
<1> DEFINE w == Number(Writer, n, order, <<x>>)
<1>1. <<x>> \in Seq(Nat)
  OBVIOUS
<1>2. /\ Sound(w) /\ Extends(Writer, w)
      /\ w.error = "" => NumberAt(kind, w.data, Len(data), origin, n, order, <<x>>, Len(w.data))
  BY <1>1, WriterFields, NumberLaid
<1>3. Becomes(w)
  BY DEF PutNumber
<1> HIDE DEF w
<1> QED
  BY <1>2, <1>3, BecomesLaid

LEMMA HoldsFront ==
  ASSUME NEW d \in Seq(Byte), NEW p \in Nat, NEW s \in Seq(Byte), NEW t \in Seq(Byte),
         Holds(d, p, s \o t)
  PROVE  Holds(d, p, s)
<1>1. Len(s) \in Nat /\ Len(t) \in Nat /\ Len(d) \in Nat
  BY LenNat
<1>2. Len(s \o t) = Len(s) + Len(t) /\ \A k \in 1..Len(s) : (s \o t)[k] = s[k]
  BY JoinedLaid DEF Grows
<1>3. p + Len(s) <= Len(d)
  BY <1>1, <1>2 DEF Holds
<1>4. \A k \in 1..Len(s) : k \in 1..Len(s \o t)
  BY <1>1, <1>2
<1> QED
  BY <1>2, <1>3, <1>4 DEF Holds

LEMMA TextCall ==
  ASSUME RoomInv, NEW n \in Nat, NEW given \in BOOLEAN, PutText(n, given)
  PROVE  /\ Grows(data, data') /\ origin' = origin
         /\ error' = "" =>
              \E q \in Nat : /\ LengthAt(kind, data', Len(data), origin, given, n + 1, q)
                            /\ Len(data') = q + n + 1 /\ Holds(data', q, Text(n))
<1> DEFINE bytes == Text(n) \o <<Zero>>
<1>1. Text(n) \in Seq(Byte) /\ Len(Text(n)) = n /\ <<Zero>> \in Seq(Byte) /\ Len(<<Zero>>) = 1
  BY TextType, ZeroType
<1>2. bytes \in Seq(Byte) /\ Len(bytes) = n + 1
  BY <1>1, Joined
<1>3. Becomes(Put(Aligned(Prefixed(given, n + 1), 0, Len(bytes)), bytes))
  BY <1>2 DEF PutText
<1>4. 0 \in {0} \cup Alignments /\ n + 1 \in Nat /\ data' \in Seq(Byte)
  <2>1. RoomInv'
    BY TextKeeps
  <2> QED
    BY <2>1 DEF RoomInv, TypeOK
<1>5. ASSUME NEW q \in Nat, Holds(data', Place(q, origin, 0), bytes),
             Len(data') = Place(q, origin, 0) + Len(bytes)
      PROVE  Len(data') = q + n + 1 /\ Holds(data', q, Text(n))
  <2>1. Place(q, origin, 0) = q
    BY DEF Place
  <2>2. Holds(data', q, Text(n))
    BY <1>1, <1>4, <1>5, <2>1, HoldsFront
  <2> HIDE DEF bytes
  <2> QED
    BY <1>2, <1>5, <2>1, <2>2
<1> HIDE DEF bytes
<1>6. /\ Grows(data, data') /\ origin' = origin
      /\ error' = "" =>
           \E q \in Nat : /\ LengthAt(kind, data', Len(data), origin, given, n + 1, q)
                         /\ Holds(data', Place(q, origin, 0), bytes)
                         /\ Len(data') = Place(q, origin, 0) + Len(bytes)
  BY <1>2, <1>3, <1>4, PrefixedLaid
<1> QED
  BY <1>5, <1>6

\* An item of an array is where its place in the array says.
LEMMA PackedItem ==
  ASSUME NEW xs \in Seq(Nat), NEW n \in Alignments, NEW order \in Orders,
         NEW j \in 1..Len(xs), NEW i \in 1..n
  PROVE  LET k == n * (j - 1) + i
         IN  k \in 1..(n * Len(xs)) /\ Packed(xs, n, order)[k] = Encoded(<<xs[j]>>, n, order)[i]
<1> DEFINE k == n * (j - 1) + i
<1>1. k \in 1..(n * Len(xs)) /\ (k - 1) \div n = j - 1 /\ (k - 1) % n = i - 1
  <2>1. Len(xs) \in Nat
    BY LenNat
  <2>2. CASE n = 1
    BY <2>1, <2>2
  <2>3. CASE n = 2
    BY <2>1, <2>3
  <2>4. CASE n = 4
    BY <2>1, <2>4
  <2>5. CASE n = 8
    BY <2>1, <2>5
  <2> QED
    BY <2>2, <2>3, <2>4, <2>5 DEF Alignments
<1> HIDE DEF k
<1>2. Packed(xs, n, order)[k]
        = Encoded(<<xs[((k - 1) \div n) + 1]>>, n, order)[((k - 1) % n) + 1]
  BY <1>1 DEF Packed
<1>3. ((k - 1) \div n) + 1 = j /\ ((k - 1) % n) + 1 = i
  BY <1>1 DEF Alignments
<1>4. Packed(xs, n, order)[k] = Encoded(<<xs[j]>>, n, order)[i]
  BY <1>2, <1>3
<1> QED
  BY <1>1, <1>4 DEF k

LEMMA PackedHolds ==
  ASSUME NEW xs \in Seq(Nat), NEW n \in Alignments, NEW order \in Orders,
         NEW d \in Seq(Byte), NEW p \in Nat, Holds(d, p, Packed(xs, n, order)),
         NEW j \in 1..Len(xs)
  PROVE  Holds(d, p + n * (j - 1), Encoded(<<xs[j]>>, n, order))
<1> DEFINE bytes == Packed(xs, n, order)
           item == Encoded(<<xs[j]>>, n, order)
           at == n * (j - 1)
<1>1. <<xs[j]>> \in Seq(Nat) /\ n \in Nat
  BY DEF Alignments
<1>2. Len(item) = n
  BY <1>1, EncodedType
<1>3. Len(bytes) = n * Len(xs) /\ Len(xs) \in Nat /\ Len(d) \in Nat
  BY PackedType, LenNat
<1>4. \A i \in 1..n : at + i \in 1..(n * Len(xs)) /\ bytes[at + i] = item[i]
  BY PackedItem
<1>5. p + Len(bytes) <= Len(d) /\ \A k \in 1..Len(bytes) : d[p + k] = bytes[k]
  BY DEF Holds
<1>6. at \in Nat /\ at + n <= n * Len(xs) /\ n * Len(xs) \in Nat
  <2>1. j \in 1..Len(xs)
    OBVIOUS
  <2> QED
    BY <1>3, <2>1 DEF Alignments
<1> HIDE DEF bytes, item, at
<1>7. (p + at) + n <= Len(d)
  BY <1>1, <1>3, <1>5, <1>6
<1>8. \A i \in 1..n : d[(p + at) + i] = item[i]
  <2> TAKE i \in 1..n
  <2>1. at + i \in 1..Len(bytes) /\ bytes[at + i] = item[i]
    BY <1>3, <1>4
  <2>2. d[p + (at + i)] = item[i]
    BY <1>5, <2>1
  <2>3. p + (at + i) = (p + at) + i
    BY <1>1, <1>6
  <2> QED
    BY <2>2, <2>3
<1>9. Holds(d, p + at, item)
  BY <1>2, <1>7, <1>8 DEF Holds
<1> QED
  BY <1>9 DEF at, item

\* The values that an array of xs is logged with.
Values(xs) == [i \in DOMAIN xs |-> <<xs[i]>>]

LEMMA ValuesType ==
  ASSUME NEW xs \in Seq(Nat)
  PROVE  /\ Values(xs) \in Seq(Seq(Nat)) /\ Len(Values(xs)) = Len(xs)
         /\ \A j \in 1..Len(xs) : Values(xs)[j] = <<xs[j]>>
<1>1. DOMAIN xs = 1..Len(xs) /\ Len(xs) \in Nat
  BY LenNat
<1>2. \A j \in 1..Len(xs) : <<xs[j]>> \in Seq(Nat)
  BY <1>1
<1> QED
  BY <1>1, <1>2 DEF Values

LEMMA BulkCall ==
  ASSUME RoomInv, NEW n \in Alignments, NEW xs \in Seq(Nat), NEW given \in BOOLEAN,
         PutBulk(n, xs, given)
  PROVE  /\ Grows(data, data') /\ origin' = origin
         /\ error' = "" /\ xs # <<>> =>
              \E q \in Nat :
                /\ LengthAt(kind, data', Len(data), origin, given, Len(xs), q)
                /\ ItemsAt(kind, data', q, origin, n, Values(xs), Len(xs), Len(data'))
<1> DEFINE bytes == Packed(xs, n, Order(kind))
           a == AlignmentOf(n)
<1>1. /\ bytes \in Seq(Byte) /\ Len(bytes) = n * Len(xs) /\ Len(xs) \in Nat
      /\ a \in {0} \cup Alignments /\ a = UnitOf(kind, n)
  BY PackedType, OrderOf, LenNat, AlignmentType, UnitType
<1>2. Becomes(Put(Aligned(Prefixed(given, Len(xs)), a, Len(bytes)), bytes))
  BY <1>1 DEF PutBulk
<1>3. data' \in Seq(Byte) /\ origin \in Nat
  <2>1. RoomInv'
    BY BulkKeeps
  <2> QED
    BY <2>1 DEF RoomInv, TypeOK
<1>4. ASSUME NEW q \in Nat, xs # <<>>, Holds(data', Place(q, origin, a), bytes),
             Len(data') = Place(q, origin, a) + Len(bytes)
      PROVE  ItemsAt(kind, data', q, origin, n, Values(xs), Len(xs), Len(data'))
  <2> DEFINE at == Place(q, origin, a)
  <2>1. at \in Nat
    BY <1>1, <1>3, UnitType, PlaceNat
  <2>2. \A j \in 1..Len(xs) : Holds(data', at + n * (j - 1), Encoded(<<xs[j]>>, n, Order(kind)))
    BY <1>3, <1>4, <2>1, OrderOf, PackedHolds
  <2>3. \A j \in 1..Len(xs) : Values(xs)[j] = <<xs[j]>>
    BY ValuesType
  <2>4. Len(xs) # 0
    BY <1>4
  <2>5. Len(data') = at + n * Len(xs) /\ at = Place(q, origin, UnitOf(kind, n))
    BY <1>1, <1>4
  <2> HIDE DEF at, a, bytes
  <2> QED
    BY <2>2, <2>3, <2>4, <2>5 DEF ItemsAt
<1> HIDE DEF bytes, a
<1>5. /\ Grows(data, data') /\ origin' = origin
      /\ error' = "" =>
           \E q \in Nat : /\ LengthAt(kind, data', Len(data), origin, given, Len(xs), q)
                         /\ Holds(data', Place(q, origin, a), bytes)
                         /\ Len(data') = Place(q, origin, a) + Len(bytes)
  BY <1>1, <1>2, PrefixedLaid
<1> QED
  BY <1>4, <1>5

\* An array that goes item by item has its length first.
LEMMA EachCall ==
  ASSUME RoomInv, NEW n \in Alignments, NEW xs \in Seq(Nat), NEW given \in BOOLEAN,
         PutEach(n, xs, given)
  PROVE  /\ Grows(data, data') /\ origin' = origin
         /\ error' = "" =>
              /\ LengthAt(kind, data', Len(data), origin, given, Len(xs), Len(data'))
              /\ items'.width = n /\ items'.left = xs
         /\ error' # "" => items'.left = <<>>
<1> DEFINE w == Prefixed(given, Len(xs))
<1>1. /\ Sound(w) /\ Extends(Writer, w)
      /\ w.error = "" =>
           LengthAt(kind, w.data, Len(data), origin, given, Len(xs), Len(w.data))
  BY LenNat, PrefixLaid
<1>2. Becomes(w) /\ items' = IF w.error = "" THEN [width |-> n, left |-> xs] ELSE NoItems
  BY DEF PutEach
<1>3. /\ w.error = "" => items'.width = n /\ items'.left = xs
      /\ w.error # "" => items'.left = <<>>
  <2>1. CASE w.error = ""
    <3>1. items' = [width |-> n, left |-> xs]
      BY <1>2, <2>1
    <3> QED
      BY <2>1, <3>1
  <2>2. CASE w.error # ""
    <3>1. items' = NoItems
      BY <1>2, <2>2
    <3> QED
      BY <2>2, <3>1 DEF NoItems
  <2> QED
    BY <2>1, <2>2
<1> HIDE DEF w
<1> QED
  BY <1>1, <1>2, <1>3, BecomesLaid

\* What follows a value in its place is in place for another of its kind.
LEMMA PlaceAgain ==
  ASSUME NEW q \in Nat, NEW o \in Nat, NEW n \in Alignments, NEW k, NEW m \in Nat
  PROVE  LET p == Place(q, o, UnitOf(k, n))
         IN  p + n * m \in Nat /\ Place(p + n * m, o, UnitOf(k, n)) = p + n * m
<1> DEFINE a == UnitOf(k, n)
           p == Place(q, o, a)
<1>1. a \in Alignments /\ p \in Nat /\ n \in Nat
  <2>1. a \in Alignments
    BY UnitType
  <2>2. n \in Nat
    BY DEF Alignments
  <2> HIDE DEF a
  <2> QED
    BY <2>1, <2>2, PlaceNat
<1>2. (p - o) % a = 0
  <2>1. p = q + Padding(q - o, a)
    BY <1>1 DEF Place, Alignments
  <2> HIDE DEF p, a
  <2>2. CASE a = 1
    BY <1>1, <2>2
  <2>3. CASE a = 2
    BY <2>1, <2>3 DEF Padding
  <2>4. CASE a = 4
    BY <2>1, <2>4 DEF Padding
  <2>5. CASE a = 8
    BY <2>1, <2>5 DEF Padding
  <2> QED
    BY <1>1, <2>2, <2>3, <2>4, <2>5 DEF Alignments
<1>3. n = a \/ (n = 8 /\ a = 4)
  BY DEF UnitOf
<1> HIDE DEF p, a
<1>4. p + n * m \in Nat
  BY <1>1
<1>5. ((p + n * m) - o) % a = 0
  <2>1. CASE a = 1
    BY <1>1, <1>4, <2>1
  <2>2. CASE a = 2
    BY <1>1, <1>2, <1>3, <2>2
  <2>3. CASE a = 4
    BY <1>1, <1>2, <1>3, <2>3
  <2>4. CASE a = 8
    BY <1>1, <1>2, <1>3, <2>4
  <2> QED
    BY <1>1, <2>1, <2>2, <2>3, <2>4 DEF Alignments
<1>6. Place(p + n * m, o, a) = p + n * m
  <2> DEFINE x == p + n * m
  <2>1. x \in Nat /\ (x - o) % a = 0
    BY <1>4, <1>5
  <2> HIDE DEF x
  <2>2. Place(x, o, a) = x
    BY ONLY <1>1, <2>1 DEF Place, Padding, Alignments
  <2> QED
    BY <2>2 DEF x
<1> QED
  BY <1>4, <1>6 DEF p, a

LEMMA ItemCall ==
  ASSUME RoomInv, PutItem, NEW q \in Nat, NEW vs \in Seq(Seq(Nat)), NEW m \in Nat,
         m < Len(vs), vs[m + 1] = <<Head(items.left)>>,
         ItemsAt(kind, data, q, origin, items.width, vs, m, Len(data))
  PROVE  error' = "" => ItemsAt(kind, data', q, origin, items.width, vs, m + 1, Len(data'))
<1> DEFINE n == items.width
           x == Head(items.left)
           w == Number(Writer, n, Order(kind), <<x>>)
           a == UnitOf(kind, n)
           p == Place(q, origin, a)
<1>1. n \in Alignments /\ n \in Nat /\ items.left \in Seq(Nat)
  BY DEF RoomInv, TypeOK, Alignments
<1>2. items.left # <<>>
  BY DEF PutItem, Idle
<1>3. x \in Nat /\ <<x>> \in Seq(Nat)
  <2>1. x \in Nat
    BY <1>1, <1>2
  <2> HIDE DEF x
  <2> QED
    BY <2>1
<1>4. Becomes(w)
  BY DEF PutItem
<1> HIDE DEF n, x
<1>5. /\ Sound(w) /\ Extends(Writer, w)
      /\ w.error = "" => NumberAt(kind, w.data, Len(data), origin, n, Order(kind), <<x>>, Len(w.data))
  BY <1>1, <1>3, WriterFields, NumberLaid, OrderOf
<1> HIDE DEF w
<1>6. /\ data' = w.data /\ data' \in Seq(Byte) /\ Grows(data, data') /\ error' = w.error
      /\ data \in Seq(Byte) /\ origin \in Nat /\ Len(data) \in Nat
  BY <1>4, <1>5, BecomesLaid, WriterFields
<1>7. Place(Len(data), origin, a) = p + n * m /\ p \in Nat /\ p + n * m \in Nat
  <2>1. p \in Nat
    BY <1>1, <1>6, UnitType, PlaceNat
  <2>2. Place(p + n * m, origin, a) = p + n * m /\ p + n * m \in Nat
    BY <1>1, <1>6, PlaceAgain
  <2>3. CASE m = 0
    <3>1. Len(data) = q
      BY <2>3 DEF ItemsAt
    <3>2. p + n * m = p
      BY <1>1, <2>1, <2>3
    <3> QED
      BY <2>1, <3>1, <3>2
  <2>4. CASE m # 0
    <3>1. Len(data) = p + n * m
      BY <2>4 DEF ItemsAt, n
    <3> QED
      BY <2>1, <2>2, <3>1
  <2> QED
    BY <2>3, <2>4
<1>8. ASSUME error' = ""
      PROVE  ItemsAt(kind, data', q, origin, n, vs, m + 1, Len(data'))
  <2>1. /\ Len(data') = (p + n * m) + n
        /\ Holds(data', p + n * m, Encoded(<<x>>, n, Order(kind)))
    BY <1>5, <1>6, <1>7, <1>8 DEF NumberAt
  <2>2. Len(data') = p + n * (m + 1)
    BY <1>1, <1>7, <2>1
  <2>3. ItemsAt(kind, data', q, origin, n, vs, m, Len(data))
    <3>1. m \in 0..Len(vs)
      BY LenNat
    <3> QED
      BY <1>1, <1>6, <3>1, OrderOf, ItemsGrow DEF n
  <2>4. ASSUME NEW j \in 1..(m + 1)
        PROVE  Holds(data', p + n * (j - 1), Encoded(vs[j], n, Order(kind)))
    <3>1. CASE j = m + 1
      <4>1. j - 1 = m /\ vs[j] = <<x>>
        BY <3>1 DEF x
      <4> QED
        BY <2>1, <4>1
    <3>2. CASE j # m + 1
      <4>1. j \in 1..m /\ m # 0
        BY <3>2
      <4> QED
        BY <2>3, <4>1 DEF ItemsAt
    <3> QED
      BY <3>1, <3>2
  <2> HIDE DEF p
  <2>5. m + 1 # 0
    OBVIOUS
  <2> QED
    BY <2>2, <2>4, <2>5 DEF ItemsAt, p, a
<1> QED
  BY <1>8 DEF n

\* One more number of a header, after the header so far.
LEMMA NextLaid ==
  ASSUME RoomInv, NEW w, Sound(w), Extends(Writer, w), NEW n \in {2, 4}, NEW v \in Seq(Nat)
  PROVE  LET u == Number(w, n, Order(kind), v)
         IN  /\ Sound(u) /\ Extends(Writer, u) /\ Extends(w, u)
             /\ u.error = "" =>
                  NumberAt(kind, u.data, Len(w.data), origin, n, Order(kind), v, Len(u.data))
<1> DEFINE u == Number(w, n, Order(kind), v)
<1>1. n \in Alignments /\ w.origin = origin
  BY WriterFields DEF Alignments, Extends
<1>2. /\ Sound(u) /\ Extends(w, u)
      /\ u.error = "" =>
           NumberAt(kind, u.data, Len(w.data), w.origin, n, Order(kind), v, Len(u.data))
  BY <1>1, OrderOf, NumberLaid
<1> HIDE DEF u
<1>3. Extends(Writer, u)
  BY <1>2, WriterFields, ExtendsTransitive
<1>4. /\ Sound(u) /\ Extends(Writer, u) /\ Extends(w, u)
      /\ u.error = "" =>
           NumberAt(kind, u.data, Len(w.data), origin, n, Order(kind), v, Len(u.data))
  BY <1>1, <1>2, <1>3
<1> QED
  BY <1>4 DEF u

\* What a part of a header left is still there after the next part.
LEMMA StillThere ==
  ASSUME NEW w, Sound(w), NEW u, Sound(u), Extends(w, u), NEW n \in {2, 4}, NEW s \in Nat,
         NEW o \in Nat, NEW v \in Seq(Nat), NEW q,
         NumberAt(kind, w.data, s, o, n, Order(kind), v, q)
  PROVE  NumberAt(kind, u.data, s, o, n, Order(kind), v, q) /\ q \in Nat
<1>1. n \in Alignments
  BY DEF Alignments
<1>2. w.data \in Seq(Byte) /\ u.data \in Seq(Byte) /\ Grows(w.data, u.data)
  BY Fields DEF Sound, Extends
<1> QED
  BY <1>1, <1>2, OrderOf, NumberGrows

\* The start of a header of XCDR1.
LEMMA FourLaid ==
  ASSUME RoomInv
  PROVE  LET w == Aligned(Writer, 4, 4)
         IN  /\ Sound(w) /\ Extends(Writer, w) /\ w.error = ""
             /\ Len(w.data) = Place(Len(data), origin, 4)
<1>1. 4 \in {0} \cup Alignments /\ 4 \in Nat
  BY DEF Alignments
<1>2. Sound(Aligned(Writer, 4, 4))
  BY <1>1, WriterFields, AlignedRoom DEF Roomy
<1> QED
  BY <1>1, <1>2, WriterFields, AlignedLaid

LEMMA ShortLaid ==
  ASSUME RoomInv, NEW must \in Nat, NEW id \in Nat, NEW size \in Nat
  PROVE  LET u == Uint16(Uint16(Aligned(Writer, 4, 4), <<must, id>>), <<size>>)
         IN  /\ Sound(u) /\ Extends(Writer, u)
             /\ u.error = "" =>
                  ShortAt(kind, u.data, Len(data), origin, must, id, size, Len(u.data))
<1> DEFINE w == Aligned(Writer, 4, 4)
           x == Uint16(w, <<must, id>>)
           u == Uint16(x, <<size>>)
<1>1. Sound(w) /\ Extends(Writer, w) /\ w.error = "" /\ Len(w.data) = Place(Len(data), origin, 4)
  BY FourLaid
<1>2. <<must, id>> \in Seq(Nat) /\ <<size>> \in Seq(Nat) /\ 2 \in {2, 4}
  OBVIOUS
<1> HIDE DEF w
<1>3. /\ Sound(x) /\ Extends(Writer, x)
      /\ x.error = "" =>
           NumberAt(kind, x.data, Len(w.data), origin, 2, Order(kind), <<must, id>>, Len(x.data))
  BY <1>1, <1>2, NextLaid DEF Uint16
<1> HIDE DEF x
<1>4. /\ Sound(u) /\ Extends(Writer, u) /\ Extends(x, u)
      /\ u.error = "" =>
           NumberAt(kind, u.data, Len(x.data), origin, 2, Order(kind), <<size>>, Len(u.data))
  BY <1>2, <1>3, NextLaid DEF Uint16
<1> HIDE DEF u
<1>5. ASSUME u.error = ""
      PROVE  ShortAt(kind, u.data, Len(data), origin, must, id, size, Len(u.data))
  <2>1. x.error = "" /\ Len(w.data) \in Nat /\ origin \in Nat
    BY <1>1, <1>4, <1>5, Fields, WriterFields DEF Extends, Sound
  <2>2. /\ NumberAt(kind, u.data, Len(w.data), origin, 2, Order(kind), <<must, id>>, Len(x.data))
        /\ Len(x.data) \in Nat
    BY <1>2, <1>3, <1>4, <2>1, StillThere
  <2> QED
    BY <1>1, <1>4, <1>5, <2>2 DEF ShortAt
<1>6. /\ Sound(u) /\ Extends(Writer, u)
      /\ u.error = "" => ShortAt(kind, u.data, Len(data), origin, must, id, size, Len(u.data))
  BY <1>4, <1>5
<1> QED
  BY <1>6 DEF u, x, w

LEMMA LongLaid ==
  ASSUME RoomInv, NEW must \in Nat, NEW id \in Nat, NEW size \in Nat
  PROVE  LET h == Uint16(Uint16(Aligned(Writer, 4, 4), <<must, ExtendedPid>>), <<8>>)
             u == Uint32(Uint32(h, id), size)
         IN  /\ Sound(u) /\ Extends(Writer, u)
             /\ u.error = "" =>
                  ExtendedAt(kind, u.data, Len(data), origin, must, id, size, Len(u.data))
<1> DEFINE w == Aligned(Writer, 4, 4)
           x == Uint16(w, <<must, ExtendedPid>>)
           y == Uint16(x, <<8>>)
           z == Uint32(y, id)
           u == Uint32(z, size)
<1>1. Sound(w) /\ Extends(Writer, w) /\ w.error = "" /\ Len(w.data) = Place(Len(data), origin, 4)
  BY FourLaid
<1>2. /\ <<must, ExtendedPid>> \in Seq(Nat) /\ <<8>> \in Seq(Nat) /\ <<id>> \in Seq(Nat)
      /\ <<size>> \in Seq(Nat) /\ 2 \in {2, 4} /\ 4 \in {2, 4}
  BY DEF ExtendedPid
<1> HIDE DEF w
<1>3. /\ Sound(x) /\ Extends(Writer, x)
      /\ x.error = "" =>
           NumberAt(kind, x.data, Len(w.data), origin, 2, Order(kind), <<must, ExtendedPid>>, Len(x.data))
  BY <1>1, <1>2, NextLaid DEF Uint16
<1> HIDE DEF x
<1>4. /\ Sound(y) /\ Extends(Writer, y) /\ Extends(x, y)
      /\ y.error = "" =>
           NumberAt(kind, y.data, Len(x.data), origin, 2, Order(kind), <<8>>, Len(y.data))
  BY <1>2, <1>3, NextLaid DEF Uint16
<1> HIDE DEF y
<1>5. /\ Sound(z) /\ Extends(Writer, z) /\ Extends(y, z)
      /\ z.error = "" =>
           NumberAt(kind, z.data, Len(y.data), origin, 4, Order(kind), <<id>>, Len(z.data))
  BY <1>2, <1>4, NextLaid DEF Uint32
<1> HIDE DEF z
<1>6. /\ Sound(u) /\ Extends(Writer, u) /\ Extends(z, u)
      /\ u.error = "" =>
           NumberAt(kind, u.data, Len(z.data), origin, 4, Order(kind), <<size>>, Len(u.data))
  BY <1>2, <1>5, NextLaid DEF Uint32
<1> HIDE DEF u
<1>7. ASSUME u.error = ""
      PROVE  ExtendedAt(kind, u.data, Len(data), origin, must, id, size, Len(u.data))
  <2>1. z.error = "" /\ y.error = "" /\ x.error = "" /\ Extends(y, u) /\ Extends(x, u)
    <3>1. Extends(y, u)
      BY <1>4, <1>5, <1>6, ExtendsTransitive
    <3>2. Extends(x, u)
      BY <1>3, <1>4, <1>6, <3>1, ExtendsTransitive
    <3> QED
      BY <1>6, <1>7, <3>1, <3>2 DEF Extends
  <2>2. Len(w.data) \in Nat /\ origin \in Nat
    BY <1>1, Fields, WriterFields DEF Sound
  <2>3. /\ NumberAt(kind, u.data, Len(w.data), origin, 2, Order(kind), <<must, ExtendedPid>>, Len(x.data))
        /\ Len(x.data) \in Nat
    BY <1>2, <1>3, <1>6, <2>1, <2>2, StillThere
  <2>4. /\ NumberAt(kind, u.data, Len(x.data), origin, 2, Order(kind), <<8>>, Len(y.data))
        /\ Len(y.data) \in Nat
    BY <1>2, <1>4, <1>6, <2>1, <2>2, <2>3, StillThere
  <2>5. /\ NumberAt(kind, u.data, Len(y.data), origin, 4, Order(kind), <<id>>, Len(z.data))
        /\ Len(z.data) \in Nat
    BY <1>2, <1>5, <1>6, <2>1, <2>2, <2>4, StillThere
  <2> QED
    BY <1>1, <1>6, <1>7, <2>3, <2>4, <2>5 DEF ExtendedAt
<1>8. /\ Sound(u) /\ Extends(Writer, u)
      /\ u.error = "" => ExtendedAt(kind, u.data, Len(data), origin, must, id, size, Len(u.data))
  BY <1>6, <1>7
<1> QED
  BY <1>8 DEF u, z, y, x, w

\* The code stands for the size.
LEMMA CodedLaid ==
  ASSUME RoomInv, NEW must \in {0, 1}, NEW id \in Nat, NEW size \in Nat, NEW code \in -1..7
  PROVE  LET u == HeaderV2(must, id, size, code)
         IN  /\ Sound(u) /\ Extends(Writer, u)
             /\ u.error = "" =>
                  CodedAt(kind, u.data, Len(data), origin, must, id, size, Len(u.data))
<1> DEFINE c == IF code = NoCode THEN CodeOf(size) ELSE code
           w == Number(Writer, 4, Order(kind), <<must, c, id>>)
           unit == SizeUnit(c)
           u == HeaderV2(must, id, size, code)
<1> SUFFICES /\ Sound(u) /\ Extends(Writer, u)
             /\ u.error = "" =>
                  CodedAt(kind, u.data, Len(data), origin, must, id, size, Len(u.data))
  OBVIOUS
<1>1. c \in 0..7
  BY CodeType DEF NoCode
<1>2. unit \in {1, 4, 8}
  BY DEF SizeUnit
<1>3. \/ u = Raised(Writer, "ValueError")
      \/ u = w /\ c <= 3 /\ size = FixedSizes[c + 1]
      \/ u = Raised(w, "ValueError")
      \/ u = Uint32(w, size \div unit) /\ ~(c <= 3) /\ ~(size % unit # 0)
  BY DEF HeaderV2, SizeUnit
<1> HIDE DEF c, unit, u
<1>4. <<must, c, id>> \in Seq(Nat) /\ 4 \in {2, 4}
  BY <1>1
<1>5. /\ Sound(w) /\ Extends(Writer, w)
      /\ w.error = "" =>
           NumberAt(kind, w.data, Len(data), origin, 4, Order(kind), <<must, c, id>>, Len(w.data))
  <2>1. Sound(Writer) /\ Extends(Writer, Writer)
    BY WriterFields, ExtendsSelf
  <2> QED
    BY <1>4, <2>1, WriterFields, NextLaid
<1> HIDE DEF w
<1>6. /\ Len(w.data) \in Nat /\ Sound(Writer) /\ Len(data) \in Nat /\ origin \in Nat
  BY <1>5, Fields, WriterFields DEF Sound
<1>7. CASE u = Raised(Writer, "ValueError")
  BY <1>7, WriterFields, RaisedSound, RaisedLaid
<1>8. CASE u = w /\ c <= 3 /\ size = FixedSizes[c + 1]
  BY <1>1, <1>5, <1>6, <1>8 DEF CodedAt
<1>9. CASE u = Raised(w, "ValueError")
  <2>1. Sound(u) /\ Extends(w, u) /\ u.error # ""
    BY <1>5, <1>9, RaisedSound, RaisedLaid
  <2> QED
    BY <1>5, <1>6, <2>1, ExtendsTransitive
<1>10. CASE u = Uint32(w, size \div unit) /\ ~(c <= 3) /\ ~(size % unit # 0)
  <2>1. size \div unit \in Nat
    BY <1>2
  <2>2. <<size \div unit>> \in Seq(Nat)
    BY <2>1
  <2>3. /\ Sound(u) /\ Extends(Writer, u) /\ Extends(w, u)
        /\ u.error = "" =>
             NumberAt(kind, u.data, Len(w.data), origin, 4, Order(kind), <<size \div unit>>, Len(u.data))
    BY <1>4, <1>5, <1>10, <2>2, NextLaid DEF Uint32
  <2>4. ASSUME u.error = ""
        PROVE  NumberAt(kind, u.data, Len(data), origin, 4, Order(kind), <<must, c, id>>, Len(w.data))
    <3>1. w.error = ""
      BY <2>3, <2>4 DEF Extends
    <3> QED
      BY <1>4, <1>5, <1>6, <2>3, <3>1, StillThere
  <2>5. size % SizeUnit(c) = 0 /\ unit = SizeUnit(c)
    BY <1>10 DEF unit
  <2>6. ASSUME u.error = "" PROVE CodedAt(kind, u.data, Len(data), origin, must, id, size, Len(u.data))
    BY <1>1, <1>6, <1>10, <2>3, <2>4, <2>5, <2>6 DEF CodedAt
  <2> QED
    BY <2>3, <2>6
<1> QED
  BY <1>3, <1>7, <1>8, <1>9, <1>10

LEMMA MemberCall ==
  ASSUME RoomInv, NEW must \in {0, 1}, NEW id \in Nat, NEW size \in Nat, NEW code \in -1..7,
         PutMember(must, id, size, code)
  PROVE  /\ Grows(data, data')
         /\ error' = "" =>
              /\ MemberAt(kind, data', Len(data), origin, must, id, size, Len(data'))
              /\ origin' = IF Cdr2(kind) THEN origin ELSE Len(data')
<1>1. CASE Cdr2(kind)
  <2> DEFINE u == HeaderV2(must, id, size, code)
  <2>1. /\ Sound(u) /\ Extends(Writer, u)
        /\ u.error = "" => CodedAt(kind, u.data, Len(data), origin, must, id, size, Len(u.data))
    BY CodedLaid
  <2>2. Becomes(u)
    BY <1>1 DEF PutMember
  <2> HIDE DEF u
  <2>3. data' = u.data /\ error' = u.error /\ origin' = origin /\ Grows(data, data')
    BY <2>1, <2>2, BecomesLaid
  <2> QED
    BY <1>1, <2>1, <2>3 DEF MemberAt
<1>2. CASE ~Cdr2(kind)
  <2> DEFINE long == Uint32(Uint32(Uint16(Uint16(Aligned(Writer, 4, 4), <<must, ExtendedPid>>), <<8>>), id), size)
             short == Uint16(Uint16(Aligned(Writer, 4, 4), <<must, id>>), <<size>>)
             w == IF Extended(id, size) THEN long ELSE short
             u == IF w.error # "" THEN w ELSE [w EXCEPT !.origin = Len(w.data)]
  <2>1. /\ Sound(long) /\ Extends(Writer, long)
        /\ long.error = "" =>
             ExtendedAt(kind, long.data, Len(data), origin, must, id, size, Len(long.data))
    BY LongLaid
  <2>2. /\ Sound(short) /\ Extends(Writer, short)
        /\ short.error = "" =>
             ShortAt(kind, short.data, Len(data), origin, must, id, size, Len(short.data))
    BY ShortLaid
  <2>3. Becomes(u)
    BY <1>2 DEF PutMember, HeaderV1
  <2> HIDE DEF long, short
  <2>4. /\ Sound(w) /\ Extends(Writer, w)
        /\ w.error = "" => MemberAt(kind, w.data, Len(data), origin, must, id, size, Len(w.data))
    BY <1>2, <2>1, <2>2 DEF MemberAt
  <2> HIDE DEF w
  <2>5. w \in Writers
    BY <2>4 DEF Sound
  <2>6. /\ u.data = w.data /\ u.error = w.error
        /\ w.error = "" => u.origin = Len(w.data)
    BY <2>5 DEF Writers
  <2>7. data' = w.data /\ error' = w.error /\ (error' = "" => origin' = Len(data'))
    BY <2>3, <2>6 DEF Becomes
  <2>8. Grows(data, w.data)
    BY <2>4, WriterFields DEF Extends
  <2> QED
    BY <1>2, <2>4, <2>7, <2>8
<1> QED
  BY <1>1, <1>2

LEMMA SentinelCall ==
  ASSUME RoomInv, PutSentinel
  PROVE  /\ Grows(data, data') /\ origin' = origin
         /\ error' = "" => SentinelAt(kind, data', Len(data), origin, Len(data'))
<1>1. CASE Cdr2(kind)
  <2>1. Becomes(Writer)
    BY <1>1 DEF PutSentinel
  <2>2. data' = data /\ origin' = origin
    BY <2>1 DEF Becomes, Writer
  <2> QED
    BY <1>1, <2>2, WriterFields, GrowsSelf DEF SentinelAt
<1>2. CASE ~Cdr2(kind)
  <2> DEFINE u == Uint16(Uint16(Aligned(Writer, 4, 4), <<0, SentinelPid>>), <<0>>)
  <2>1. /\ Sound(u) /\ Extends(Writer, u)
        /\ u.error = "" =>
             ShortAt(kind, u.data, Len(data), origin, 0, SentinelPid, 0, Len(u.data))
    <3>1. SentinelPid \in Nat
      BY DEF SentinelPid
    <3> QED
      BY <3>1, ShortLaid
  <2>2. Becomes(u)
    BY <1>2 DEF PutSentinel
  <2> HIDE DEF u
  <2>3. data' = u.data /\ error' = u.error /\ origin' = origin /\ Grows(data, data')
    BY <2>1, <2>2, BecomesLaid
  <2> QED
    BY <1>2, <2>1, <2>3 DEF SentinelAt
<1> QED
  BY <1>1, <1>2

LEMMA AlignCall ==
  ASSUME RoomInv, NEW a \in {0} \cup Alignments, PutAlign(a)
  PROVE  /\ Grows(data, data') /\ origin' = origin
         /\ Len(data') = Place(Len(data), origin, a)
<1> DEFINE u == Aligned(Writer, a, a)
<1>1. a \in Nat
  BY DEF Alignments
<1>2. Sound(u) /\ Extends(Writer, u) /\ Len(u.data) = Place(Len(data), origin, a)
  BY <1>1, WriterFields, AlignedLaid, AlignedRoom DEF Roomy
<1>3. Becomes(u)
  BY DEF PutAlign
<1> HIDE DEF u
<1> QED
  BY <1>2, <1>3, BecomesLaid

-----------------------------------------------------------------------------
(* What a reading keeps *)

\* What every part of a reading keeps.
Kept(r, t) == t.limit = r.limit /\ t.origin = r.origin

LEMMA KeptTransitive ==
  ASSUME NEW r, NEW s, NEW t, Kept(r, s), Kept(s, t) PROVE Kept(r, t)
BY DEF Kept

LEMMA ReaderFields ==
  ASSUME NEW r, Reader(r, Len(data))
  PROVE  r.limit \in 4..Len(data) /\ r.offset \in Nat /\ 4 <= r.offset /\ r.origin \in Nat
BY DEF Reader

LEMMA FailsKeeps ==
  ASSUME NEW r, NEW e, Reader(r, Len(data))
  PROVE  /\ Reader(Fails(r, e), Len(data)) /\ Kept(r, Fails(r, e))
         /\ Fails(r, e).error = e /\ Fails(r, e).offset = r.offset
BY DEF Reader, Fails, Kept

LEMMA ReturnsKeeps ==
  ASSUME NEW r, NEW vs, Reader(r, Len(data))
  PROVE  /\ Reader(Returns(r, vs), Len(data)) /\ Kept(r, Returns(r, vs))
         /\ Returns(r, vs).error = "" /\ Returns(r, vs).got = vs
         /\ Returns(r, vs).offset = r.offset
BY DEF Reader, Returns, Kept

LEMMA MovedKeeps ==
  ASSUME NEW r, NEW to \in Nat, Reader(r, Len(data)), r.offset <= to
  PROVE  LET t == [r EXCEPT !.offset = to]
         IN  /\ Reader(t, Len(data)) /\ Kept(r, t) /\ t.error = r.error /\ t.offset = to
             /\ t.got = r.got
BY DEF Reader, Kept

LEMMA AlignedKeeps ==
  ASSUME NEW r, NEW a \in Alignments, Reader(r, Len(data))
  PROVE  LET t == ReadAligned(r, a)
         IN  /\ Reader(t, Len(data)) /\ Kept(r, t) /\ t.error = r.error
             /\ t.offset = Place(r.offset, r.origin, a)
<1> DEFINE to == r.offset + Padding(r.offset - r.origin, a)
           t == [r EXCEPT !.offset = to]
<1>1. to = Place(r.offset, r.origin, a) /\ to \in Nat /\ r.offset <= to
  <2>1. r.offset \in Nat /\ r.origin \in Nat
    BY ReaderFields
  <2>2. r.offset - r.origin \in Int
    BY <2>1
  <2>3. Padding(r.offset - r.origin, a) \in Nat
    BY ONLY <2>2, PaddingNat
  <2>4. a # 0
    BY DEF Alignments
  <2> QED
    BY <2>1, <2>3, <2>4 DEF Place
<1>2. ReadAligned(r, a) = t
  BY DEF ReadAligned
<1> HIDE DEF to
<1>3. Reader(t, Len(data)) /\ Kept(r, t) /\ t.error = r.error /\ t.offset = to
  BY <1>1, MovedKeeps
<1> QED
  BY <1>1, <1>2, <1>3

\* A number is read at its place, or the view ends before it does.
LEMMA NumberReads ==
  ASSUME NEW r, Reader(r, Len(data)), r.error = "", NEW n \in Alignments, NEW order
  PROVE  LET t == ReadNumber(r, n, order)
             p == Place(r.offset, r.origin, UnitOf(kind, n))
         IN  /\ Reader(t, Len(data)) /\ Kept(r, t)
             /\ p \in Nat /\ r.offset <= p
             /\ p + n > r.limit => t.error = "struct.error"
             /\ ~(p + n > r.limit) =>
                  /\ t.error = "" /\ t.offset = p + n
                  /\ t.got = <<Decoded(SubSeq(data, p + 1, p + n), order)>>
<1> DEFINE s == ReadAligned(r, AlignmentOf(n))
           p == Place(r.offset, r.origin, UnitOf(kind, n))
           u == [s EXCEPT !.offset = s.offset + n]
           vs == <<Decoded(SubSeq(data, s.offset + 1, s.offset + n), order)>>
           t == ReadNumber(r, n, order)
<1> SUFFICES /\ Reader(t, Len(data)) /\ Kept(r, t)
             /\ p \in Nat /\ r.offset <= p
             /\ p + n > r.limit => t.error = "struct.error"
             /\ ~(p + n > r.limit) =>
                  /\ t.error = "" /\ t.offset = p + n
                  /\ t.got = <<Decoded(SubSeq(data, p + 1, p + n), order)>>
  OBVIOUS
<1>1. n \in Nat /\ UnitOf(kind, n) \in Alignments /\ AlignmentOf(n) = UnitOf(kind, n)
  BY UnitType, WidthNat
<1>2. p \in Nat /\ r.offset <= p
  BY <1>1, ReaderFields, PlaceNat
<1>3. Reader(s, Len(data)) /\ Kept(r, s) /\ s.error = r.error /\ s.offset = p
  BY <1>1, AlignedKeeps
<1>4. t = IF s.offset + n > r.limit THEN Fails(s, "struct.error") ELSE Returns(u, vs)
  BY DEF ReadNumber
<1> HIDE DEF t, s, vs, p
<1>5. Reader(u, Len(data)) /\ Kept(s, u) /\ u.offset = p + n
  <2>1. s.offset \in Nat /\ n \in Nat /\ s.offset = p
    BY <1>1, <1>2, <1>3
  <2>2. s.offset + n \in Nat /\ s.offset <= s.offset + n
    BY ONLY <2>1
  <2>3. Reader(u, Len(data)) /\ Kept(s, u) /\ u.offset = s.offset + n
    BY <1>3, <2>2, MovedKeeps
  <2> QED
    BY <2>1, <2>3
<1> HIDE DEF u
<1>6. CASE p + n > r.limit
  <2>1. t = Fails(s, "struct.error")
    BY <1>3, <1>4, <1>6
  <2>2. Reader(t, Len(data)) /\ Kept(s, t) /\ t.error = "struct.error"
    BY <1>3, <2>1, FailsKeeps
  <2>3. Kept(r, t)
    BY <1>3, <2>2, KeptTransitive
  <2> QED
    BY <1>2, <1>6, <2>2, <2>3
<1>7. CASE ~(p + n > r.limit)
  <2>1. t = Returns(u, vs)
    BY <1>3, <1>4, <1>7
  <2>2. vs = <<Decoded(SubSeq(data, p + 1, p + n), order)>>
    BY <1>3 DEF vs
  <2>3. /\ Reader(t, Len(data)) /\ Kept(u, t) /\ t.error = "" /\ t.got = vs
        /\ t.offset = u.offset
    BY <1>5, <2>1, ReturnsKeeps
  <2>4. Kept(r, t)
    BY <1>3, <1>5, <2>3, KeptTransitive
  <2> QED
    BY <1>2, <1>5, <1>7, <2>2, <2>3, <2>4
<1> QED
  BY <1>6, <1>7

LEMMA NumberReadKeeps ==
  ASSUME NEW r, Reader(r, Len(data)), NEW n \in Alignments, NEW order
  PROVE  LET t == ReadNumber(r, n, order)
         IN  /\ Reader(t, Len(data)) /\ Kept(r, t)
             /\ r.error # "" => t = r
<1>1. CASE r.error = ""
  BY <1>1, NumberReads
<1>2. CASE r.error # ""
  BY <1>2 DEF ReadNumber, Kept
<1> QED
  BY <1>1, <1>2

LEMMA WordKeeps ==
  ASSUME NEW r, Reader(r, Len(data))
  PROVE  /\ Reader(ReadUint32(r), Len(data)) /\ Kept(r, ReadUint32(r))
         /\ r.error # "" => ReadUint32(r) = r
         /\ Reader(ReadUint16(r), Len(data)) /\ Kept(r, ReadUint16(r))
         /\ r.error # "" => ReadUint16(r) = r
<1>1. 2 \in Alignments /\ 4 \in Alignments
  BY DEF Alignments
<1> QED
  BY <1>1, NumberReadKeeps DEF ReadUint32, ReadUint16

\* Bytes of the data are the bytes of values.
LEMMA DecodedType ==
  ASSUME RoomInv, NEW p \in Nat, NEW n \in Alignments, NEW order, p + n <= Len(data)
  PROVE  LET v == Decoded(SubSeq(data, p + 1, p + n), order) IN v \in Seq(Nat) \/ v = Garbled
<1> DEFINE bytes == SubSeq(data, p + 1, p + n)
<1>1. data \in Seq(Byte) /\ Len(data) \in Nat /\ n \in Nat /\ 1 <= n
  BY WriterFields, WidthNat
<1>2. bytes[1] = data[p + 1] /\ p + 1 \in 1..Len(data)
  BY <1>1
<1>3. bytes[1].of \in Seq(Nat)
  <2>1. data[p + 1] \in Byte
    BY <1>1, <1>2
  <2> HIDE DEF bytes
  <2> QED
    BY <1>2, <2>1 DEF Byte
<1> HIDE DEF bytes
<1>4. Decoded(bytes, order) \in Seq(Nat) \/ Decoded(bytes, order) = Garbled
  BY <1>3 DEF Decoded
<1> QED
  BY <1>4 DEF bytes

LEMMA LengthKeeps ==
  ASSUME RoomInv, NEW r, Reader(r, Len(data))
  PROVE  LET t == ReadLength(r)
         IN  /\ Reader(t, Len(data)) /\ Kept(r, t)
             /\ r.error = "" /\ t.error = "" => t.got[1][1] \in Nat
<1> DEFINE s == ReadUint32(r)
           t == ReadLength(r)
           p == Place(r.offset, r.origin, UnitOf(kind, 4))
<1> SUFFICES /\ Reader(t, Len(data)) /\ Kept(r, t)
             /\ r.error = "" /\ t.error = "" => t.got[1][1] \in Nat
  OBVIOUS
<1>1. Reader(s, Len(data)) /\ Kept(r, s)
  BY WordKeeps
<1>2. t = IF s.error = "" /\ (Len(s.got[1]) # 1 \/ s.got = <<Garbled>>)
          THEN Fails(s, "garbled") ELSE s
  BY DEF ReadLength
<1>3. ASSUME r.error = "", s.error = ""
      PROVE  s.got = <<s.got[1]>> /\ (s.got[1] \in Seq(Nat) \/ s.got[1] = Garbled)
  <2>1. 4 \in Alignments
    BY DEF Alignments
  <2>2. /\ p \in Nat
        /\ p + 4 > r.limit => s.error = "struct.error"
        /\ ~(p + 4 > r.limit) => s.got = <<Decoded(SubSeq(data, p + 1, p + 4), Order(kind))>>
    BY <1>3, <2>1, NumberReads DEF ReadUint32
  <2>3. ~(p + 4 > r.limit)
    BY <1>3, <2>2
  <2> HIDE DEF p
  <2>4. p + 4 <= Len(data)
    <3>1. r.limit \in 4..Len(data) /\ Len(data) \in Nat /\ p \in Nat
      BY <2>2, ReaderFields, WriterFields
    <3> QED
      BY ONLY <2>3, <3>1
  <2> DEFINE v == Decoded(SubSeq(data, p + 1, p + 4), Order(kind))
  <2>5. v \in Seq(Nat) \/ v = Garbled
    BY <2>1, <2>2, <2>4, DecodedType
  <2>6. s.got = <<v>>
    BY <2>2, <2>3
  <2> HIDE DEF v, s
  <2>7. s.got[1] = v
    BY <2>6
  <2> QED
    BY <2>5, <2>6, <2>7
<1> HIDE DEF s, t
<1>4. CASE s.error = "" /\ (Len(s.got[1]) # 1 \/ s.got = <<Garbled>>)
  <2>1. t = Fails(s, "garbled")
    BY <1>2, <1>4
  <2>2. Reader(t, Len(data)) /\ Kept(s, t) /\ t.error = "garbled"
    BY <1>1, <2>1, FailsKeeps
  <2> QED
    BY <1>1, <2>2, KeptTransitive
<1>5. CASE ~(s.error = "" /\ (Len(s.got[1]) # 1 \/ s.got = <<Garbled>>))
  <2>1. t = s
    BY <1>2, <1>5
  <2>2. ASSUME r.error = "", t.error = "" PROVE t.got[1][1] \in Nat
    <3> DEFINE v == s.got[1]
    <3>1. Len(v) = 1 /\ v # Garbled /\ v \in Seq(Nat)
      BY <1>3, <1>5, <2>1, <2>2
    <3> HIDE DEF v
    <3>2. v[1] \in Nat
      BY ONLY <3>1
    <3> QED
      BY <2>1, <3>2 DEF v
  <2> QED
    BY <1>1, <2>1, <2>2
<1> QED
  BY <1>4, <1>5

\* A reader that goes on by n bytes and returns vs.
LEMMA GoneOn ==
  ASSUME NEW r, Reader(r, Len(data)), NEW n \in Nat, NEW vs
  PROVE  LET s == [r EXCEPT !.offset = r.offset + n]
             t == Returns(s, vs)
         IN  /\ Reader(s, Len(data)) /\ Kept(r, s)
             /\ Reader(t, Len(data)) /\ Kept(r, t)
             /\ t.error = "" /\ t.got = vs /\ t.offset = r.offset + n
<1> DEFINE s == [r EXCEPT !.offset = r.offset + n]
           t == Returns(s, vs)
<1>1. r.offset \in Nat /\ n \in Nat
  BY ReaderFields
<1>2. r.offset + n \in Nat /\ r.offset <= r.offset + n
  BY ONLY <1>1
<1>3. Reader(s, Len(data)) /\ Kept(r, s) /\ s.offset = r.offset + n
  BY <1>2, MovedKeeps
<1> HIDE DEF s
<1>4. Reader(t, Len(data)) /\ Kept(s, t) /\ t.error = "" /\ t.got = vs /\ t.offset = s.offset
  BY <1>3, ReturnsKeeps
<1> HIDE DEF t
<1>5. Kept(r, t)
  BY <1>3, <1>4, KeptTransitive
<1>6. /\ Reader(s, Len(data)) /\ Kept(r, s)
      /\ Reader(t, Len(data)) /\ Kept(r, t)
      /\ t.error = "" /\ t.got = vs /\ t.offset = r.offset + n
  BY <1>3, <1>4, <1>5
<1> QED
  BY <1>6 DEF s, t

LEMMA CharsRead ==
  ASSUME NEW r, Reader(r, Len(data)), NEW n \in Nat, r.error = ""
  PROVE  LET t == ReadChars(r, n)
         IN  /\ Reader(t, Len(data)) /\ Kept(r, t) /\ t.error = "" /\ t.offset = r.offset + n
             /\ t.got = IF n <= 1 THEN <<>> ELSE Slice(r, n - 1)
<1> DEFINE vs == IF n <= 1 THEN <<>> ELSE Slice(r, n - 1)
           s == [r EXCEPT !.offset = r.offset + n]
<1>1. ReadChars(r, n) = Returns(s, vs)
  BY DEF ReadChars
<1> HIDE DEF vs
<1>2. /\ Reader(Returns(s, vs), Len(data)) /\ Kept(r, Returns(s, vs))
      /\ Returns(s, vs).error = "" /\ Returns(s, vs).got = vs
      /\ Returns(s, vs).offset = r.offset + n
  BY GoneOn
<1> QED
  BY <1>1, <1>2 DEF vs

LEMMA StringKeeps ==
  ASSUME RoomInv, NEW r, Reader(r, Len(data)), r.error = ""
  PROVE  Reader(ReadString(r), Len(data)) /\ Kept(r, ReadString(r))
<1> DEFINE s == ReadLength(r)
           t == ReadString(r)
<1> SUFFICES Reader(t, Len(data)) /\ Kept(r, t)
  OBVIOUS
<1>1. Reader(s, Len(data)) /\ Kept(r, s) /\ (s.error = "" => s.got[1][1] \in Nat)
  BY LengthKeeps
<1>2. t = IF s.error # "" THEN s ELSE ReadChars(s, s.got[1][1])
  BY DEF ReadString
<1> HIDE DEF s, t
<1>3. CASE s.error # ""
  BY <1>1, <1>2, <1>3
<1>4. CASE s.error = ""
  <2>1. Reader(t, Len(data)) /\ Kept(s, t)
    BY <1>1, <1>2, <1>4, CharsRead
  <2> QED
    BY <1>1, <2>1, KeptTransitive
<1> QED
  BY <1>3, <1>4

\* Items are read at their place; an empty array is not looked for.
LEMMA ArrayReads ==
  ASSUME NEW r, Reader(r, Len(data)), r.error = "", NEW n \in Alignments, NEW count \in Nat
  PROVE  LET t == ReadArray(r, n, count)
             s == ReadAligned(r, AlignmentOf(n))
             bytes == Slice(s, n * count)
         IN  /\ Reader(t, Len(data)) /\ Kept(r, t) /\ t.error \in {"", "struct.error"}
             /\ Kept(r, s) /\ s.offset = Place(r.offset, r.origin, UnitOf(kind, n))
             /\ count = 0 => t.error = "" /\ t.offset = r.offset /\ t.got = <<>>
             /\ count # 0 /\ t.error = "" =>
                  /\ t.offset = s.offset + n * count
                  /\ t.got = [i \in 1..(Len(bytes) \div n) |->
                                Decoded(SubSeq(bytes, (i - 1) * n + 1, i * n), Order(kind))]
             /\ count # 0 /\ ~(Len(bytes) < n * count) => t.error = ""
<1> DEFINE s == ReadAligned(r, AlignmentOf(n))
           bytes == Slice(s, n * count)
           x == [s EXCEPT !.offset = s.offset + n * count]
           vs == [i \in 1..(Len(bytes) \div n) |->
                    Decoded(SubSeq(bytes, (i - 1) * n + 1, i * n), Order(kind))]
           cut == Len(bytes) < n * count /\ (Len(bytes) % n # 0 \/ (~LittleEndian(kind) /\ n > 1))
           t == ReadArray(r, n, count)
<1> SUFFICES
      /\ Reader(t, Len(data)) /\ Kept(r, t) /\ t.error \in {"", "struct.error"}
      /\ Kept(r, s) /\ s.offset = Place(r.offset, r.origin, UnitOf(kind, n))
      /\ count = 0 => t.error = "" /\ t.offset = r.offset /\ t.got = <<>>
      /\ count # 0 /\ t.error = "" => t.offset = s.offset + n * count /\ t.got = vs
      /\ count # 0 /\ ~(Len(bytes) < n * count) => t.error = ""
  OBVIOUS
<1>1. AlignmentOf(n) \in Alignments /\ AlignmentOf(n) = UnitOf(kind, n) /\ n \in Nat
  BY UnitType, WidthNat
<1>2. /\ Reader(s, Len(data)) /\ Kept(r, s)
      /\ s.offset = Place(r.offset, r.origin, UnitOf(kind, n))
  BY <1>1, AlignedKeeps
<1>3. t = IF count = 0 THEN Returns(r, <<>>)
          ELSE IF cut THEN Fails(x, "struct.error") ELSE Returns(x, vs)
  BY DEF ReadArray
<1>4. n * count \in Nat
  BY ONLY <1>1, count \in Nat
<1> HIDE DEF t, s, vs
<1>5. /\ Reader(x, Len(data)) /\ Kept(r, x)
      /\ Reader(Returns(x, vs), Len(data)) /\ Kept(r, Returns(x, vs))
      /\ Returns(x, vs).error = "" /\ Returns(x, vs).got = vs
      /\ Returns(x, vs).offset = s.offset + n * count
  <2> DEFINE y == Returns(x, vs)
  <2>1. /\ Reader(x, Len(data)) /\ Kept(s, x) /\ Reader(y, Len(data)) /\ Kept(s, y)
        /\ y.error = "" /\ y.got = vs /\ y.offset = s.offset + n * count
    <3> DEFINE m == n * count
    <3>1. m \in Nat /\ Reader(s, Len(data))
      BY <1>2, <1>4
    <3> HIDE DEF m
    <3>2. LET u == [s EXCEPT !.offset = s.offset + m]
          IN  /\ Reader(u, Len(data)) /\ Kept(s, u)
              /\ Reader(Returns(u, vs), Len(data)) /\ Kept(s, Returns(u, vs))
              /\ Returns(u, vs).error = "" /\ Returns(u, vs).got = vs
              /\ Returns(u, vs).offset = s.offset + m
      BY ONLY <3>1, GoneOn
    <3> QED
      BY <3>2 DEF m
  <2> HIDE DEF x, y
  <2>2. Kept(r, x) /\ Kept(r, y)
    BY <1>2, <2>1, KeptTransitive
  <2> QED
    BY <2>1, <2>2 DEF y
<1>6. cut => Len(bytes) < n * count
  OBVIOUS
<1> HIDE DEF x, cut, bytes
<1>7. CASE count = 0
  BY <1>2, <1>3, <1>7, ReturnsKeeps
<1>8. CASE count # 0 /\ cut
  <2>1. t = Fails(x, "struct.error")
    BY <1>3, <1>8
  <2>2. Reader(t, Len(data)) /\ Kept(x, t) /\ t.error = "struct.error"
    BY <1>5, <2>1, FailsKeeps
  <2>3. Kept(r, t)
    BY <1>5, <2>2, KeptTransitive
  <2> QED
    BY <1>2, <1>6, <1>8, <2>2, <2>3
<1>9. CASE count # 0 /\ ~cut
  <2>1. t = Returns(x, vs)
    BY <1>3, <1>9
  <2> QED
    BY <1>2, <1>5, <1>9, <2>1
<1> QED
  BY <1>7, <1>8, <1>9

LEMMA SequenceKeeps ==
  ASSUME RoomInv, NEW r, Reader(r, Len(data)), r.error = "", NEW n \in Alignments
  PROVE  Reader(ReadSequence(r, n), Len(data)) /\ Kept(r, ReadSequence(r, n))
<1> DEFINE s == ReadLength(r)
           t == ReadSequence(r, n)
<1> SUFFICES Reader(t, Len(data)) /\ Kept(r, t)
  OBVIOUS
<1>1. Reader(s, Len(data)) /\ Kept(r, s) /\ (s.error = "" => s.got[1][1] \in Nat)
  BY LengthKeeps
<1>2. t = IF s.error # "" THEN s ELSE ReadArray(s, n, s.got[1][1])
  BY DEF ReadSequence
<1> HIDE DEF s, t
<1>3. CASE s.error # ""
  BY <1>1, <1>2, <1>3
<1>4. CASE s.error = ""
  <2>1. Reader(t, Len(data)) /\ Kept(s, t)
    BY <1>1, <1>2, <1>4, ArrayReads
  <2> QED
    BY <1>1, <2>1, KeptTransitive
<1> QED
  BY <1>3, <1>4

\* A header ends with an error, an answer, or an answer and a new origin.
LEMMA HeaderV1Keeps ==
  ASSUME NEW r, Reader(r, Len(data)), r.error = ""
  PROVE  Reader(ReadHeaderV1(r), Len(data)) /\ ReadHeaderV1(r).limit = r.limit
<1> DEFINE head == ReadUint16(ReadAligned(r, 4))
           long == ReadUint32(ReadUint16(head))
           size == IF head.got[1][2] = ExtendedPid THEN ReadUint32(long) ELSE ReadUint16(head)
           id == IF head.got[1][2] = ExtendedPid THEN long.got[1][1] ELSE head.got[1][2]
           moved == [size EXCEPT !.origin = size.offset]
           vs == <<<<head.got[1][1], id, size.got[1][1]>>>>
           t == ReadHeaderV1(r)
<1>1. Reader(head, Len(data)) /\ Kept(r, head)
  <2>1. 4 \in Alignments
    BY DEF Alignments
  <2>2. Reader(ReadAligned(r, 4), Len(data)) /\ Kept(r, ReadAligned(r, 4))
    BY <2>1, AlignedKeeps
  <2> QED
    BY <2>2, WordKeeps, KeptTransitive
<1>2. \/ t = head
      \/ t = Fails(head, "ValueError")
      \/ t = Returns(head, <<<<SentinelPid, 0>>>>)
      \/ t = size
      \/ t = Returns(moved, vs)
  BY DEF ReadHeaderV1
<1> HIDE DEF head, t, vs
<1>3. Reader(long, Len(data)) /\ Kept(r, long)
  BY <1>1, WordKeeps, KeptTransitive
<1> HIDE DEF long
<1>4. Reader(size, Len(data)) /\ Kept(r, size)
  BY <1>1, <1>3, WordKeeps, KeptTransitive
<1> HIDE DEF size
<1>5. Reader(moved, Len(data)) /\ moved.limit = r.limit
  BY <1>4 DEF Reader, Kept
<1> HIDE DEF moved
<1>6. Reader(t, Len(data)) /\ t.limit = r.limit
  <2>1. CASE t = head \/ t = size
    BY <1>1, <1>4, <2>1 DEF Kept
  <2>2. CASE t = Fails(head, "ValueError")
    BY <1>1, <2>2, FailsKeeps DEF Kept
  <2>3. CASE t = Returns(head, <<<<SentinelPid, 0>>>>)
    BY <1>1, <2>3, ReturnsKeeps DEF Kept
  <2>4. CASE t = Returns(moved, vs)
    BY <1>5, <2>4, ReturnsKeeps DEF Kept
  <2> QED
    BY <1>2, <2>1, <2>2, <2>3, <2>4
<1> QED
  BY <1>6 DEF t

LEMMA HeaderV2Keeps ==
  ASSUME NEW r, Reader(r, Len(data)), r.error = ""
  PROVE  Reader(ReadHeaderV2(r), Len(data)) /\ ReadHeaderV2(r).limit = r.limit
<1> DEFINE head == ReadUint32(r)
           size == ReadUint32(head)
           t == ReadHeaderV2(r)
<1>1. Reader(head, Len(data)) /\ Kept(r, head)
  BY WordKeeps
<1>2. \/ t = head
      \/ t = Fails(head, "ValueError")
      \/ \E vs : t = Returns(head, vs)
      \/ t = size
      \/ \E vs : t = Returns(size, vs)
  BY DEF ReadHeaderV2
<1> HIDE DEF head, t
<1>3. Reader(size, Len(data)) /\ Kept(r, size)
  BY <1>1, WordKeeps, KeptTransitive
<1> HIDE DEF size
<1>4. Reader(t, Len(data)) /\ t.limit = r.limit
  <2>1. CASE t = head \/ t = size
    BY <1>1, <1>3, <2>1 DEF Kept
  <2>2. CASE t = Fails(head, "ValueError")
    BY <1>1, <2>2, FailsKeeps DEF Kept
  <2>3. CASE \E vs : t = Returns(head, vs)
    <3>1. PICK vs : t = Returns(head, vs)
      BY <2>3
    <3> QED
      BY <1>1, <3>1, ReturnsKeeps DEF Kept
  <2>4. CASE \E vs : t = Returns(size, vs)
    <3>1. PICK vs : t = Returns(size, vs)
      BY <2>4
    <3> QED
      BY <1>3, <3>1, ReturnsKeeps DEF Kept
  <2> QED
    BY <1>2, <2>1, <2>2, <2>3, <2>4
<1> QED
  BY <1>4 DEF t

LEMMA MemberKept ==
  ASSUME NEW r, Reader(r, Len(data)), r.error = ""
  PROVE  Reader(ReadMember(r), Len(data)) /\ ReadMember(r).limit = r.limit
BY HeaderV1Keeps, HeaderV2Keeps DEF ReadMember

LEMMA SentinelKept ==
  ASSUME NEW r, Reader(r, Len(data)), r.error = ""
  PROVE  Reader(ReadSentinel(r), Len(data)) /\ Kept(r, ReadSentinel(r))
<1> DEFINE head == ReadUint16(ReadAligned(r, 4))
           s == ReadUint16(head)
           t == ReadSentinel(r)
<1>1. Reader(head, Len(data)) /\ Kept(r, head)
  <2>1. 4 \in Alignments
    BY DEF Alignments
  <2>2. Reader(ReadAligned(r, 4), Len(data)) /\ Kept(r, ReadAligned(r, 4))
    BY <2>1, AlignedKeeps
  <2> QED
    BY <2>2, WordKeeps, KeptTransitive
<1>2. \/ t = Returns(r, <<>>)
      \/ t = head
      \/ t = Fails(head, "ValueError")
      \/ t = s
      \/ t = Returns(s, <<>>)
  BY DEF ReadSentinel
<1> HIDE DEF head, t
<1>3. Reader(s, Len(data)) /\ Kept(r, s)
  BY <1>1, WordKeeps, KeptTransitive
<1> HIDE DEF s
<1>4. Reader(t, Len(data)) /\ Kept(r, t)
  <2>1. CASE t = head \/ t = s
    BY <1>1, <1>3, <2>1
  <2>2. CASE t = Fails(head, "ValueError")
    BY <1>1, <2>2, FailsKeeps, KeptTransitive
  <2>3. CASE t = Returns(r, <<>>)
    BY <2>3, ReturnsKeeps
  <2>4. CASE t = Returns(s, <<>>)
    BY <1>3, <2>4, ReturnsKeeps, KeptTransitive
  <2> QED
    BY <1>2, <2>1, <2>2, <2>3, <2>4
<1> QED
  BY <1>4 DEF t

\* Every call of a reader, whatever was written, leaves a reader of the same view.
LEMMA CallKept ==
  ASSUME RoomInv, NEW r, Reader(r, Len(data)), r.error = "", NEW c \in Calls,
         NEW s \in ReadBack(r, c)
  PROVE  Reader(s, Len(data)) /\ s.limit = r.limit
<1>1. CASE c.op = "number"
  <2>1. c.width \in Alignments
    BY <1>1, CallTypes
  <2>2. s = ReadNumber(r, c.width, c.order)
    BY <1>1 DEF ReadBack, ReadCall
  <2> QED
    BY <2>1, <2>2, NumberReadKeeps DEF Kept
<1>2. CASE c.op = "text"
  <2>1. c.width + 1 \in Nat
    <3>1. c.width \in Nat
      BY <1>2, CallTypes
    <3> QED
      BY ONLY <3>1
  <2>2. s = ReadString(r) \/ s = ReadStringOf(r, c.width + 1)
    BY <1>2 DEF ReadBack, ReadCall
  <2>3. CASE s = ReadString(r)
    BY <2>3, StringKeeps DEF Kept
  <2>4. CASE s = ReadStringOf(r, c.width + 1)
    BY <2>1, <2>4, CharsRead DEF Kept, ReadStringOf
  <2> QED
    BY <2>2, <2>3, <2>4
<1>3. CASE c.op = "array"
  <2>1. c.width \in Alignments /\ Len(c.values) \in Nat
    BY <1>3, CallTypes
  <2>2. s = ReadSequence(r, c.width) \/ s = ReadArray(r, c.width, Len(c.values))
    BY <1>3 DEF ReadBack, ReadCall
  <2>3. CASE s = ReadSequence(r, c.width)
    BY <2>1, <2>3, SequenceKeeps DEF Kept
  <2>4. CASE s = ReadArray(r, c.width, Len(c.values))
    BY <2>1, <2>4, ArrayReads DEF Kept
  <2> QED
    BY <2>2, <2>3, <2>4
<1>4. CASE c.op = "member"
  <2>1. s = ReadMember(r)
    BY <1>4 DEF ReadBack, ReadCall
  <2> QED
    BY <2>1, MemberKept
<1>5. CASE c.op = "sentinel"
  <2>1. s = ReadMember(r) \/ s = ReadSentinel(r)
    BY <1>5 DEF ReadBack
  <2> QED
    BY <2>1, MemberKept, SentinelKept DEF Kept
<1>6. CASE c.op = "align"
  <2> DEFINE t == IF c.width = 0 THEN r ELSE ReadAligned(r, c.width)
  <2>1. s = Returns(t, <<>>)
    BY <1>6 DEF ReadBack, ReadCall
  <2>2. Reader(t, Len(data)) /\ Kept(r, t)
    <3>1. CASE c.width = 0
      BY <3>1 DEF Kept
    <3>2. CASE c.width # 0
      <4>1. c.width \in Alignments
        BY <1>6, <3>2, CallTypes
      <4> QED
        BY <3>2, <4>1, AlignedKeeps
    <3> QED
      BY <3>1, <3>2
  <2> HIDE DEF t
  <2> QED
    BY <2>1, <2>2, ReturnsKeeps DEF Kept
<1>7. CASE c.op = "origin"
  <2> DEFINE t == [r EXCEPT !.origin = r.offset]
  <2>1. s = Returns(t, <<>>)
    BY <1>7 DEF ReadBack, ReadCall
  <2>2. Reader(t, Len(data)) /\ t.limit = r.limit
    BY DEF Reader
  <2> HIDE DEF t
  <2> QED
    BY <2>1, <2>2, ReturnsKeeps DEF Kept
<1>8. c.op \in {"number", "text", "array", "member", "sentinel", "align", "origin"}
  BY DEF Calls
<1> QED
  BY <1>1, <1>2, <1>3, <1>4, <1>5, <1>6, <1>7, <1>8

-----------------------------------------------------------------------------
(* The types of the stream *)

LEMMA CallsIn ==
  ASSUME NEW end \in Nat
  PROVE  /\ \A n \in Alignments, order \in Orders, x \in Nat :
              [op |-> "number", width |-> n, order |-> order, values |-> <<<<x>>>>, end |-> end] \in Calls
         /\ \A n \in Nat, given \in BOOLEAN :
              [op |-> "text", width |-> n, length |-> given, end |-> end] \in Calls
         /\ \A how \in {"bulk", "each"}, n \in Alignments, given \in BOOLEAN, vs \in Seq(Seq(Nat)) :
              [op |-> "array", how |-> how, width |-> n, length |-> given, values |-> vs,
               end |-> end] \in Calls
         /\ \A op \in {"member", "sentinel", "align", "origin"}, n \in {0} \cup Alignments,
               vs \in Seq(Seq(Nat)) :
              [op |-> op, width |-> n, values |-> vs, end |-> end] \in Calls
<1>1. ASSUME NEW n \in Alignments, NEW order \in Orders, NEW x \in Nat
      PROVE  [op |-> "number", width |-> n, order |-> order, values |-> <<<<x>>>>, end |-> end] \in Calls
  <2>1. <<<<x>>>> \in Seq(Seq(Nat))
    OBVIOUS
  <2> QED
    BY <2>1 DEF Calls
<1>2. \A n \in Nat, given \in BOOLEAN :
        [op |-> "text", width |-> n, length |-> given, end |-> end] \in Calls
  BY DEF Calls
<1>3. \A how \in {"bulk", "each"}, n \in Alignments, given \in BOOLEAN, vs \in Seq(Seq(Nat)) :
        [op |-> "array", how |-> how, width |-> n, length |-> given, values |-> vs,
         end |-> end] \in Calls
  BY DEF Calls
<1>4. \A op \in {"member", "sentinel", "align", "origin"}, n \in {0} \cup Alignments,
         vs \in Seq(Seq(Nat)) : [op |-> op, width |-> n, values |-> vs, end |-> end] \in Calls
  BY DEF Calls
<1> QED
  BY <1>1, <1>2, <1>3, <1>4

-----------------------------------------------------------------------------
(* What the calculator makes of an array *)

\* Induction over the numbers, in the form it takes here.
LEMMA NatInduct ==
  ASSUME NEW S, 0 \in S, \A n \in Nat : n \in S => n + 1 \in S
  PROVE  Nat \subseteq S
<1> SUFFICES ASSUME ~(Nat \subseteq S) PROVE FALSE
  OBVIOUS
<1> DEFINE R == {ss \in Nat \X Nat : ss[1] < ss[2]}
           T == {n \in Nat : n \notin S}
<1>1. IsWellFoundedOn(R, Nat)
  BY NatLessThanWellFounded DEF OpToRel
<1>2. T \subseteq Nat /\ T # {}
  OBVIOUS
<1>3. \A x, y \in Nat : x < y => <<x, y>> \in R
  OBVIOUS
<1> HIDE DEF R
<1>4. \E x \in T : \A y \in T : ~(<<y, x>> \in R)
  BY <1>1, <1>2, WFMin
<1>5. PICK x \in T : \A y \in T : ~(<<y, x>> \in R)
  BY <1>4
<1>6. x \in Nat /\ x \notin S /\ x # 0
  OBVIOUS
<1>7. x - 1 \in Nat /\ x - 1 < x /\ (x - 1) + 1 = x
  BY <1>6
<1>8. x - 1 \notin S
  BY <1>6, <1>7
<1>9. <<x - 1, x>> \in R /\ x - 1 \in T
  BY <1>3, <1>6, <1>7, <1>8
<1> QED
  BY <1>5, <1>9

\* Behind one item there is no padding before the next.
LEMMA CountedAgain ==
  ASSUME NEW at \in Nat, NEW n \in Alignments, NEW i \in Nat
  PROVE  /\ CountedNumber(at, n) = Place(at, 4, n) + n
         /\ CountedNumber(Place(at, 4, n) + n * (i + 1), n) = Place(at, 4, n) + n * (i + 2)
<1>1. n \in Nat /\ Place(at, 4, n) \in Nat
  BY WidthNat, PlaceNat
<1>2. \A x \in Nat : CountedNumber(x, n) = Place(x, 4, n) + n
  BY DEF CountedNumber, Place, Alignments
<1>3. Place(Place(at, 4, n) + n * (i + 1), 4, n) = Place(at, 4, n) + n * (i + 1)
  <2> DEFINE p == Place(at, 4, n)
             x == p + n * (i + 1)
  <2>1. (p - 4) % n = 0
    <3>1. p = at + Padding(at - 4, n)
      BY DEF Place, Alignments
    <3> HIDE DEF p
    <3> QED
      BY <1>1, <3>1 DEF Padding, Alignments
  <2> HIDE DEF p
  <2>2. p \in Nat
    BY <1>1 DEF p
  <2>3. x \in Nat /\ (x - 4) % n = 0
    <3>1. i \in Nat
      OBVIOUS
    <3> QED
      BY ONLY n \in Alignments, <2>1, <2>2, <3>1 DEF Alignments
  <2> HIDE DEF x
  <2>4. Place(x, 4, n) = x
    BY ONLY n \in Alignments, <2>3 DEF Place, Padding, Alignments
  <2> QED
    BY <2>4 DEF x, p
<1> DEFINE p == Place(at, 4, n)
           x == p + n * (i + 1)
<1>4. x \in Nat /\ Place(x, 4, n) = x /\ x + n = p + n * (i + 2)
  BY <1>1, <1>3
<1> HIDE DEF x
<1>5. CountedNumber(x, n) = p + n * (i + 2)
  BY <1>2, <1>4
<1> QED
  BY <1>2, <1>5 DEF x

LEMMA CountedItems ==
  ASSUME NEW at \in Nat, NEW n \in Alignments, NEW S, NEW xs \in Seq(S)
  PROVE  CountedArray(at, n, xs)
           = IF Len(xs) = 0 THEN at ELSE Place(at, 4, n) + n * Len(xs)
<1> DEFINE size == Len(xs)
           P(f) == f = [i \in 0..size |-> IF i = 0 THEN at ELSE CountedNumber(f[i - 1], n)]
           g == [i \in 0..size |-> IF i = 0 THEN at ELSE Place(at, 4, n) + n * i]
           f == CHOOSE h : P(h)
<1>1. size \in Nat /\ n \in Nat /\ Place(at, 4, n) \in Nat
  BY LenNat, WidthNat, PlaceNat
<1>2. CountedArray(at, n, xs) = f[size]
  BY DEF CountedArray
<1> HIDE DEF size
<1>3. P(g)
  <2>1. ASSUME NEW i \in 0..size
        PROVE  g[i] = IF i = 0 THEN at ELSE CountedNumber(g[i - 1], n)
    <3>1. CASE i = 0
      BY <3>1
    <3>2. CASE i = 1
      <4>1. g[1] = Place(at, 4, n) + n /\ g[0] = at
        BY <1>1, <3>2
      <4>2. CountedNumber(at, n) = Place(at, 4, n) + n
        BY CountedAgain
      <4> QED
        BY <3>2, <4>1, <4>2
    <3>3. CASE i > 1
      <4> DEFINE j == i - 2
      <4>1. j \in Nat /\ i = j + 2 /\ i - 1 = j + 1 /\ i - 1 \in 0..size /\ i # 0 /\ i - 1 # 0
        BY <1>1, <3>3
      <4> HIDE DEF j
      <4>2. g[i] = Place(at, 4, n) + n * (j + 2) /\ g[i - 1] = Place(at, 4, n) + n * (j + 1)
        BY <4>1
      <4>3. CountedNumber(Place(at, 4, n) + n * (j + 1), n) = Place(at, 4, n) + n * (j + 2)
        BY <4>1, CountedAgain
      <4> QED
        BY <4>1, <4>2, <4>3
    <3> QED
      BY <1>1, <3>1, <3>2, <3>3
  <2> DEFINE h == [i \in 0..size |-> IF i = 0 THEN at ELSE CountedNumber(g[i - 1], n)]
  <2>2. g = h
    BY <2>1
  <2> QED
    BY <2>2
<1>4. P(f)
  <2> HIDE DEF P, g
  <2> QED
    BY <1>3
<1> HIDE DEF f
<1>5. \A i \in 0..size : f[i] = g[i]
  <2> DEFINE T == {i \in Nat : i <= size => f[i] = g[i]}
  <2>1. /\ f[0] = at /\ g[0] = at
        /\ \A i \in 0..size : i # 0 => f[i] = CountedNumber(f[i - 1], n) /\ g[i] = CountedNumber(g[i - 1], n)
    <3> HIDE DEF g
    <3> QED
      BY <1>1, <1>3, <1>4
  <2> HIDE DEF f, g, P
  <2>2. 0 \in T
    BY <2>1
  <2>3. ASSUME NEW i \in Nat, i \in T PROVE i + 1 \in T
    <3>1. ASSUME i + 1 <= size PROVE f[i + 1] = g[i + 1]
      <4>1. i + 1 \in 0..size /\ i + 1 # 0 /\ (i + 1) - 1 = i /\ i <= size
        BY <1>1, <3>1
      <4>2. f[i] = g[i]
        BY <2>3, <4>1
      <4> QED
        BY <2>1, <4>1, <4>2
    <3> QED
      BY <3>1
  <2> HIDE DEF T
  <2>4. Nat \subseteq T
    BY <2>2, <2>3, NatInduct
  <2> QED
    BY <1>1, <2>4 DEF T
<1>6. f[size] = g[size]
  BY <1>1, <1>5
<1> QED
  BY <1>1, <1>2, <1>6 DEF size

-----------------------------------------------------------------------------
(* What each step of the writer does to the log *)

\* The calls that move the origin, to where they end.
MovesOrigin(k, c) == c.op = "origin" \/ (c.op = "member" /\ ~Cdr2(k))

\* What the calculator makes of a call from at on.
Sized(at, c) ==
  LET from == IF c.length THEN CountedNumber(at, 4) ELSE at
  IN  CASE c.op = "number" -> CountedNumber(at, c.width)
        [] c.op = "text" -> from + c.width + 1
        [] c.op = "array" -> IF Len(c.values) = 0 THEN from
                             ELSE Place(from, 4, c.width) + c.width * Len(c.values)
        [] OTHER -> at

\* A step that makes the call c, which may leave items of an array to write.
Made(c) ==
  /\ c \in Calls /\ c.end = Len(data')
  /\ Idle /\ kind' = kind
  /\ sound' = (sound /\ error' = "")
  /\ written' = IF error' = "" THEN Append(written, c) ELSE written
  /\ counted \in Nat => counted' = Sized(counted, c)
  /\ RoomInv' /\ Grows(data, data')
  /\ ~Idle' => c.op = "array" /\ error' = "" /\ items'.width = c.width
  /\ error' = "" =>
       /\ origin' = IF MovesOrigin(kind, c) THEN c.end ELSE origin
       /\ ~EmptyBulk(c) => Laid(kind, data', Len(data), origin, c, items'.left)

\* A call that leaves nothing to write is made of what it leaves.
LEMMA LengthsAfter ==
  ASSUME RoomInv' PROVE data' \in Seq(Byte) /\ Len(data') \in Nat
BY LenNat DEF RoomInv, TypeOK

LEMMA StaysIdle ==
  ASSUME Idle, UNCHANGED items PROVE Idle' /\ items'.left = <<>> /\ Len(items'.left) = 0
BY DEF Idle

LEMMA LaidEnd == ASSUME NEW n \in Nat PROVE n <= n
OBVIOUS

LEMMA NumberMade == ASSUME RoomInv, WriteNumber PROVE \E c : Made(c)
<1>1. PICK n \in Widths, x \in Numbers :
        \E order \in {Order(kind)} \cup IF n = 1 THEN {} ELSE {"big"} :
          /\ PutNumber(n, order, x)
          /\ Logs([op |-> "number", width |-> n, order |-> order, values |-> <<<<x>>>>,
                   end |-> Len(data')], CountedNumber(counted, n))
  BY DEF WriteNumber
<1>2. PICK order \in Orders :
          /\ PutNumber(n, order, x)
          /\ Logs([op |-> "number", width |-> n, order |-> order, values |-> <<<<x>>>>,
                   end |-> Len(data')], CountedNumber(counted, n))
  BY <1>1, OrderType DEF Orders
<1>3. n \in Alignments /\ x \in Nat
  BY WidthsAssumption, NumbersAssumption
<1> DEFINE c == [op |-> "number", width |-> n, order |-> order, values |-> <<<<x>>>>, end |-> Len(data')]
<1>4. RoomInv' /\ Idle /\ UNCHANGED <<kind, items>>
  BY <1>2, <1>3, NumberKeeps DEF PutNumber
<1>5. /\ Grows(data, data') /\ origin' = origin
      /\ error' = "" => NumberAt(kind, data', Len(data), origin, n, order, <<x>>, Len(data'))
  BY <1>2, <1>3, NumberCall
<1>6. c \in Calls /\ Len(data') \in Nat
  BY <1>3, <1>4, LengthsAfter, CallsIn
<1>7. /\ c.op = "number" /\ c.width = n /\ c.order = order /\ c.values = <<<<x>>>>
      /\ c.end = Len(data')
  OBVIOUS
<1>8. Logs(c, CountedNumber(counted, n))
  BY <1>2
<1> HIDE DEF c
<1>9. ~MovesOrigin(kind, c)
  BY <1>7 DEF MovesOrigin
<1>10. error' = "" => Laid(kind, data', Len(data), origin, c, items'.left)
  BY <1>3, <1>5, <1>6, <1>7, LaidEnd DEF Laid
<1>11. Sized(counted, c) = CountedNumber(counted, n)
  BY <1>7 DEF Sized
<1>12. Idle'
  BY <1>4, StaysIdle
<1> QED
  BY <1>4, <1>5, <1>6, <1>7, <1>8, <1>9, <1>10, <1>11, <1>12 DEF Made, Logs

LEMMA TextMade == ASSUME RoomInv, WriteText PROVE \E c : Made(c)
<1>1. PICK n \in Texts, given \in BOOLEAN :
        /\ PutText(n, given)
        /\ Logs([op |-> "text", width |-> n, length |-> given, end |-> Len(data')],
                IF given THEN CountedText(counted, n) ELSE counted + n + 1)
  BY DEF WriteText
<1>2. n \in Nat
  BY TextsAssumption
<1> DEFINE c == [op |-> "text", width |-> n, length |-> given, end |-> Len(data')]
<1>3. RoomInv' /\ Idle /\ UNCHANGED <<kind, items>>
  BY <1>1, <1>2, TextKeeps DEF PutText
<1>4. /\ Grows(data, data') /\ origin' = origin
      /\ error' = "" =>
           \E q \in Nat : /\ LengthAt(kind, data', Len(data), origin, given, n + 1, q)
                         /\ Len(data') = q + n + 1 /\ Holds(data', q, Text(n))
  BY <1>1, <1>2, TextCall
<1>5. c \in Calls /\ Len(data') \in Nat
  BY <1>2, <1>3, LengthsAfter, CallsIn
<1>6. c.op = "text" /\ c.width = n /\ c.length = given /\ c.end = Len(data')
  OBVIOUS
<1>7. Logs(c, IF given THEN CountedText(counted, n) ELSE counted + n + 1)
  BY <1>1
<1> HIDE DEF c
<1>8. ~MovesOrigin(kind, c)
  BY <1>6 DEF MovesOrigin
<1>9. error' = "" => Laid(kind, data', Len(data), origin, c, items'.left)
  BY <1>4, <1>5, <1>6, LaidEnd DEF Laid, TextAt
<1>10. Sized(counted, c) = IF given THEN CountedText(counted, n) ELSE counted + n + 1
  BY <1>6 DEF Sized, CountedText
<1>11. Idle'
  BY <1>3, StaysIdle
<1> QED
  BY <1>3, <1>4, <1>5, <1>6, <1>7, <1>8, <1>9, <1>10, <1>11 DEF Made, Logs

\* The call of an array.
ArrayLogged(how, n, xs, given, c) ==
  /\ c \in Calls
  /\ c.op = "array" /\ c.how = how /\ c.width = n /\ c.length = given
  /\ c.values = Values(xs) /\ c.end = Len(data')
  /\ sound' = (sound /\ error' = "")
  /\ written' = IF error' = "" THEN Append(written, c) ELSE written
  /\ counted \in Nat => counted' = Sized(counted, c)

LEMMA ArraySized ==
  ASSUME NEW how \in {"bulk", "each"}, NEW n \in Alignments, NEW xs \in Seq(Nat),
         NEW given \in BOOLEAN, ArrayCall(how, n, xs, given), RoomInv'
  PROVE  \E c : ArrayLogged(how, n, xs, given, c)
<1> DEFINE c == [op |-> "array", how |-> how, width |-> n, length |-> given,
                 values |-> Values(xs), end |-> Len(data')]
           from == IF given THEN CountedNumber(counted, 4) ELSE counted
<1>1. Len(data') \in Nat /\ Values(xs) \in Seq(Seq(Nat)) /\ Len(Values(xs)) = Len(xs)
  BY LengthsAfter, ValuesType
<1>2. c \in Calls
  BY <1>1, CallsIn
<1>3. /\ c.op = "array" /\ c.how = how /\ c.width = n /\ c.length = given
      /\ c.values = Values(xs) /\ c.end = Len(data')
  OBVIOUS
<1>4. Logs(c, CountedArray(from, n, xs))
  BY DEF ArrayCall, Values
<1> HIDE DEF c
<1>5. ASSUME counted \in Nat PROVE CountedArray(from, n, xs) = Sized(counted, c)
  <2>1. from \in Nat
    <3>1. 4 \in Alignments /\ 4 \in Nat
      BY DEF Alignments
    <3>2. counted - 4 \in Int
      BY <1>5
    <3>3. Padding(counted - 4, 4) \in Nat
      BY <3>1, <3>2, PaddingNat
    <3> QED
      BY <1>5, <3>1, <3>3 DEF CountedNumber
  <2>2. CountedArray(from, n, xs) = IF Len(xs) = 0 THEN from ELSE Place(from, 4, n) + n * Len(xs)
    <3> HIDE DEF from
    <3> QED
      BY <2>1, CountedItems
  <2> QED
    BY <1>1, <1>3, <2>2 DEF Sized
<1> QED
  BY <1>2, <1>3, <1>4, <1>5 DEF Logs, ArrayLogged

LEMMA BulkMade == ASSUME RoomInv, WriteBulk PROVE \E c : Made(c)
<1>1. PICK n \in Widths, xs \in Arrays, given \in BOOLEAN :
        PutBulk(n, xs, given) /\ ArrayCall("bulk", n, xs, given)
  BY DEF WriteBulk
<1>2. n \in Alignments /\ xs \in Seq(Nat)
  BY WidthsAssumption, ArraysAssumption
<1>3. RoomInv' /\ Idle /\ UNCHANGED <<kind, items>>
  BY <1>1, <1>2, BulkKeeps DEF PutBulk
<1>4. /\ Grows(data, data') /\ origin' = origin
      /\ error' = "" /\ xs # <<>> =>
           \E q \in Nat : /\ LengthAt(kind, data', Len(data), origin, given, Len(xs), q)
                         /\ ItemsAt(kind, data', q, origin, n, Values(xs), Len(xs), Len(data'))
  BY <1>1, <1>2, BulkCall
<1>5. PICK c : ArrayLogged("bulk", n, xs, given, c)
  BY <1>1, <1>2, <1>3, ArraySized, Zenon
<1>6. /\ c \in Calls /\ c.op = "array" /\ c.how = "bulk" /\ c.width = n /\ c.length = given
      /\ c.values = Values(xs) /\ c.end = Len(data')
      /\ sound' = (sound /\ error' = "")
      /\ written' = IF error' = "" THEN Append(written, c) ELSE written
      /\ counted \in Nat => counted' = Sized(counted, c)
  BY <1>5 DEF ArrayLogged
<1>7. ~MovesOrigin(kind, c)
  BY <1>6 DEF MovesOrigin
<1>8. Idle' /\ Len(items'.left) = 0
  BY <1>3, StaysIdle
<1>9. Len(Values(xs)) = Len(xs) /\ Len(xs) \in Nat /\ Len(data') \in Nat
  BY <1>2, <1>3, ValuesType, LenNat, LengthsAfter
<1>10. ASSUME error' = "", ~EmptyBulk(c)
      PROVE  Laid(kind, data', Len(data), origin, c, items'.left)
  <2>1. Values(xs) # <<>>
    BY <1>6, <1>10 DEF EmptyBulk
  <2>2. xs # <<>>
    BY <2>1 DEF Values
  <2> DEFINE left == items'.left
  <2>3. /\ Len(xs) \in 0..Len(xs) /\ Len(xs) + Len(left) = Len(xs)
        /\ \A j \in 1..Len(left) : Values(xs)[Len(xs) + j] = <<left[j]>>
    BY <1>8, <1>9
  <2> HIDE DEF left
  <2>4. ArrayAt(kind, data', Len(data), origin, c, left)
    BY <1>4, <1>6, <1>9, <1>10, <2>2, <2>3 DEF ArrayAt
  <2> QED
    BY <1>6, <1>9, <2>4, LaidEnd DEF Laid, left
<1> QED
  BY <1>3, <1>4, <1>6, <1>7, <1>8, <1>10 DEF Made

LEMMA EachMade == ASSUME RoomInv, WriteEach PROVE \E c : Made(c)
<1>1. PICK n \in Widths, xs \in Arrays, given \in BOOLEAN :
        PutEach(n, xs, given) /\ ArrayCall("each", n, xs, given)
  BY DEF WriteEach
<1>2. n \in Alignments /\ xs \in Seq(Nat)
  BY WidthsAssumption, ArraysAssumption
<1>3. RoomInv' /\ Idle /\ kind' = kind
  BY <1>1, <1>2, EachKeeps DEF PutEach
<1>4. /\ Grows(data, data') /\ origin' = origin
      /\ error' = "" =>
           /\ LengthAt(kind, data', Len(data), origin, given, Len(xs), Len(data'))
           /\ items'.width = n /\ items'.left = xs
      /\ error' # "" => items'.left = <<>>
  BY <1>1, <1>2, EachCall
<1>5. PICK c : ArrayLogged("each", n, xs, given, c)
  BY <1>1, <1>2, <1>3, ArraySized, Zenon
<1>6. /\ c \in Calls /\ c.op = "array" /\ c.how = "each" /\ c.width = n /\ c.length = given
      /\ c.values = Values(xs) /\ c.end = Len(data')
      /\ sound' = (sound /\ error' = "")
      /\ written' = IF error' = "" THEN Append(written, c) ELSE written
      /\ counted \in Nat => counted' = Sized(counted, c)
  BY <1>5 DEF ArrayLogged
<1>7. ~MovesOrigin(kind, c)
  BY <1>6 DEF MovesOrigin
<1>8. ~Idle' => error' = "" /\ items'.width = c.width
  BY <1>4, <1>6 DEF Idle
<1>9. /\ Len(Values(xs)) = Len(xs) /\ Len(xs) \in Nat /\ Len(data') \in Nat
      /\ \A j \in 1..Len(xs) : Values(xs)[j] = <<xs[j]>>
  BY <1>2, <1>3, ValuesType, LenNat, LengthsAfter
<1>10. ASSUME error' = "" PROVE Laid(kind, data', Len(data), origin, c, items'.left)
  <2>1. items'.left = xs
    BY <1>4, <1>10
  <2>2. ItemsAt(kind, data', Len(data'), origin, n, Values(xs), 0, Len(data'))
    BY DEF ItemsAt
  <2>3. 0 \in 0..Len(xs) /\ 0 + Len(xs) = Len(xs) /\ \A j \in 1..Len(xs) : 0 + j = j
    BY <1>9
  <2>4. LengthAt(kind, data', Len(data), origin, c.length, Len(c.values), Len(data'))
    BY <1>4, <1>6, <1>9, <1>10
  <2>5. /\ ItemsAt(kind, data', Len(data'), origin, c.width, c.values, 0, c.end)
        /\ 0 \in 0..Len(c.values) /\ 0 + Len(xs) = Len(c.values)
        /\ \A j \in 1..Len(xs) : c.values[0 + j] = <<xs[j]>>
    BY <1>6, <1>9, <2>2, <2>3
  <2>6. ArrayAt(kind, data', Len(data), origin, c, xs)
    BY ONLY <1>9, <2>4, <2>5 DEF ArrayAt
  <2> QED
    BY <1>6, <1>9, <2>1, <2>6, LaidEnd DEF Laid
<1> QED
  BY <1>3, <1>4, <1>6, <1>7, <1>8, <1>10 DEF Made

LEMMA MemberMade == ASSUME RoomInv, WriteMember PROVE \E c : Made(c)
<1>1. PICK m \in Members :
        /\ PutMember(m.must, m.id, m.size, m.code)
        /\ Logs([op |-> "member", width |-> 4, values |-> <<<<m.must, m.id, m.size>>>>,
                 end |-> Len(data')], counted)
  BY DEF WriteMember
<1> DEFINE must == m.must
           id == m.id
           size == m.size
           code == m.code
           c == [op |-> "member", width |-> 4, values |-> <<<<must, id, size>>>>, end |-> Len(data')]
<1>2. must \in {0, 1} /\ id \in Nat /\ size \in Nat /\ code \in -1..7
  BY MembersAssumption
<1>3. PutMember(must, id, size, code) /\ Logs(c, counted)
  BY <1>1
<1> HIDE DEF must, id, size, code
<1>4. RoomInv' /\ Idle /\ UNCHANGED <<kind, items>>
  BY <1>2, <1>3, MemberKeeps DEF PutMember
<1>5. /\ Grows(data, data')
      /\ error' = "" =>
           /\ MemberAt(kind, data', Len(data), origin, must, id, size, Len(data'))
           /\ origin' = IF Cdr2(kind) THEN origin ELSE Len(data')
  BY <1>2, <1>3, MemberCall
<1>6. Len(data') \in Nat
  BY <1>4, LengthsAfter
<1>7. c \in Calls
  <2>1. <<must, id, size>> \in Seq(Nat) /\ 4 \in {0} \cup Alignments
    BY <1>2 DEF Alignments
  <2>2. <<<<must, id, size>>>> \in Seq(Seq(Nat))
    BY <2>1
  <2> QED
    BY <1>6, <2>1, <2>2, CallsIn
<1>8. c.op = "member" /\ c.values = <<<<must, id, size>>>> /\ c.end = Len(data')
  OBVIOUS
<1> HIDE DEF c
<1>9. MovesOrigin(kind, c) <=> ~Cdr2(kind)
  BY <1>8 DEF MovesOrigin
<1>10. error' = "" => Laid(kind, data', Len(data), origin, c, items'.left)
  BY <1>2, <1>5, <1>6, <1>8, LaidEnd DEF Laid
<1>11. Sized(counted, c) = counted
  BY <1>8 DEF Sized
<1>12. Idle'
  BY <1>4, StaysIdle
<1> QED
  BY <1>3, <1>4, <1>5, <1>7, <1>8, <1>9, <1>10, <1>11, <1>12 DEF Made, Logs

LEMMA SentinelMade == ASSUME RoomInv, WriteSentinel PROVE \E c : Made(c)
<1> DEFINE c == [op |-> "sentinel", width |-> 4, values |-> <<>>, end |-> Len(data')]
<1>1. PutSentinel /\ Logs(c, counted)
  BY DEF WriteSentinel
<1>2. RoomInv' /\ Idle /\ UNCHANGED <<kind, items>>
  BY <1>1, SentinelKeeps DEF PutSentinel
<1>3. /\ Grows(data, data') /\ origin' = origin
      /\ error' = "" => SentinelAt(kind, data', Len(data), origin, Len(data'))
  BY <1>1, SentinelCall
<1>4. Len(data') \in Nat
  BY <1>2, LengthsAfter
<1>5. c \in Calls
  <2>1. <<>> \in Seq(Seq(Nat)) /\ 4 \in {0} \cup Alignments
    BY DEF Alignments
  <2> QED
    BY <1>4, <2>1, CallsIn
<1>6. c.op = "sentinel" /\ c.values = <<>> /\ c.end = Len(data')
  OBVIOUS
<1> HIDE DEF c
<1>7. ~MovesOrigin(kind, c)
  BY <1>6 DEF MovesOrigin
<1>8. error' = "" => Laid(kind, data', Len(data), origin, c, items'.left)
  BY <1>3, <1>4, <1>6, LaidEnd DEF Laid
<1>9. Sized(counted, c) = counted
  BY <1>6 DEF Sized
<1>10. Idle'
  BY <1>2, StaysIdle
<1> QED
  BY <1>1, <1>2, <1>3, <1>5, <1>6, <1>7, <1>8, <1>9, <1>10 DEF Made, Logs

LEMMA AlignMade == ASSUME RoomInv, WriteAlign PROVE \E c : Made(c)
<1>1. PICK a \in AlignSizes :
        /\ PutAlign(a)
        /\ Logs([op |-> "align", width |-> a, values |-> <<>>, end |-> Len(data')], counted)
  BY DEF WriteAlign
<1> DEFINE c == [op |-> "align", width |-> a, values |-> <<>>, end |-> Len(data')]
<1>2. a \in {0} \cup Alignments
  BY AlignSizesAssumption
<1>3. RoomInv' /\ Idle /\ UNCHANGED <<kind, items>>
  BY <1>1, <1>2, AlignKeeps DEF PutAlign
<1>4. /\ Grows(data, data') /\ origin' = origin
      /\ Len(data') = Place(Len(data), origin, a)
  BY <1>1, <1>2, AlignCall
<1>5. Len(data') \in Nat
  BY <1>3, LengthsAfter
<1>6. c \in Calls
  <2>1. <<>> \in Seq(Seq(Nat))
    OBVIOUS
  <2> QED
    BY <1>2, <1>5, <2>1, CallsIn
<1>7. c.op = "align" /\ c.width = a /\ c.values = <<>> /\ c.end = Len(data')
  OBVIOUS
<1>8. Logs(c, counted)
  BY <1>1
<1> HIDE DEF c
<1>9. ~MovesOrigin(kind, c)
  BY <1>7 DEF MovesOrigin
<1>10. error' = "" => Laid(kind, data', Len(data), origin, c, items'.left)
  BY <1>4, <1>5, <1>7, LaidEnd DEF Laid
<1>11. Sized(counted, c) = counted
  BY <1>7 DEF Sized
<1>12. Idle'
  BY <1>3, StaysIdle
<1> QED
  BY <1>3, <1>4, <1>6, <1>7, <1>8, <1>9, <1>10, <1>11, <1>12 DEF Made, Logs

LEMMA OriginMade == ASSUME RoomInv, WriteOrigin PROVE \E c : Made(c)
<1> DEFINE c == [op |-> "origin", width |-> 1, values |-> <<>>, end |-> Len(data')]
<1>1. ResetOrigin /\ Logs(c, counted)
  BY DEF WriteOrigin
<1>2. RoomInv' /\ Idle /\ UNCHANGED <<kind, items>> /\ data' = data /\ origin' = Len(data)
  BY <1>1, OriginKeeps DEF ResetOrigin
<1>3. Grows(data, data') /\ Len(data') \in Nat
  BY <1>2, WriterFields, GrowsSelf
<1>4. c \in Calls
  <2>1. <<>> \in Seq(Seq(Nat)) /\ 1 \in {0} \cup Alignments
    BY DEF Alignments
  <2> QED
    BY <1>3, <2>1, CallsIn
<1>5. c.op = "origin" /\ c.values = <<>> /\ c.end = Len(data')
  OBVIOUS
<1> HIDE DEF c
<1>6. MovesOrigin(kind, c)
  BY <1>5 DEF MovesOrigin
<1>7. Laid(kind, data', Len(data), origin, c, items'.left)
  BY <1>2, <1>3, <1>5, LaidEnd DEF Laid
<1>8. Sized(counted, c) = counted
  BY <1>5 DEF Sized
<1>9. Idle'
  BY <1>2, StaysIdle
<1> QED
  BY <1>1, <1>2, <1>3, <1>4, <1>5, <1>6, <1>7, <1>8, <1>9 DEF Made, Logs

\* A step that goes on with an array moves its end along with the data.
GoesOnWriting ==
  /\ PutItem /\ ~Idle /\ kind' = kind /\ counted' = counted
  /\ RoomInv' /\ Grows(data, data')
  /\ sound' = (sound /\ error' = "")
  /\ written' = IF error' = "" THEN [written EXCEPT ![Len(written)].end = Len(data')]
                ELSE Front(written)
  /\ error' = "" =>
       /\ origin' = origin /\ items' = [items EXCEPT !.left = Tail(items.left)]
       /\ NumberAt(kind, data', Len(data), origin, items.width, Order(kind),
                   <<Head(items.left)>>, Len(data'))
  /\ error' # "" => Idle'

LEMMA ItemMade == ASSUME RoomInv, WriteItem PROVE GoesOnWriting
<1> DEFINE n == items.width
           x == Head(items.left)
           w == Number(Writer, n, Order(kind), <<x>>)
<1>1. PutItem
  BY DEF WriteItem
<1>2. RoomInv' /\ ~Idle /\ kind' = kind
  BY <1>1, ItemKeeps DEF PutItem
<1>3. n \in Alignments /\ items.left \in Seq(Nat) /\ items.left # <<>>
  BY <1>2 DEF RoomInv, TypeOK, Alignments, Idle
<1>4. <<x>> \in Seq(Nat)
  <2>1. x \in Nat
    BY <1>3
  <2> HIDE DEF x
  <2> QED
    BY <2>1
<1>5. Becomes(w) /\ items' = IF w.error = "" THEN [items EXCEPT !.left = Tail(@)] ELSE NoItems
  BY <1>1 DEF PutItem
<1> HIDE DEF n, x
<1>6. /\ Sound(w) /\ Extends(Writer, w)
      /\ w.error = "" =>
           NumberAt(kind, w.data, Len(data), origin, n, Order(kind), <<x>>, Len(w.data))
  BY <1>3, <1>4, WriterFields, NumberLaid, OrderOf
<1> HIDE DEF w
<1>7. /\ Grows(data, data') /\ origin' = origin /\ error' = w.error
      /\ error' = "" =>
           NumberAt(kind, data', Len(data), origin, n, Order(kind), <<x>>, Len(data'))
  BY <1>5, <1>6, BecomesLaid
<1>8. error' # "" => Idle'
  <2>1. ASSUME error' # "" PROVE items' = NoItems
    BY <1>5, <1>7, <2>1
  <2>2. NoItems.left = <<>>
    BY DEF NoItems
  <2> QED
    BY <2>1, <2>2 DEF Idle
<1> QED
  BY <1>1, <1>2, <1>5, <1>7, <1>8 DEF WriteItem, GoesOnWriting, n, x

\* Every step of the writer is one or the other.
LEMMA WriteMade == ASSUME RoomInv, Write PROVE (\E c : Made(c)) \/ GoesOnWriting
BY NumberMade, TextMade, BulkMade, EachMade, MemberMade, SentinelMade, AlignMade, OriginMade,
   ItemMade DEF Write

-----------------------------------------------------------------------------
(* The steps keep the types *)

LEMMA MadeKeeps ==
  ASSUME WriterInv, ~Reading', NEW c, Made(c) PROVE WriterInv'
<1>1. /\ written \in Seq(Calls) /\ 4 <= Len(data) /\ c \in Calls
      /\ written' = IF error' = "" THEN Append(written, c) ELSE written
  BY DEF WriterInv, Made
<1>2. Len(data) \in Nat /\ Len(written) \in Nat /\ Len(data') \in Nat
  BY <1>1, Lengths, LengthsAfter DEF WriterInv, Made
<1>3. Append(written, c) \in Seq(Calls)
  BY <1>1, Appended
<1>4. written' \in Seq(Calls)
  BY <1>1, <1>3
<1>5. 4 <= Len(data')
  <2>1. 4 <= Len(data) /\ Len(data) <= Len(data')
    BY <1>1 DEF Made, Grows
  <2> QED
    BY ONLY <1>2, <2>1
<1>6. ASSUME ~Idle' PROVE written' # <<>> /\ written'[Len(written')].op = "array"
  <2>1. written' = Append(written, c) /\ c.op = "array"
    BY <1>1, <1>6 DEF Made
  <2>2. Len(written') = Len(written) + 1 /\ written'[Len(written) + 1] = c
    <3>1. /\ Len(Append(written, c)) = Len(written) + 1
          /\ Append(written, c)[Len(written) + 1] = c
      BY <1>1, Appended
    <3> QED
      BY ONLY <2>1, <3>1
  <2>3. Len(written') # 0
    BY ONLY <1>2, <2>2
  <2>4. written' # <<>>
    BY ONLY <2>3
  <2> QED
    BY <2>1, <2>2, <2>4
<1> QED
  BY <1>4, <1>5, <1>6 DEF WriterInv, Made

\* An array moves its end.
LEMMA Ended ==
  ASSUME NEW c \in Calls, c.op = "array", NEW end \in Nat
  PROVE  LET d == [c EXCEPT !.end = end]
         IN  /\ d \in Calls /\ d.op = "array" /\ d.how = c.how /\ d.width = c.width
             /\ d.length = c.length /\ d.values = c.values /\ d.end = end
<1>1. c \in [op : {"array"}, how : {"bulk", "each"}, width : Alignments, length : BOOLEAN,
             values : Seq(Seq(Nat)), end : Nat]
  BY DEF Calls
<1> DEFINE d == [c EXCEPT !.end = end]
<1>2. /\ d \in [op : {"array"}, how : {"bulk", "each"}, width : Alignments, length : BOOLEAN,
                values : Seq(Seq(Nat)), end : Nat]
      /\ d.op = "array" /\ d.how = c.how /\ d.width = c.width
      /\ d.length = c.length /\ d.values = c.values /\ d.end = end
  BY <1>1
<1> HIDE DEF d
<1>3. d \in Calls
  BY <1>2 DEF Calls
<1> QED
  BY <1>2, <1>3 DEF d

LEMMA LastIn ==
  ASSUME NEW S, NEW log \in Seq(S), log # <<>>
  PROVE  log[Len(log)] \in S /\ Len(log) \in Nat /\ 1 <= Len(log)
<1>1. Len(log) \in Nat /\ Len(log) # 0
  OBVIOUS
<1>2. Len(log) \in 1..Len(log)
  BY ONLY <1>1
<1> QED
  BY <1>1, <1>2

\* A log that has its last call replaced, or dropped.
LEMMA Replaced ==
  ASSUME NEW S, NEW log \in Seq(S), log # <<>>, NEW d \in S
  PROVE  LET new == [log EXCEPT ![Len(log)] = d]
         IN  /\ new \in Seq(S) /\ Len(new) = Len(log) /\ new[Len(log)] = d
             /\ \A i \in 1..(Len(log) - 1) : new[i] = log[i]
             /\ Front(log) \in Seq(S)
<1> DEFINE n == Len(log)
           new == [log EXCEPT ![n] = d]
<1>1. n \in Nat /\ n # 0 /\ log \in [1..n -> S]
  OBVIOUS
<1>2. Front(log) \in Seq(S)
  BY <1>1 DEF Front
<1> HIDE DEF n
<1>3. n \in 1..n
  BY <1>1
<1>4. new \in [1..n -> S] /\ new[n] = d
  BY <1>1, <1>3
<1>5. \A i \in 1..(n - 1) : new[i] = log[i]
  BY <1>1
<1> HIDE DEF new
<1>6. new \in Seq(S) /\ Len(new) = n
  BY <1>1, <1>4
<1> QED
  BY <1>2, <1>4, <1>5, <1>6 DEF new, n

LEMMA ItemWritten ==
  ASSUME WriterInv, GoesOnWriting, error' = ""
  PROVE  \E d \in Calls :
           LET c == written[Len(written)]
           IN  /\ c \in Calls /\ c.op = "array" /\ written # <<>>
               /\ d.op = "array" /\ d.how = c.how /\ d.width = c.width
               /\ d.length = c.length /\ d.values = c.values /\ d.end = Len(data')
               /\ written' = [written EXCEPT ![Len(written)] = d]
<1> DEFINE c == written[Len(written)]
           d == [c EXCEPT !.end = Len(data')]
<1>1. written \in Seq(Calls) /\ written # <<>> /\ c.op = "array"
  BY DEF WriterInv, GoesOnWriting
<1>2. Len(data') \in Nat
  BY LengthsAfter DEF GoesOnWriting
<1>3. c \in Calls
  BY <1>1, LastIn
<1>4. written' = [written EXCEPT ![Len(written)] = d]
  BY DEF GoesOnWriting
<1>5. /\ d \in Calls /\ d.op = "array" /\ d.how = c.how /\ d.width = c.width
      /\ d.length = c.length /\ d.values = c.values /\ d.end = Len(data')
  BY <1>1, <1>2, <1>3, Ended
<1> HIDE DEF d
<1> QED
  BY <1>1, <1>3, <1>4, <1>5

LEMMA ItemsKeep ==
  ASSUME WriterInv, ~Reading', GoesOnWriting PROVE WriterInv'
<1>1. /\ written \in Seq(Calls) /\ 4 <= Len(data) /\ written # <<>>
      /\ written[Len(written)].op = "array"
  BY DEF WriterInv, GoesOnWriting
<1>2. Len(data) \in Nat /\ Len(written) \in Nat /\ Len(data') \in Nat
  BY <1>1, Lengths, LengthsAfter DEF WriterInv, GoesOnWriting
<1>3. 4 <= Len(data')
  <2>1. 4 <= Len(data) /\ Len(data) <= Len(data')
    BY <1>1 DEF GoesOnWriting, Grows
  <2> QED
    BY ONLY <1>2, <2>1
<1>4. CASE error' # ""
  <2>1. written' = Front(written) /\ Idle'
    BY <1>4 DEF GoesOnWriting
  <2>2. written[Len(written)] \in Calls
    BY <1>1, LastIn
  <2>3. Front(written) \in Seq(Calls)
    BY <1>1, <2>2, Replaced
  <2> QED
    BY <1>3, <2>1, <2>3 DEF WriterInv, GoesOnWriting
<1>5. CASE error' = ""
  <2>1. PICK d \in Calls :
          d.op = "array" /\ written' = [written EXCEPT ![Len(written)] = d]
    BY <1>5, ItemWritten
  <2>2. /\ written' \in Seq(Calls) /\ Len(written') = Len(written)
        /\ written'[Len(written)] = d
    BY <1>1, <2>1, Replaced
  <2>3. written' # <<>>
    <3>1. Len(written') # 0
      BY <1>1, <1>2, <2>2
    <3> QED
      BY ONLY <3>1
  <2> QED
    BY <1>3, <2>1, <2>2, <2>3 DEF WriterInv, GoesOnWriting
<1> QED
  BY <1>4, <1>5

LEMMA WriteTypes ==
  ASSUME StreamInv, Write PROVE StreamInv'
<1>1. ~Reading /\ UNCHANGED <<readers, next, starts, inStep>>
  BY DEF Write
<1>2. ~Reading' /\ DOMAIN readers = {} /\ readers' = readers
  BY <1>1 DEF Reading
<1>3. WriterInv'
  <2>1. WriterInv /\ RoomInv
    BY DEF StreamInv, WriterInv
  <2> QED
    BY <1>2, <2>1, WriteMade, MadeKeeps, ItemsKeep
<1> QED
  BY <1>1, <1>2, <1>3 DEF StreamInv

\* A step of the reader name alone.
LEMMA OneReader ==
  ASSUME StreamInv, Reading, UNCHANGED <<writerVars, written>>, NEW name \in DOMAIN readers,
         DOMAIN readers' = DOMAIN readers, DOMAIN next' = DOMAIN readers,
         DOMAIN starts' = DOMAIN readers, inStep' \subseteq inStep,
         \A x \in DOMAIN readers \ {name} :
           readers'[x] = readers[x] /\ next'[x] = next[x] /\ starts'[x] = starts[x],
         ReaderInv(name)'
  PROVE  StreamInv'
<1>1. WriterInv /\ UNCHANGED <<kind, capacity, data, origin, items, error, written>>
  BY DEF StreamInv, writerVars
<1>2. Idle
  BY <1>1 DEF WriterInv
<1>3. RoomInv'
  BY <1>1 DEF WriterInv, RoomInv, TypeOK, RoomSuffices
<1>4. WriterInv'
  BY <1>1, <1>2, <1>3 DEF WriterInv, Idle
<1>5. ASSUME NEW x \in DOMAIN readers PROVE ReaderInv(x)'
  <2>1. CASE x = name
    BY <2>1
  <2>2. CASE x # name
    <3>1. ReaderInv(x) /\ readers'[x] = readers[x] /\ next'[x] = next[x] /\ starts'[x] = starts[x]
      BY <2>2 DEF StreamInv
    <3> QED
      BY <1>1, <3>1 DEF ReaderInv
  <2> QED
    BY <2>1, <2>2
<1> QED
  BY <1>4, <1>5 DEF StreamInv

LEMMA OpenTypes == ASSUME StreamInv, Open PROVE StreamInv'
<1>1. /\ WriterInv /\ Idle /\ UNCHANGED <<kind, capacity, data, origin, items, error, written>>
      /\ readers' = [name \in {"first"} |-> Opened(data)]
      /\ next' = [name \in {"first"} |-> 1]
      /\ starts' = [name \in {"first"} |-> <<>>]
      /\ inStep' = {"first"}
  BY DEF StreamInv, Open, writerVars
<1>2. RoomInv'
  BY <1>1 DEF WriterInv, RoomInv, TypeOK, RoomSuffices
<1>3. WriterInv'
  BY <1>1, <1>2 DEF WriterInv, Idle
<1>4. Len(data) \in Nat /\ Len(written) \in Nat /\ 4 <= Len(data)
  BY <1>1, Lengths DEF WriterInv
<1>5. ReaderInv("first")'
  <2>1. /\ readers'["first"] = Opened(data) /\ next'["first"] = 1 /\ starts'["first"] = <<>>
        /\ data' = data /\ written' = written
    BY <1>1
  <2>2. Reader(Opened(data), Len(data))
    BY <1>4 DEF Reader, Opened
  <2>3. 1 \in 1..(Len(written) + 1) /\ <<>> \in Starts /\ Len(<<>>) = 0 /\ 0 <= Len(written)
    BY <1>4 DEF Starts
  <2> QED
    BY <2>1, <2>2, <2>3 DEF ReaderInv
<1> QED
  BY <1>1, <1>3, <1>5 DEF StreamInv, Names

\* Where the reader stood before its call is what it may be sent back to.
LEMMA StartsAppended ==
  ASSUME NEW ss \in Starts, NEW i \in Nat \ {0}, Len(ss) >= i - 1, NEW x \in [offset : Nat, origin : Nat]
  PROVE  LET new == Append(SubSeq(ss, 1, i - 1), x)
         IN  /\ new \in Starts /\ Len(new) = i /\ new[i] = x
             /\ \A j \in 1..(i - 1) : new[j] = ss[j]
<1> DEFINE front == SubSeq(ss, 1, i - 1)
           Places == [offset : Nat, origin : Nat]
<1>1. /\ front \in Seq(Places) /\ Len(front) = i - 1
      /\ \A j \in 1..(i - 1) : front[j] = ss[j]
  <2>1. ss \in Seq(Places)
    BY DEF Starts
  <2> HIDE DEF Places
  <2>2. Len(ss) \in Nat
    BY <2>1, LenNat
  <2>3. i - 1 \in Nat /\ 1 \in Nat /\ i - 1 <= Len(ss)
    OBVIOUS
  <2>4. i - 1 \in 0..Len(ss)
    BY ONLY <2>2, <2>3
  <2>5. /\ SubSeq(ss, 1, i - 1) \in Seq(Places) /\ Len(SubSeq(ss, 1, i - 1)) = i - 1
        /\ \A j \in 1..(i - 1) : SubSeq(ss, 1, i - 1)[j] = ss[j]
    BY ONLY <2>1, <2>2, <2>4, i \in Nat \ {0}
  <2> QED
    BY <2>5
<1> HIDE DEF front
<1>2. /\ Append(front, x) \in Starts /\ Len(Append(front, x)) = i /\ Append(front, x)[i] = x
      /\ \A j \in 1..(i - 1) : Append(front, x)[j] = front[j]
  BY <1>1 DEF Starts
<1> QED
  BY <1>1, <1>2 DEF front

LEMMA ReadTypes == ASSUME StreamInv, Reading, NEW name \in DOMAIN readers, Read(name) PROVE StreamInv'
<1> DEFINE r == readers[name]
           i == next[name]
           at == [offset |-> r.offset, origin |-> r.origin]
           new == Append(SubSeq(starts[name], 1, i - 1), at)
<1>1. /\ WriterInv /\ ReaderInv(name) /\ name \in inStep /\ r.error = "" /\ i <= Len(written)
      /\ UNCHANGED <<writerVars, written>> /\ data' = data
  BY DEF StreamInv, Read, writerVars
<1>2. PICK s \in ReadBack(r, written[i]) : readers' = [readers EXCEPT ![name] = s]
  BY DEF Read
<1>3. /\ next' = [next EXCEPT ![name] = i + 1]
      /\ starts' = [starts EXCEPT ![name] = new]
      /\ inStep' \subseteq inStep
  BY DEF Read
<1>4. /\ Reader(r, Len(data)) /\ i \in 1..(Len(written) + 1) /\ starts[name] \in Starts
      /\ Len(starts[name]) <= Len(written) /\ Len(starts[name]) >= i - 1
      /\ written \in Seq(Calls) /\ RoomInv /\ Len(written) \in Nat
  BY <1>1, LenNat DEF ReaderInv, WriterInv
<1>5. written[i] \in Calls /\ i \in Nat \ {0} /\ i + 1 \in 1..(Len(written) + 1)
  <2>1. i <= Len(written)
    BY <1>1
  <2> HIDE DEF i
  <2>2. i \in 1..Len(written) /\ i \in Nat \ {0} /\ i + 1 \in 1..(Len(written) + 1)
    BY ONLY <1>4, <2>1
  <2> QED
    BY <1>4, <2>2
<1>6. Reader(s, Len(data))
  BY <1>1, <1>2, <1>4, <1>5, CallKept
<1>7. at \in [offset : Nat, origin : Nat]
  BY <1>4, ReaderFields
<1>8. /\ DOMAIN readers = DOMAIN next /\ DOMAIN readers = DOMAIN starts
  BY DEF StreamInv
<1>9. new \in Starts /\ Len(new) = i
  <2> HIDE DEF at, i
  <2> QED
    BY <1>4, <1>5, <1>7, StartsAppended
<1> HIDE DEF r, i, new
<1>10. ReaderInv(name)'
  <2>1. readers'[name] = s /\ next'[name] = i + 1 /\ starts'[name] = new
    BY <1>2, <1>3, <1>8
  <2>2. i <= Len(written) /\ i >= (i + 1) - 1
    <3>1. i <= Len(written)
      BY <1>1 DEF i
    <3> QED
      BY ONLY <1>5, <3>1
  <2> QED
    BY <1>1, <1>5, <1>6, <1>9, <2>1, <2>2 DEF ReaderInv
<1>11. /\ DOMAIN readers' = DOMAIN readers /\ DOMAIN next' = DOMAIN readers
       /\ DOMAIN starts' = DOMAIN readers
       /\ \A x \in DOMAIN readers \ {name} :
            readers'[x] = readers[x] /\ next'[x] = next[x] /\ starts'[x] = starts[x]
  BY <1>2, <1>3, <1>8
<1> QED
  BY <1>1, <1>3, <1>10, <1>11, OneReader

LEMMA LimitTypes == ASSUME StreamInv, Reading, NEW name \in DOMAIN readers, Limit(name) PROVE StreamInv'
<1> DEFINE r == readers[name]
<1>1. PICK n \in Limits : CanLimit(r, n) /\ readers' = [readers EXCEPT ![name] = Limited(r, n)]
  BY DEF Limit
<1>2. /\ UNCHANGED <<writerVars, written, next, starts, inStep>> /\ data' = data
      /\ ReaderInv(name) /\ WriterInv
      /\ DOMAIN next = DOMAIN readers /\ DOMAIN starts = DOMAIN readers
  BY DEF Limit, StreamInv, writerVars
<1>3. Reader(r, Len(data)) /\ n \in Nat /\ Len(data) \in Nat
  BY <1>2, LimitsAssumption, Lengths DEF ReaderInv, WriterInv
<1>4. Reader(Limited(r, n), Len(data))
  <2>1. /\ r.limit \in 4..Len(data) /\ r.offset \in Nat /\ 4 <= r.offset /\ r.offset + n <= r.limit
    BY <1>1, <1>3, ReaderFields DEF CanLimit
  <2>2. r.offset + n \in 4..Len(data)
    BY ONLY <1>3, <2>1
  <2> DEFINE to == r.offset + n
  <2> HIDE DEF to
  <2>3. Reader([r EXCEPT !.limit = to], Len(data))
    BY <1>3, <2>2 DEF Reader, to
  <2> QED
    BY <2>3 DEF Limited, to
<1> HIDE DEF r
<1>5. ReaderInv(name)'
  <2>1. readers'[name] = Limited(r, n)
    BY <1>1
  <2> QED
    BY <1>2, <1>4, <2>1 DEF ReaderInv
<1>6. /\ DOMAIN readers' = DOMAIN readers /\ DOMAIN next' = DOMAIN readers
      /\ DOMAIN starts' = DOMAIN readers
      /\ \A x \in DOMAIN readers \ {name} :
           readers'[x] = readers[x] /\ next'[x] = next[x] /\ starts'[x] = starts[x]
  BY <1>1, <1>2
<1> QED
  BY <1>2, <1>5, <1>6, OneReader

LEMMA SeekTypes == ASSUME StreamInv, Reading, NEW name \in DOMAIN readers, SeekBack(name) PROVE StreamInv'
<1> DEFINE r == readers[name]
<1>1. PICK i \in DOMAIN starts[name] :
        /\ CanSeek(r, starts[name][i].offset)
        /\ readers' = [readers EXCEPT ![name] = Returns(Sought(r, starts[name][i].offset), <<>>)]
        /\ next' = [next EXCEPT ![name] = i]
        /\ inStep' \subseteq inStep
  BY DEF SeekBack
<1> DEFINE to == starts[name][i].offset
           s == Returns(Sought(r, to), <<>>)
<1>2. /\ UNCHANGED <<writerVars, written, starts>> /\ data' = data
      /\ ReaderInv(name) /\ WriterInv
      /\ DOMAIN next = DOMAIN readers /\ DOMAIN starts = DOMAIN readers
  BY DEF SeekBack, StreamInv, writerVars
<1>3. /\ Reader(r, Len(data)) /\ starts[name] \in Starts /\ Len(starts[name]) <= Len(written)
      /\ Len(written) \in Nat /\ Len(starts[name]) \in Nat
  BY <1>2, Lengths, LenNat DEF ReaderInv, WriterInv, Starts
<1>4. i \in 1..Len(starts[name])
  BY <1>1, <1>3 DEF Starts
<1>5. to \in Nat /\ 4 <= to
  <2> DEFINE Places == [offset : Nat, origin : Nat]
  <2>1. starts[name] \in Seq(Places)
    BY <1>3 DEF Starts
  <2> HIDE DEF Places
  <2>2. starts[name][i] \in Places
    BY ONLY <1>3, <1>4, <2>1
  <2> QED
    BY <1>1, <2>2 DEF CanSeek, Places
<1>6. Reader(s, Len(data))
  <2> HIDE DEF to
  <2> DEFINE t == [r EXCEPT !.offset = to]
  <2>1. Reader(t, Len(data))
    BY <1>3, <1>5 DEF Reader
  <2>2. s = Returns(t, <<>>)
    BY DEF Sought
  <2> HIDE DEF s, t
  <2> QED
    BY <2>1, <2>2, ReturnsKeeps
<1>7. readers' = [readers EXCEPT ![name] = s]
  BY <1>1
<1> HIDE DEF r, s
<1>8. ReaderInv(name)'
  <2>1. readers'[name] = s /\ next'[name] = i /\ starts'[name] = starts[name]
    BY <1>1, <1>2, <1>7
  <2>2. i \in 1..(Len(written) + 1) /\ Len(starts[name]) >= i - 1
    BY ONLY <1>3, <1>4
  <2> QED
    BY <1>2, <1>3, <1>6, <2>1, <2>2 DEF ReaderInv
<1>9. /\ DOMAIN readers' = DOMAIN readers /\ DOMAIN next' = DOMAIN readers
      /\ DOMAIN starts' = DOMAIN readers
      /\ \A x \in DOMAIN readers \ {name} :
           readers'[x] = readers[x] /\ next'[x] = next[x] /\ starts'[x] = starts[x]
  BY <1>1, <1>2, <1>7
<1> QED
  BY <1>1, <1>2, <1>8, <1>9, OneReader

LEMMA CloneTypes == ASSUME StreamInv, Clone PROVE StreamInv'
<1>1. /\ DOMAIN readers = {"first"}
      /\ UNCHANGED <<kind, capacity, data, origin, items, error, written>>
      /\ readers' = [name \in Names |-> readers["first"]]
      /\ next' = [name \in Names |-> next["first"]]
      /\ starts' = [name \in Names |-> starts["first"]]
      /\ inStep' = IF "first" \in inStep THEN Names ELSE inStep
  BY DEF Clone, writerVars
<1>2. WriterInv /\ ReaderInv("first") /\ inStep \subseteq {"first"}
  BY <1>1 DEF StreamInv
<1>3. Idle
  <2>1. Reading
    BY <1>1 DEF Reading
  <2> QED
    BY <1>2, <2>1 DEF WriterInv
<1>4. RoomInv'
  BY <1>1, <1>2 DEF WriterInv, RoomInv, TypeOK, RoomSuffices
<1>5. WriterInv'
  BY <1>1, <1>2, <1>3, <1>4 DEF WriterInv, Idle
<1>6. ASSUME NEW name \in Names PROVE ReaderInv(name)'
  <2>1. /\ readers'[name] = readers["first"] /\ next'[name] = next["first"]
        /\ starts'[name] = starts["first"]
        /\ name \in inStep' => "first" \in inStep
    BY <1>1, <1>2
  <2> QED
    BY <1>1, <1>2, <2>1 DEF ReaderInv
<1>7. inStep' \subseteq Names
  BY <1>1, <1>2 DEF Names
<1> QED
  BY <1>1, <1>5, <1>6, <1>7 DEF StreamInv

LEMMA HeaderLength == ASSUME StreamInit PROVE RoomInv /\ Len(data) = 4
<1>1. RoomInv
  BY InitRoom DEF StreamInit
<1> DEFINE e == Encoded(<<kind>>, 1, "none")
<1>2. data = <<Zero>> \o e \o Zeros(2)
  BY DEF StreamInit, Init
<1>3. e \in Seq(Byte) /\ Len(e) = 1
  <2>1. kind \in Kinds
    BY <1>1 DEF RoomInv, TypeOK
  <2>2. kind \in Nat
    BY <2>1, KindsAssumption DEF Codes
  <2>3. <<kind>> \in Seq(Nat) /\ "none" \in Orders
    BY <2>2 DEF Orders
  <2> QED
    BY <2>3, EncodedType
<1>4. Zeros(2) \in Seq(Byte) /\ Len(Zeros(2)) = 2
  BY ZerosType
<1>5. <<Zero>> \in Seq(Byte) /\ Len(<<Zero>>) = 1
  BY ZeroType
<1> HIDE DEF e
<1>6. <<Zero>> \o e \in Seq(Byte) /\ Len(<<Zero>> \o e) = 2
  BY <1>3, <1>5, Joined
<1>7. Len(data) = 4
  BY <1>2, <1>4, <1>6, Joined
<1> QED
  BY <1>1, <1>7

LEMMA TypesInit == StreamInit => StreamInv
<1> SUFFICES ASSUME StreamInit PROVE StreamInv
  OBVIOUS
<1>1. RoomInv /\ Len(data) = 4
  BY HeaderLength
<1>2. 4 <= Len(data)
  BY ONLY <1>1
<1>3. Idle /\ written = <<>> /\ readers = <<>> /\ next = <<>> /\ starts = <<>> /\ inStep = {}
  BY DEF StreamInit, Init, Idle, NoItems
<1> QED
  BY <1>1, <1>2, <1>3 DEF StreamInv, WriterInv

LEMMA TypesNext == StreamInv /\ [Next]_vars => StreamInv'
<1> SUFFICES ASSUME StreamInv, [Next]_vars PROVE StreamInv'
  OBVIOUS
<1>1. CASE ReadStep
  <2>1. PICK name \in DOMAIN readers : Read(name) \/ Limit(name) \/ SeekBack(name)
    BY <1>1 DEF ReadStep
  <2>2. Reading
    BY <2>1 DEF Reading
  <2> QED
    BY <2>1, <2>2, ReadTypes, LimitTypes, SeekTypes
<1>2. CASE UNCHANGED vars
  BY <1>2 DEF vars, writerVars, streamVars, StreamInv, WriterInv, RoomInv, TypeOK, RoomSuffices,
     Idle, Reading, ReaderInv
<1> QED
  BY <1>1, <1>2, WriteTypes, OpenTypes, CloneTypes DEF Next

\* A stream of any kinds, buffers and calls keeps its types: no reader leaves the
\* header behind or gets a view longer than the data, whatever it is limited to
\* and wherever it is sent back, and every call a reader has made can be repeated.
THEOREM StreamTypeOKHolds == Spec => []StreamTypeOK
<1>1. StreamInv => StreamTypeOK
  <2> SUFFICES ASSUME StreamInv PROVE StreamTypeOK
    OBVIOUS
  <2>1. TypeOK
    BY DEF StreamInv, WriterInv, RoomInv
  <2>2. ASSUME NEW name \in DOMAIN readers
        PROVE  /\ next[name] \in 1..(Len(written) + 1)
               /\ readers[name].limit \in 4..Len(data)
               /\ readers[name].offset \in Nat /\ readers[name].origin \in Nat
    <3>1. ReaderInv(name)
      BY DEF StreamInv
    <3> QED
      BY <3>1, ReaderFields DEF ReaderInv
  <2>3. ASSUME NEW name \in inStep PROVE Len(starts[name]) >= next[name] - 1
    <3>1. ReaderInv(name)
      BY DEF StreamInv
    <3> QED
      BY <3>1 DEF ReaderInv
  <2> QED
    BY <2>1, <2>2, <2>3 DEF StreamTypeOK, StreamInv
<1> QED
  BY <1>1, TypesInit, TypesNext, PTL DEF Spec

-----------------------------------------------------------------------------
(* What the calculator comes to *)

\* The calls that it has, none of which moves the origin.
Sizable ==
  /\ sound /\ ~Cdr2(kind)
  /\ \A i \in 1..Len(written) :
       ~EmptyBulk(written[i]) /\ written[i].op \in {"number", "text", "array"}

\* Between the items of an array it is ahead of the data by those that are left.
SizeInv ==
  /\ counted \in Nat
  /\ Sizable => /\ origin = 4
                /\ counted = IF Idle THEN Len(data)
                             ELSE Place(Len(data), 4, items.width) + items.width * Len(items.left)

LEMMA SizedType == ASSUME NEW at \in Nat, NEW c \in Calls PROVE Sized(at, c) \in Nat
<1> DEFINE from == IF c.length THEN CountedNumber(at, 4) ELSE at
<1>1. \A n \in Alignments : CountedNumber(at, n) \in Nat
  <2>1. TAKE n \in Alignments
  <2>2. CountedNumber(at, n) = Place(at, 4, n) + n
    <3>1. 0 \in Nat
      OBVIOUS
    <3> QED
      BY <3>1, CountedAgain
  <2>3. Place(at, 4, n) \in Nat /\ n \in Nat
    <3>1. 4 \in Nat
      OBVIOUS
    <3> QED
      BY <3>1, PlaceNat, WidthNat
  <2> QED
    BY ONLY <2>2, <2>3
<1>2. from \in Nat
  <2>1. 4 \in Alignments
    BY DEF Alignments
  <2> QED
    BY <1>1, <2>1
<1> HIDE DEF from
<1>3. c.op = "number" => CountedNumber(at, c.width) \in Nat
  BY <1>1, CallTypes
<1>4. c.op = "text" => from + c.width + 1 \in Nat
  <2>1. c.op = "text" => c.width \in Nat
    BY CallTypes
  <2> QED
    BY ONLY <1>2, <2>1
<1>5. ASSUME c.op = "array" PROVE Place(from, 4, c.width) + c.width * Len(c.values) \in Nat
  <2>1. c.width \in Alignments /\ Len(c.values) \in Nat /\ 4 \in Nat
    BY <1>5, CallTypes
  <2>2. Place(from, 4, c.width) \in Nat /\ c.width \in Nat
    BY <1>2, <2>1, PlaceNat, WidthNat
  <2> QED
    BY ONLY <2>1, <2>2
<1>6. /\ c.op = "number" => Sized(at, c) = CountedNumber(at, c.width)
      /\ c.op = "text" => Sized(at, c) = from + c.width + 1
      /\ c.op = "array" => Sized(at, c) = IF Len(c.values) = 0 THEN from
                                          ELSE Place(from, 4, c.width) + c.width * Len(c.values)
      /\ c.op \notin {"number", "text", "array"} => Sized(at, c) = at
  BY DEF Sized, from
<1>7. c.op = "number" => Sized(at, c) \in Nat
  BY <1>3, <1>6
<1>8. c.op = "text" => Sized(at, c) \in Nat
  BY <1>4, <1>6
<1>9. c.op = "array" => Sized(at, c) \in Nat
  BY <1>2, <1>5, <1>6
<1> QED
  BY <1>6, <1>7, <1>8, <1>9

\* Behind items of a width there is no padding before another of it.
LEMMA PlaceOn ==
  ASSUME NEW q \in Nat, NEW o \in Nat, NEW n \in Alignments, NEW m \in Nat
  PROVE  Place(Place(q, o, n) + n * m, o, n) = Place(q, o, n) + n * m
<1> DEFINE k == 0
           a == UnitOf(k, n)
           p == Place(q, o, a)
<1>1. a = n
  BY DEF UnitOf, Cdr2
<1> HIDE DEF k
<1>2. Place(p + n * m, o, a) = p + n * m
  BY PlaceAgain
<1> QED
  BY <1>1, <1>2

LEMMA LengthSized ==
  ASSUME NEW k, ~Cdr2(k), NEW d, NEW s \in Nat, NEW given \in BOOLEAN, NEW n,
         NEW q, LengthAt(k, d, s, 4, given, n, q)
  PROVE  q = IF given THEN CountedNumber(s, 4) ELSE s
<1>1. CASE given
  <2>1. NumberAt(k, d, s, 4, 4, Order(k), <<n>>, q)
    BY <1>1 DEF LengthAt
  <2>2. q = Place(s, 4, UnitOf(k, 4)) + 4
    BY <2>1 DEF NumberAt
  <2>3. UnitOf(k, 4) = 4
    BY DEF UnitOf
  <2>4. 4 \in Alignments /\ 0 \in Nat
    BY DEF Alignments
  <2>5. CountedNumber(s, 4) = Place(s, 4, 4) + 4
    BY <2>4, CountedAgain
  <2> QED
    BY ONLY <1>1, <2>2, <2>3, <2>5
<1>2. CASE ~given
  BY <1>2 DEF LengthAt
<1> QED
  BY <1>1, <1>2

\* A call of these is counted as it is laid out, but for the items that are left.
LEMMA SizedLaid ==
  ASSUME NEW k, ~Cdr2(k), NEW d \in Seq(Byte), NEW s \in Nat, NEW c \in Calls,
         c.op \in {"number", "text", "array"}, NEW left \in Seq(Nat),
         c.op # "array" => left = <<>>, Laid(k, d, s, 4, c, left)
  PROVE  Sized(s, c) = IF left = <<>> THEN c.end
                       ELSE Place(c.end, 4, c.width) + c.width * Len(left)
<1> DEFINE from == IF c.length THEN CountedNumber(s, 4) ELSE s
<1>1. CASE c.op = "number"
  <2>1. PICK x \in Nat : NumberAt(k, d, s, 4, c.width, c.order, <<x>>, c.end)
    BY <1>1 DEF Laid
  <2>2. c.width \in Alignments /\ UnitOf(k, c.width) = c.width /\ 0 \in Nat
    BY <1>1, CallTypes DEF UnitOf
  <2>3. c.end = Place(s, 4, c.width) + c.width
    BY <2>1, <2>2 DEF NumberAt
  <2>4. CountedNumber(s, c.width) = Place(s, 4, c.width) + c.width
    BY <2>2, CountedAgain
  <2> QED
    BY <1>1, <2>3, <2>4 DEF Sized
<1>2. CASE c.op = "text"
  <2>1. PICK q \in Nat : /\ LengthAt(k, d, s, 4, c.length, c.width + 1, q)
                         /\ c.end = q + c.width + 1
    BY <1>2 DEF Laid, TextAt
  <2>2. c.length \in BOOLEAN
    BY <1>2, CallTypes
  <2>3. q = from
    BY <2>1, <2>2, LengthSized
  <2> QED
    BY <1>2, <2>1, <2>3 DEF Sized
<1>3. CASE c.op = "array"
  <2> DEFINE n == c.width
             all == Len(c.values)
  <2>1. n \in Alignments /\ n \in Nat /\ all \in Nat /\ c.length \in BOOLEAN /\ 4 \in Nat
    BY <1>3, CallTypes, WidthNat
  <2>2. PICK q \in Nat, m \in 0..all :
          /\ LengthAt(k, d, s, 4, c.length, all, q)
          /\ ItemsAt(k, d, q, 4, n, c.values, m, c.end)
          /\ m + Len(left) = all
    BY <1>3 DEF Laid, ArrayAt
  <2>3. q = from
    BY <2>1, <2>2, LengthSized
  <2>4. Sized(s, c) = IF all = 0 THEN q ELSE Place(q, 4, n) + n * all
    BY <1>3, <2>3 DEF Sized
  <2>5. UnitOf(k, n) = n
    BY DEF UnitOf
  <2>6. Len(left) \in Nat /\ m \in Nat /\ (left = <<>> <=> Len(left) = 0)
    BY <2>1, LenNat
  <2>7. Place(q, 4, n) \in Nat
    BY <2>1, <2>2, PlaceNat
  <2> DEFINE l == Len(left)
             p == Place(q, 4, n)
             e == c.end
  <2>8. m = 0 => e = q
    BY <2>2 DEF ItemsAt
  <2>9. ASSUME m # 0 PROVE e = p + n * m /\ Place(e, 4, n) = e
    <3>1. e = p + n * m
      BY <2>2, <2>5, <2>9 DEF ItemsAt
    <3>2. 4 \in Nat /\ m \in Nat /\ q \in Nat /\ n \in Alignments
      BY <2>1, <2>2, <2>6
    <3>3. Place(p + n * m, 4, n) = p + n * m
      BY ONLY <3>2, PlaceOn
    <3> QED
      BY ONLY <3>1, <3>3
  <2> HIDE DEF n, all, l, p, e
  <2>10. m + l = all
    BY <2>2 DEF l
  <2>11. l \in Nat /\ n \in Nat /\ m \in Nat /\ p \in Nat
    BY <2>1, <2>6, <2>7 DEF l, p
  <2>12. CASE m = 0
    <3>1. e = q /\ l = all
      BY ONLY <2>8, <2>10, <2>11, <2>12
    <3>2. Place(e, 4, n) = p
      BY <3>1 DEF p
    <3> QED
      BY <2>4, <2>6, <3>1, <3>2 DEF l, p, n, e
  <2>13. CASE m # 0
    <3>1. all # 0 /\ n * all = n * m + n * l
      BY ONLY <2>10, <2>11, <2>13
    <3>2. p + n * all = e + n * l
      BY ONLY <2>9, <2>11, <2>13, <3>1
    <3>3. l = 0 => e = p + n * all
      BY ONLY <2>9, <2>10, <2>11, <2>13
    <3> QED
      BY <2>4, <2>6, <2>9, <2>13, <3>1, <3>2, <3>3 DEF l, p, n, e
  <2> QED
    BY <2>12, <2>13
<1> QED
  BY <1>1, <1>2, <1>3


LEMMA SizeInit == StreamInit => SizeInv
<1> SUFFICES ASSUME StreamInit PROVE SizeInv
  OBVIOUS
<1>1. Len(data) = 4 /\ origin = 4 /\ counted = 4 /\ Idle
  BY HeaderLength DEF StreamInit, Init, Idle, NoItems
<1> QED
  BY <1>1 DEF SizeInv

LEMMA SizeMade ==
  ASSUME WriterInv, SizeInv, NEW c, Made(c) PROVE SizeInv'
<1>1. /\ c \in Calls /\ Idle /\ kind' = kind /\ counted' = Sized(counted, c)
      /\ counted' \in Nat /\ written \in Seq(Calls) /\ RoomInv /\ RoomInv'
      /\ sound' = (sound /\ error' = "")
  BY SizedType DEF SizeInv, Made, WriterInv
<1>2. SUFFICES ASSUME Sizable'
               PROVE  /\ origin' = 4
                      /\ counted' = IF items'.left = <<>> THEN Len(data')
                                    ELSE Place(Len(data'), 4, items'.width)
                                           + items'.width * Len(items'.left)
  BY <1>1 DEF SizeInv, Idle
<1>3. /\ sound /\ error' = "" /\ ~Cdr2(kind) /\ written' = Append(written, c)
      /\ \A i \in 1..Len(written') :
           ~EmptyBulk(written'[i]) /\ written'[i].op \in {"number", "text", "array"}
  BY <1>1, <1>2 DEF Sizable, Made
<1>4. Len(written) \in Nat /\ Len(data) \in Nat
  BY <1>1, Lengths
<1>5. /\ Len(written') = Len(written) + 1 /\ written'[Len(written) + 1] = c
      /\ \A i \in 1..Len(written) : written'[i] = written[i]
  <2>1. /\ Len(Append(written, c)) = Len(written) + 1
        /\ Append(written, c)[Len(written) + 1] = c
        /\ \A i \in 1..Len(written) : Append(written, c)[i] = written[i]
    <3>1. written \in Seq(Calls) /\ c \in Calls
      BY <1>1
    <3> QED
      BY ONLY <3>1, Appended
  <2> QED
    BY ONLY <1>3, <2>1
<1>6. Sizable
  <2>1. ASSUME NEW i \in 1..Len(written)
        PROVE ~EmptyBulk(written[i]) /\ written[i].op \in {"number", "text", "array"}
    <3>1. i \in 1..Len(written')
      BY ONLY <1>4, <1>5
    <3> QED
      BY <1>3, <1>5, <3>1
  <2> QED
    BY <1>3, <2>1 DEF Sizable
<1>7. ~EmptyBulk(c) /\ c.op \in {"number", "text", "array"}
  <2>1. Len(written) + 1 \in 1..Len(written')
    BY ONLY <1>4, <1>5
  <2> QED
    BY <1>3, <1>5, <2>1
<1>8. origin = 4 /\ counted = Len(data)
  BY <1>1, <1>6 DEF SizeInv
<1>9. /\ origin' = 4 /\ Laid(kind, data', Len(data), 4, c, items'.left)
      /\ c.end = Len(data')
  BY <1>3, <1>7, <1>8 DEF Made, MovesOrigin
<1>10. /\ items'.left \in Seq(Nat)
       /\ items'.left # <<>> => c.op = "array" /\ items'.width = c.width
  BY <1>1 DEF Made, RoomInv, TypeOK, Idle
<1>11. data' \in Seq(Byte)
  BY <1>1, LengthsAfter
<1> DEFINE left == items'.left
<1>12. Sized(Len(data), c) = IF left = <<>> THEN c.end
                            ELSE Place(c.end, 4, c.width) + c.width * Len(left)
  <2>1. left \in Seq(Nat) /\ (c.op # "array" => left = <<>>)
    BY <1>10
  <2>2. Laid(kind, data', Len(data), 4, c, left)
    BY <1>9
  <2> HIDE DEF left
  <2> QED
    BY <1>1, <1>3, <1>4, <1>7, <1>11, <2>1, <2>2, SizedLaid
<1> QED
  BY <1>1, <1>8, <1>9, <1>10, <1>12

LEMMA SizeGoesOn ==
  ASSUME WriterInv, SizeInv, GoesOnWriting PROVE SizeInv'
<1>1. /\ ~Idle /\ kind' = kind /\ counted' = counted /\ counted \in Nat
      /\ sound' = (sound /\ error' = "") /\ RoomInv /\ RoomInv' /\ written \in Seq(Calls)
  BY DEF SizeInv, GoesOnWriting, WriterInv
<1>2. SUFFICES ASSUME Sizable'
               PROVE  /\ origin' = 4
                      /\ counted = IF items'.left = <<>> THEN Len(data')
                                    ELSE Place(Len(data'), 4, items'.width)
                                           + items'.width * Len(items'.left)
  BY <1>1 DEF SizeInv, Idle
<1>3. /\ sound /\ error' = "" /\ ~Cdr2(kind)
      /\ \A i \in 1..Len(written') :
           ~EmptyBulk(written'[i]) /\ written'[i].op \in {"number", "text", "array"}
  BY <1>1, <1>2 DEF Sizable
<1>4. PICK d \in Calls :
        LET c == written[Len(written)]
        IN  /\ c \in Calls /\ c.op = "array" /\ written # <<>>
            /\ d.op = "array" /\ d.how = c.how /\ d.width = c.width
            /\ d.length = c.length /\ d.values = c.values /\ d.end = Len(data')
            /\ written' = [written EXCEPT ![Len(written)] = d]
  BY <1>3, ItemWritten
<1>5. /\ Len(written') = Len(written) /\ written'[Len(written)] = d
      /\ \A i \in 1..(Len(written) - 1) : written'[i] = written[i]
      /\ Len(written) \in Nat /\ 1 <= Len(written)
  <2>1. /\ Len([written EXCEPT ![Len(written)] = d]) = Len(written)
        /\ [written EXCEPT ![Len(written)] = d][Len(written)] = d
        /\ \A i \in 1..(Len(written) - 1) : [written EXCEPT ![Len(written)] = d][i] = written[i]
    <3>1. written \in Seq(Calls) /\ d \in Calls /\ written # <<>>
      BY <1>1, <1>4
    <3> QED
      BY ONLY <3>1, Replaced
  <2>2. Len(written) \in Nat /\ 1 <= Len(written)
    BY <1>1, <1>4, LastIn
  <2> QED
    BY ONLY <1>4, <2>1, <2>2
<1>6. Sizable
  <2>1. ASSUME NEW i \in 1..Len(written)
        PROVE ~EmptyBulk(written[i]) /\ written[i].op \in {"number", "text", "array"}
    <3>1. i \in 1..Len(written') /\ (i \in 1..(Len(written) - 1) \/ i = Len(written))
      BY ONLY <1>5, i \in 1..Len(written)
    <3>2. CASE i \in 1..(Len(written) - 1)
      BY <1>3, <1>5, <3>1, <3>2
    <3>3. CASE i = Len(written)
      <4>1. ~EmptyBulk(d)
        BY <1>3, <1>5, <3>1, <3>3
      <4> QED
        BY <1>4, <3>3, <4>1 DEF EmptyBulk
    <3> QED
      BY <3>1, <3>2, <3>3
  <2> QED
    BY <1>3, <2>1 DEF Sizable
<1> DEFINE n == items.width
           left == items.left
           l == Len(left)
           s == Len(data)
           e == Len(data')
           p == Place(s, 4, n)
<1>7. origin = 4 /\ counted = p + n * l
  BY <1>1, <1>6 DEF SizeInv, Idle
<1>8. /\ n \in Alignments /\ left \in Seq(Nat) /\ left # <<>> /\ s \in Nat /\ e \in Nat
  BY <1>1, Lengths, LengthsAfter DEF RoomInv, TypeOK, Idle, Alignments
<1>9. origin' = 4 /\ items'.width = n /\ items'.left = Tail(left)
  BY <1>1, <1>3, <1>7 DEF GoesOnWriting, RoomInv, TypeOK
<1>10. e = p + n
  <2>1. NumberAt(kind, data', s, 4, n, Order(kind), <<Head(left)>>, e)
    BY <1>3, <1>7 DEF GoesOnWriting
  <2>2. UnitOf(kind, n) = n
    BY <1>3 DEF UnitOf
  <2> HIDE DEF e, n, s
  <2> QED
    BY <2>1, <2>2 DEF NumberAt
<1>11. Place(e, 4, n) = e
  <2> HIDE DEF e, n, s
  <2>1. 4 \in Nat /\ 1 \in Nat /\ n \in Nat
    BY <1>8, WidthNat
  <2>2. Place(p + n * 1, 4, n) = p + n * 1
    BY ONLY <1>8, <2>1, PlaceOn
  <2> HIDE DEF p
  <2>3. p + n * 1 = p + n
    <3>1. n * 1 = n
      BY ONLY <2>1
    <3> QED
      BY ONLY <3>1
  <2> QED
    BY ONLY <1>10, <2>2, <2>3
<1>12. /\ n \in Nat /\ l \in Nat /\ 1 <= l /\ p \in Nat
       /\ Tail(left) \in Seq(Nat) /\ Len(Tail(left)) = l - 1
       /\ (Tail(left) = <<>> <=> l - 1 = 0)
  <2>1. n \in Nat
    BY <1>8, WidthNat
  <2>2. p \in Nat
    <3> HIDE DEF n, s
    <3>1. 4 \in Nat
      OBVIOUS
    <3> QED
      BY <1>8, <3>1, PlaceNat
  <2> HIDE DEF left
  <2>3. /\ l \in Nat /\ 1 <= l
    BY <1>8
  <2>4. Tail(left) \in Seq(Nat) /\ Len(Tail(left)) = l - 1
    BY <1>8
  <2> DEFINE rest == Tail(left)
  <2>5. rest = <<>> <=> Len(rest) = 0
    <3>1. rest \in Seq(Nat)
      BY <2>4
    <3> HIDE DEF rest
    <3> QED
      BY ONLY <3>1
  <2> QED
    BY <2>1, <2>2, <2>3, <2>4, <2>5
<1> HIDE DEF n, left, l, s, e, p
<1>13. CASE Tail(left) = <<>>
  <2>1. l = 1
    BY ONLY <1>12, <1>13
  <2>2. counted = e
    BY ONLY <1>7, <1>10, <1>12, <2>1
  <2> QED
    BY <1>9, <1>13, <2>2 DEF e
<1>14. CASE Tail(left) # <<>>
  <2>1. n * l = n + n * (l - 1)
    BY ONLY <1>12
  <2>2. p + n * l = e + n * (l - 1)
    BY ONLY <1>10, <1>12, <2>1
  <2>3. counted = Place(e, 4, n) + n * Len(Tail(left))
    BY ONLY <1>7, <1>11, <1>12, <2>2
  <2> QED
    BY <1>9, <1>14, <2>3 DEF e
<1> QED
  BY <1>13, <1>14

LEMMA SizeNext == StreamInv /\ SizeInv /\ [Next]_vars => SizeInv'
<1> SUFFICES ASSUME StreamInv, SizeInv, [Next]_vars PROVE SizeInv'
  OBVIOUS
<1>1. WriterInv /\ RoomInv
  BY DEF StreamInv, WriterInv
<1>2. CASE Write
  BY <1>1, <1>2, WriteMade, SizeMade, SizeGoesOn
<1>3. CASE Open \/ ReadStep \/ Clone \/ UNCHANGED vars
  <2>1. UNCHANGED <<kind, data, origin, items, written, sound, counted>>
    BY <1>3 DEF Open, ReadStep, Read, Limit, SeekBack, Clone, vars, writerVars, streamVars
  <2> QED
    BY <2>1 DEF SizeInv, Sizable, Idle
<1> QED
  BY <1>2, <1>3 DEF Next

\* However the numbers, texts and arrays of an XCDR1 stream are mixed, item by
\* item or in bulk, CdrSizeCalculator has come to the size of the data whenever no
\* array is half written: the origin is still where the payload begins, and
\* between the items of an array it is ahead by what the rest will take.
THEOREM SizeAgreesHolds == Spec => []SizeAgrees
<1>1. StreamInv /\ SizeInv => SizeAgrees
  <2> SUFFICES ASSUME StreamInv, SizeInv, Faithful, Idle, ~Cdr2(kind),
                      \A i \in DOMAIN written : written[i].op \in {"number", "text", "array"}
               PROVE  counted = Len(data)
    BY DEF SizeAgrees
  <2>1. DOMAIN written = 1..Len(written)
    BY DEF StreamInv, WriterInv
  <2>2. Sizable
    BY <2>1 DEF Sizable, Faithful
  <2> QED
    BY <2>2 DEF SizeInv
<1> QED
  BY <1>1, SizeInit, SizeNext, TypesInit, TypesNext, PTL DEF Spec

=============================================================================
