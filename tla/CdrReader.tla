------------------------------ MODULE CdrReader ------------------------------
(***************************************************************************)
(* CdrReader, cdr/reader.py, over the bytes of a CdrWriter.  A reader is a *)
(* record: limit, the length of its view; offset and origin; got, what its *)
(* last call returned, a sequence of values or of bytes of a text; error,  *)
(* what that call raised, "" for nothing.  An operator Read... is a call:  *)
(* the reader after it.  The byte order of the host is little.             *)
(***************************************************************************)
EXTENDS CdrWriter

Opened(bytes) ==
  [limit |-> Len(bytes), offset |-> 4, origin |-> 4, got |-> <<>>, error |-> ""]

Garbled == <<-2>>

\* What a number read from bytes comes to: the value they encode, if it is one
\* that was written in this width and order.
Decoded(bytes, order) ==
  LET v == bytes[1].of
  IN  IF bytes = Encoded(v, Len(bytes), order) THEN v ELSE Garbled

Fails(r, e) == [r EXCEPT !.error = e]
Returns(r, vs) == [r EXCEPT !.got = vs, !.error = ""]

ReadAligned(r, a) == [r EXCEPT !.offset = @ + Padding(@ - r.origin, a)]

\* int8 to float64 and the _be readers: the offset has been aligned when
\* unpack_from finds the number cut off.
ReadNumber(r, n, order) ==
  LET s == ReadAligned(r, AlignmentOf(n))
  IN  IF r.error # "" THEN r
      ELSE IF s.offset + n > r.limit THEN Fails(s, "struct.error")
      ELSE Returns([s EXCEPT !.offset = @ + n],
                   <<Decoded(SubSeq(data, s.offset + 1, s.offset + n), order)>>)

ReadUint32(r) == ReadNumber(r, 4, Order(kind))
ReadUint16(r) == ReadNumber(r, 2, Order(kind))

Slice(r, n) == SubSeq(data, r.offset + 1, IF r.offset + n < r.limit THEN r.offset + n ELSE r.limit)

\* The end of string: the text and its terminator, length bytes in all.  A text
\* that runs out of the view is cut without an error.
ReadChars(r, length) ==
  IF r.error # "" THEN r
  ELSE Returns([r EXCEPT !.offset = @ + length],
               IF length <= 1 THEN <<>> ELSE Slice(r, length - 1))

\* A length that was not written as one can be anything: such a reader is not
\* followed further.
ReadLength(r) ==
  LET s == ReadUint32(r)
  IN  IF s.error = "" /\ (Len(s.got[1]) # 1 \/ s.got = <<Garbled>>) THEN Fails(s, "garbled") ELSE s

ReadString(r) ==
  LET s == ReadLength(r) IN IF s.error # "" THEN s ELSE ReadChars(s, s.got[1][1])

\* string(preread_length)
ReadStringOf(r, length) == ReadChars(r, length)

\* _array: an empty array is not aligned; what runs out of the view is cut, and
\* fails when the bytes left make no whole items or must be swapped.
ReadArray(r, n, count) ==
  LET s == ReadAligned(r, AlignmentOf(n))
      bytes == Slice(s, n * count)
      t == [s EXCEPT !.offset = @ + n * count]
  IN  IF r.error # "" THEN r
      ELSE IF count = 0 THEN Returns(r, <<>>)
      ELSE IF Len(bytes) < n * count /\ (Len(bytes) % n # 0 \/ (~LittleEndian(kind) /\ n > 1))
           THEN Fails(t, "struct.error")
      ELSE Returns(t, [i \in 1..(Len(bytes) \div n) |->
                         Decoded(SubSeq(bytes, (i - 1) * n + 1, i * n), Order(kind))])

\* An array after its sequence_length.
ReadSequence(r, n) ==
  LET s == ReadLength(r) IN IF s.error # "" THEN s ELSE ReadArray(s, n, s.got[1][1])

\* _member_header_v1; a sentinel is reported after two of its four bytes.
ReadHeaderV1(r) ==
  LET head == ReadUint16(ReadAligned(r, 4))
      long == ReadUint32(ReadUint16(head))
      size == IF head.got[1][2] = ExtendedPid THEN ReadUint32(long) ELSE ReadUint16(head)
      id == IF head.got[1][2] = ExtendedPid THEN long.got[1][1] ELSE head.got[1][2]
  IN  IF head.error # "" THEN head
      ELSE IF Len(head.got[1]) # 2 THEN Fails(head, "ValueError")
      ELSE IF head.got[1][2] = SentinelPid THEN Returns(head, <<<<SentinelPid, 0>>>>)
      ELSE IF size.error # "" THEN size
      ELSE Returns([size EXCEPT !.origin = size.offset],
                   <<<<head.got[1][1], id, size.got[1][1]>>>>)

\* _member_header_v2 and _em_header_object_size
ReadHeaderV2(r) ==
  LET head == ReadUint32(r)
      c == head.got[1][2]
      size == ReadUint32(head)
      unit == CASE c = 6 -> 4 [] c = 7 -> 8 [] OTHER -> 1
  IN  IF head.error # "" THEN head
      ELSE IF Len(head.got[1]) # 3 THEN Fails(head, "ValueError")
      ELSE IF c <= 3
           THEN Returns(head, <<<<head.got[1][1], head.got[1][3], FixedSizes[c + 1]>>>>)
      ELSE IF size.error # "" THEN size
      ELSE Returns(size, <<<<head.got[1][1], head.got[1][3], unit * size.got[1][1]>>>>)

\* em_header
ReadMember(r) ==
  IF r.error # "" THEN r ELSE IF Cdr2(kind) THEN ReadHeaderV2(r) ELSE ReadHeaderV1(r)

\* sentinel_header
ReadSentinel(r) ==
  LET head == ReadUint16(ReadAligned(r, 4))
  IN  IF Cdr2(kind) THEN Returns(r, <<>>)
      ELSE IF head.error # "" THEN head
      ELSE IF head.got # <<<<0, SentinelPid>>>> THEN Fails(head, "ValueError")
      ELSE LET s == ReadUint16(head) IN IF s.error # "" THEN s ELSE Returns(s, <<>>)

\* limit: the view ends after n more bytes.
CanLimit(r, n) == r.offset + n <= r.limit

\* Bug: the length is taken from the start of the view.
Limited_FromStart(r, n) == [r EXCEPT !.limit = n]

Limited(r, n) == [r EXCEPT !.limit = r.offset + n]

\* seek_to: the origin stays where it is.
CanSeek(r, to) == 4 <= to /\ to < r.limit
Sought(r, to) == [r EXCEPT !.offset = to]

=============================================================================
