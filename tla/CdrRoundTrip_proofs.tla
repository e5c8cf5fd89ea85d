------------------------ MODULE CdrRoundTrip_proofs ------------------------
(***************************************************************************)
(* What is written is read back, for any kinds, buffers, numbers and       *)
(* calls: the whole log says where every call of the writer lies in the    *)
(* data, a reader that is in step stands where its next call lies, and     *)
(* there it gets back what was written.                                    *)
(***************************************************************************)
EXTENDS CdrLayout_proofs

\* Where the call i of the log begins: behind the one before it.
StartOf(log, i) == IF i = 1 THEN 4 ELSE log[i - 1].end

\* The origin that the call i is made under: where the last call before it that
\* moves the origin has ended.
OriginOf(k, log, i, o) ==
  \/ o = 4 /\ \A j \in 1..(i - 1) : ~MovesOrigin(k, log[j])
  \/ \E j \in 1..(i - 1) :
       /\ MovesOrigin(k, log[j]) /\ o = log[j].end
       /\ \A l \in (j + 1)..(i - 1) : ~MovesOrigin(k, log[l])

\* What is still to write of the call i: items, if it is the last.
LeftOf(log, i, left) == IF i = Len(log) THEN left ELSE <<>>

LaidOut(k, d, log, i, left) ==
  \E o \in Nat :
    OriginOf(k, log, i, o) /\ Laid(k, d, StartOf(log, i), o, log[i], LeftOf(log, i, left))

\* All calls succeeded, and none was an empty array that aligns for nothing.
Clean == sound /\ \A i \in 1..Len(written) : ~EmptyBulk(written[i])

\* The calls lie in the data one behind the other.
LayoutInv ==
  /\ ~Idle => items.width = written[Len(written)].width
  /\ Clean =>
       /\ Len(data) = StartOf(written, Len(written) + 1)
       /\ OriginOf(kind, written, Len(written) + 1, origin)
       /\ \A i \in 1..Len(written) : LaidOut(kind, data, written, i, items.left)

-----------------------------------------------------------------------------
(* The origin *)

LEMMA OriginSame ==
  ASSUME NEW k, NEW log, NEW new, NEW i \in Nat, NEW o,
         \A j \in 1..(i - 1) : /\ MovesOrigin(k, new[j]) <=> MovesOrigin(k, log[j])
                               /\ MovesOrigin(k, log[j]) => new[j].end = log[j].end,
         OriginOf(k, log, i, o)
  PROVE  OriginOf(k, new, i, o)
<1>1. CASE o = 4 /\ \A j \in 1..(i - 1) : ~MovesOrigin(k, log[j])
  BY <1>1 DEF OriginOf
<1>2. ASSUME NEW j \in 1..(i - 1), MovesOrigin(k, log[j]), o = log[j].end,
             \A l \in (j + 1)..(i - 1) : ~MovesOrigin(k, log[l])
      PROVE  OriginOf(k, new, i, o)
  <2>1. MovesOrigin(k, new[j]) /\ o = new[j].end
    BY <1>2
  <2>2. ASSUME NEW l \in (j + 1)..(i - 1) PROVE ~MovesOrigin(k, new[l])
    <3>1. l \in 1..(i - 1)
      OBVIOUS
    <3> QED
      BY <1>2, <3>1
  <2> QED
    BY <2>1, <2>2 DEF OriginOf
<1> QED
  BY <1>1, <1>2 DEF OriginOf

LEMMA OriginNext ==
  ASSUME NEW k, NEW log, NEW i \in Nat \ {0}, NEW o, OriginOf(k, log, i, o)
  PROVE  OriginOf(k, log, i + 1, IF MovesOrigin(k, log[i]) THEN log[i].end ELSE o)
<1>1. (i + 1) - 1 = i /\ i \in 1..i
  OBVIOUS
<1>2. CASE MovesOrigin(k, log[i])
  <2>1. \A l \in (i + 1)..i : ~MovesOrigin(k, log[l])
    OBVIOUS
  <2> QED
    BY <1>1, <1>2, <2>1 DEF OriginOf
<1>3. CASE ~MovesOrigin(k, log[i])
  <2>1. CASE o = 4 /\ \A j \in 1..(i - 1) : ~MovesOrigin(k, log[j])
    <3>1. ASSUME NEW j \in 1..i PROVE ~MovesOrigin(k, log[j])
      <4>1. j = i \/ j \in 1..(i - 1)
        OBVIOUS
      <4> QED
        BY <1>3, <2>1, <4>1
    <3> QED
      BY <1>1, <1>3, <2>1, <3>1 DEF OriginOf
  <2>2. ASSUME NEW j \in 1..(i - 1), MovesOrigin(k, log[j]), o = log[j].end,
               \A l \in (j + 1)..(i - 1) : ~MovesOrigin(k, log[l])
        PROVE  OriginOf(k, log, i + 1, o)
    <3>1. j \in 1..i
      OBVIOUS
    <3>2. ASSUME NEW l \in (j + 1)..i PROVE ~MovesOrigin(k, log[l])
      <4>1. l = i \/ l \in (j + 1)..(i - 1)
        OBVIOUS
      <4> QED
        BY <1>3, <2>2, <4>1
    <3> QED
      BY <1>1, <2>2, <3>1, <3>2 DEF OriginOf
  <2> QED
    BY <1>3, <2>1, <2>2 DEF OriginOf
<1> QED
  BY <1>2, <1>3

\* There is one.
LEMMA OneOrigin ==
  ASSUME NEW k, NEW log, NEW i \in Nat, NEW o, NEW p, OriginOf(k, log, i, o), OriginOf(k, log, i, p)
  PROVE  o = p
<1>1. CASE \A j \in 1..(i - 1) : ~MovesOrigin(k, log[j])
  BY <1>1 DEF OriginOf
<1>2. CASE ~(\A j \in 1..(i - 1) : ~MovesOrigin(k, log[j]))
  <2>1. PICK j \in 1..(i - 1) : /\ MovesOrigin(k, log[j]) /\ o = log[j].end
                                /\ \A l \in (j + 1)..(i - 1) : ~MovesOrigin(k, log[l])
    BY <1>2 DEF OriginOf
  <2>2. PICK m \in 1..(i - 1) : /\ MovesOrigin(k, log[m]) /\ p = log[m].end
                                /\ \A l \in (m + 1)..(i - 1) : ~MovesOrigin(k, log[l])
    BY <1>2 DEF OriginOf
  <2>3. ~(j < m) /\ ~(m < j)
    <3>1. j < m => m \in (j + 1)..(i - 1)
      OBVIOUS
    <3>2. m < j => j \in (m + 1)..(i - 1)
      OBVIOUS
    <3> QED
      BY <2>1, <2>2, <3>1, <3>2
  <2>4. j = m
    <3>1. j \in Int /\ m \in Int
      OBVIOUS
    <3> QED
      BY ONLY <2>3, <3>1
  <2> QED
    BY <2>1, <2>2, <2>4
<1> QED
  BY <1>1, <1>2

\* Calls that are appended, or replaced by one that ends elsewhere, leave what was
\* laid out before them.
LEMMA StillLaidOut ==
  ASSUME NEW k, NEW d \in Seq(Byte), NEW e \in Seq(Byte), Grows(d, e),
         NEW log \in Seq(Calls), NEW new \in Seq(Calls), NEW n \in Nat, n <= Len(log), n <= Len(new),
         \A j \in 1..n : new[j] = log[j],
         NEW i \in 1..n, NEW left, NEW rest,
         LeftOf(log, i, left) = LeftOf(new, i, rest), LaidOut(k, d, log, i, left)
  PROVE  LaidOut(k, e, new, i, rest)
<1>1. PICK o \in Nat : /\ OriginOf(k, log, i, o)
                       /\ Laid(k, d, StartOf(log, i), o, log[i], LeftOf(log, i, left))
  BY DEF LaidOut
<1>2. i \in Nat /\ i \in 1..Len(log)
  <2>1. Len(log) \in Nat
    BY LenNat
  <2> QED
    BY ONLY <2>1, n \in Nat, n <= Len(log), i \in 1..n
<1>3. new[i] = log[i] /\ log[i] \in Calls /\ StartOf(new, i) = StartOf(log, i)
  <2>1. log[i] \in Calls
    BY <1>2
  <2>2. i # 1 => i - 1 \in 1..n
    OBVIOUS
  <2> QED
    BY <2>1, <2>2 DEF StartOf
<1>4. StartOf(log, i) \in Nat
  <2>1. ASSUME i # 1 PROVE log[i - 1].end \in Nat
    <3>1. i - 1 \in 1..Len(log)
      <4>1. Len(log) \in Nat
        BY LenNat
      <4> QED
        BY ONLY <1>2, <2>1, <4>1
    <3>2. log[i - 1] \in Calls
      BY <3>1
    <3> QED
      BY <3>2, CallTypes
  <2> QED
    BY <2>1 DEF StartOf
<1>5. OriginOf(k, new, i, o)
  <2>1. \A j \in 1..(i - 1) : new[j] = log[j]
    BY <1>2
  <2> QED
    BY <1>1, <1>2, <2>1, OriginSame
<1>6. Laid(k, e, StartOf(log, i), o, log[i], LeftOf(log, i, left))
  BY <1>1, <1>3, <1>4, LaidGrows
<1> QED
  BY <1>3, <1>5, <1>6 DEF LaidOut

-----------------------------------------------------------------------------
(* The writer lays one call behind the other *)

LEMMA LayoutInit == StreamInit => LayoutInv
<1> SUFFICES ASSUME StreamInit PROVE LayoutInv
  OBVIOUS
<1>1. Len(data) = 4 /\ origin = 4 /\ Idle /\ written = <<>>
  BY HeaderLength DEF StreamInit, Init, Idle, NoItems
<1>2. Len(written) = 0
  BY <1>1
<1>3. StartOf(written, Len(written) + 1) = 4
  BY <1>2 DEF StartOf
<1>4. OriginOf(kind, written, Len(written) + 1, 4)
  BY <1>2 DEF OriginOf
<1>5. \A i \in 1..Len(written) : LaidOut(kind, data, written, i, items.left)
  BY <1>2
<1> QED
  BY <1>1, <1>3, <1>4, <1>5 DEF LayoutInv

\* A log that is clean was clean before its last call.
LEMMA CleanBefore ==
  ASSUME WriterInv, NEW c, Made(c), Clean'
  PROVE  /\ Clean /\ error' = "" /\ ~EmptyBulk(c) /\ written' = Append(written, c)
         /\ Len(written') = Len(written) + 1 /\ written'[Len(written) + 1] = c
         /\ \A i \in 1..Len(written) : written'[i] = written[i]
<1>1. /\ written \in Seq(Calls) /\ c \in Calls /\ Len(written) \in Nat
  BY LenNat DEF WriterInv, Made
<1>2. sound /\ error' = "" /\ written' = Append(written, c)
  BY DEF Made, Clean
<1>3. /\ Len(written') = Len(written) + 1 /\ written'[Len(written) + 1] = c
      /\ \A i \in 1..Len(written) : written'[i] = written[i]
  <2>1. /\ Len(Append(written, c)) = Len(written) + 1
        /\ Append(written, c)[Len(written) + 1] = c
        /\ \A i \in 1..Len(written) : Append(written, c)[i] = written[i]
    BY ONLY <1>1, Appended
  <2> QED
    BY ONLY <1>2, <2>1
<1>4. \A i \in 1..Len(written') : ~EmptyBulk(written'[i])
  BY DEF Clean
<1>5. ~EmptyBulk(c)
  <2>1. Len(written) + 1 \in 1..Len(written')
    BY ONLY <1>1, <1>3
  <2> QED
    BY <1>3, <1>4, <2>1
<1>6. ASSUME NEW i \in 1..Len(written) PROVE ~EmptyBulk(written[i])
  <2>1. i \in 1..Len(written')
    BY ONLY <1>1, <1>3
  <2> QED
    BY <1>3, <1>4, <2>1
<1> QED
  BY <1>2, <1>3, <1>5, <1>6 DEF Clean

LEMMA LayoutMade ==
  ASSUME WriterInv, LayoutInv, NEW c, Made(c) PROVE LayoutInv'
<1>1. /\ c \in Calls /\ c.end = Len(data') /\ Idle /\ kind' = kind
      /\ written \in Seq(Calls) /\ RoomInv /\ RoomInv' /\ Grows(data, data')
      /\ items.left = <<>>
  BY DEF Made, WriterInv, Idle
<1>2. Len(written) \in Nat /\ data \in Seq(Byte) /\ data' \in Seq(Byte)
  BY <1>1, Lengths, WriterFields, LengthsAfter
<1>3. ASSUME ~Idle' PROVE items'.width = written'[Len(written')].width
  <2>1. error' = "" /\ items'.width = c.width /\ written' = Append(written, c)
    BY <1>3 DEF Made
  <2>2. Len(Append(written, c)) = Len(written) + 1 /\ Append(written, c)[Len(written) + 1] = c
    BY ONLY <1>1, Appended
  <2> QED
    BY ONLY <2>1, <2>2
<1>4. SUFFICES ASSUME Clean'
               PROVE  /\ Len(data') = StartOf(written', Len(written') + 1)
                      /\ OriginOf(kind, written', Len(written') + 1, origin')
                      /\ \A i \in 1..Len(written') :
                           LaidOut(kind, data', written', i, items'.left)
  BY <1>1, <1>3 DEF LayoutInv, Idle
<1>5. /\ Clean /\ error' = "" /\ ~EmptyBulk(c) /\ written' = Append(written, c)
      /\ Len(written') = Len(written) + 1 /\ written'[Len(written) + 1] = c
      /\ \A i \in 1..Len(written) : written'[i] = written[i]
  BY <1>4, CleanBefore
<1> DEFINE n == Len(written)
           new == written'
<1>6. Len(new) = n + 1 /\ new[n + 1] = c /\ \A i \in 1..n : new[i] = written[i]
  BY <1>5
<1>7. /\ Len(data) = StartOf(written, n + 1) /\ OriginOf(kind, written, n + 1, origin)
      /\ \A i \in 1..n : LaidOut(kind, data, written, i, items.left)
  BY <1>5 DEF LayoutInv
<1>8. /\ origin' = IF MovesOrigin(kind, c) THEN c.end ELSE origin
      /\ Laid(kind, data', Len(data), origin, c, items'.left)
  BY <1>5 DEF Made
<1>9. new \in Seq(Calls)
  BY <1>1, <1>5, Appended
<1> DEFINE left == items'.left
<1> HIDE DEF n, new, left
<1>10. n \in Nat /\ n <= Len(written) /\ n <= Len(new) /\ (n + 1) + 1 = Len(new) + 1
  <2>1. n \in Nat /\ n = Len(written)
    BY <1>2 DEF n
  <2>2. Len(new) = n + 1
    BY <1>6
  <2> QED
    BY ONLY <2>1, <2>2
<1>11. OriginOf(kind, new, n + 1, origin)
  <2> DEFINE i == n + 1
  <2>1. i \in Nat /\ i - 1 = n
    BY ONLY <1>10
  <2>2. OriginOf(kind, written, i, origin)
    BY <1>7
  <2> HIDE DEF i
  <2>3. \A j \in 1..(i - 1) : new[j] = written[j]
    BY <1>6, <2>1
  <2>4. OriginOf(kind, new, i, origin)
    BY ONLY <2>1, <2>2, <2>3, OriginSame
  <2> QED
    BY <2>4 DEF i
<1>12. OriginOf(kind, new, Len(new) + 1, origin')
  <2>1. n + 1 \in Nat \ {0}
    BY ONLY <1>10
  <2>2. OriginOf(kind, new, (n + 1) + 1,
                 IF MovesOrigin(kind, new[n + 1]) THEN new[n + 1].end ELSE origin)
    BY ONLY <1>11, <2>1, OriginNext
  <2> QED
    BY <1>6, <1>8, <1>10, <2>2
<1>13. Len(data') = StartOf(new, Len(new) + 1)
  <2>1. Len(new) + 1 # 1 /\ (Len(new) + 1) - 1 = n + 1
    <3>1. Len(new) = n + 1 /\ n \in Nat
      BY <1>6, <1>10
    <3> QED
      BY ONLY <3>1
  <2> QED
    BY <1>1, <1>6, <2>1 DEF StartOf
<1>14. StartOf(new, n + 1) = Len(data)
  <2>1. n + 1 # 1 => (n + 1) - 1 \in 1..n
    BY ONLY <1>10
  <2> QED
    BY <1>6, <1>7, <2>1 DEF StartOf
<1>15. LaidOut(kind, data', new, n + 1, left)
  <2>1. origin \in Nat
    BY <1>1 DEF RoomInv, TypeOK
  <2>2. LeftOf(new, n + 1, left) = left
    BY <1>6 DEF LeftOf
  <2> QED
    BY <1>6, <1>8, <1>11, <1>14, <2>1, <2>2 DEF LaidOut, left
<1>16. ASSUME NEW i \in 1..n PROVE LaidOut(kind, data', new, i, left)
  <2>1. i # Len(new)
    <3>1. Len(new) = n + 1 /\ n \in Nat
      BY <1>6, <1>10
    <3> QED
      BY ONLY <3>1, i \in 1..n
  <2>2. LeftOf(written, i, items.left) = LeftOf(new, i, left)
    BY <1>1, <2>1 DEF LeftOf
  <2>3. LaidOut(kind, data, written, i, items.left)
    BY <1>7
  <2> QED
    BY <1>1, <1>2, <1>6, <1>9, <1>10, <2>2, <2>3, StillLaidOut
<1>17. ASSUME NEW i \in 1..Len(new) PROVE LaidOut(kind, data', new, i, left)
  <2>1. i \in 1..n \/ i = n + 1
    <3>1. Len(new) = n + 1 /\ n \in Nat
      BY <1>6, <1>10
    <3> QED
      BY ONLY <3>1, i \in 1..Len(new)
  <2> QED
    BY <1>15, <1>16, <2>1
<1> QED
  BY <1>12, <1>13, <1>17 DEF new, left

\* One more item of an array.
LEMMA ArrayGoesOn ==
  ASSUME WriterInv, GoesOnWriting, error' = "", NEW s \in Nat, NEW c \in Calls, NEW d \in Calls,
         c.op = "array", c.width = items.width, c.end = Len(data),
         d.width = c.width, d.length = c.length, d.values = c.values, d.end = Len(data'),
         ArrayAt(kind, data, s, origin, c, items.left)
  PROVE  ArrayAt(kind, data', s, origin, d, items'.left)
<1> DEFINE left == items.left
           vs == c.values
           n == items.width
<1>1. /\ RoomInv /\ RoomInv' /\ Grows(data, data') /\ ~Idle /\ PutItem
  BY DEF WriterInv, GoesOnWriting
<1>2. /\ data \in Seq(Byte) /\ data' \in Seq(Byte) /\ origin \in Nat /\ n \in Alignments
      /\ left \in Seq(Nat) /\ left # <<>>
  BY <1>1, LengthsAfter DEF RoomInv, TypeOK, Alignments, Idle
<1>3. vs \in Seq(Seq(Nat)) /\ Len(vs) \in Nat
  BY CallTypes
<1>4. PICK q \in Nat, m \in 0..Len(vs) :
        /\ LengthAt(kind, data, s, origin, c.length, Len(vs), q)
        /\ ItemsAt(kind, data, q, origin, n, vs, m, Len(data))
        /\ m + Len(left) = Len(vs)
        /\ \A j \in 1..Len(left) : vs[m + j] = <<left[j]>>
  BY DEF ArrayAt
<1>5. /\ Len(left) \in Nat /\ 1 <= Len(left) /\ Len(Tail(left)) = Len(left) - 1
      /\ Head(left) = left[1]
      /\ \A j \in 1..(Len(left) - 1) : Tail(left)[j] = left[j + 1]
  <2> HIDE DEF left
  <2> QED
    BY ONLY <1>2
<1> HIDE DEF left, vs, n
<1>6. m \in Nat /\ m < Len(vs) /\ m + 1 \in 0..Len(vs) /\ 1 \in 1..Len(left)
  BY ONLY <1>3, <1>4, <1>5
<1>7. vs[m + 1] = <<Head(left)>>
  BY <1>4, <1>5, <1>6
<1>8. ItemsAt(kind, data', q, origin, n, vs, m + 1, Len(data'))
  BY <1>1, <1>3, <1>4, <1>6, <1>7, ItemCall DEF n, left
<1>9. LengthAt(kind, data', s, origin, c.length, Len(vs), q)
  BY <1>1, <1>2, <1>3, <1>4, LengthGrows
<1>10. items'.left = Tail(left)
  BY <1>1 DEF GoesOnWriting, RoomInv, TypeOK, left
<1>11. (m + 1) + Len(Tail(left)) = Len(vs)
  <2>1. Len(vs) \in Nat /\ m + Len(left) = Len(vs) /\ Len(left) \in Nat /\ m \in Nat
        /\ Len(Tail(left)) = Len(left) - 1
    BY <1>3, <1>4, <1>5, <1>6
  <2> DEFINE a == Len(left)
             b == Len(Tail(left))
             all == Len(vs)
  <2>2. all \in Nat /\ m + a = all /\ a \in Nat /\ m \in Nat /\ b = a - 1
    BY <2>1
  <2> HIDE DEF a, b, all
  <2>3. (m + 1) + b = all
    BY ONLY <2>2
  <2> QED
    BY <2>3 DEF b, all
<1>12. ASSUME NEW j \in 1..Len(Tail(left)) PROVE vs[(m + 1) + j] = <<Tail(left)[j]>>
  <2>1. j \in 1..(Len(left) - 1) /\ j + 1 \in 1..Len(left) /\ (m + 1) + j = m + (j + 1)
    BY ONLY <1>5, <1>6, j \in 1..Len(Tail(left))
  <2> QED
    BY <1>4, <1>5, <2>1
<1> QED
  BY <1>6, <1>8, <1>9, <1>10, <1>11, <1>12 DEF ArrayAt, vs, n

LEMMA LayoutGoesOn ==
  ASSUME WriterInv, LayoutInv, GoesOnWriting PROVE LayoutInv'
<1>1. /\ ~Idle /\ kind' = kind /\ written \in Seq(Calls) /\ RoomInv /\ RoomInv' /\ Grows(data, data')
      /\ written # <<>>
      /\ error' # "" => Idle'
  BY DEF GoesOnWriting, WriterInv
<1>2. /\ Len(written) \in Nat /\ 1 <= Len(written) /\ data \in Seq(Byte) /\ data' \in Seq(Byte)
      /\ origin \in Nat
  <2>1. /\ data \in Seq(Byte) /\ data' \in Seq(Byte) /\ origin \in Nat
    BY <1>1, WriterFields, LengthsAfter
  <2>2. written \in Seq(Calls) /\ written # <<>>
    BY <1>1
  <2>3. Len(written) \in Nat /\ 1 <= Len(written)
    BY ONLY <2>2, LastIn
  <2> QED
    BY <2>1, <2>3
<1>3. CASE error' # ""
  <2>1. Idle' /\ ~Clean'
    BY <1>1, <1>3 DEF GoesOnWriting, Clean
  <2> QED
    BY <2>1 DEF LayoutInv
<1>4. CASE error' = ""
  <2>1. PICK d \in Calls :
          LET c == written[Len(written)]
          IN  /\ c \in Calls /\ c.op = "array" /\ written # <<>>
              /\ d.op = "array" /\ d.how = c.how /\ d.width = c.width
              /\ d.length = c.length /\ d.values = c.values /\ d.end = Len(data')
              /\ written' = [written EXCEPT ![Len(written)] = d]
    BY <1>4, ItemWritten
  <2> DEFINE n == Len(written)
             c == written[n]
             new == written'
             left == items'.left
  <2>2. /\ new \in Seq(Calls) /\ Len(new) = n /\ new[n] = d
        /\ \A i \in 1..(n - 1) : new[i] = written[i]
    <3>1. written \in Seq(Calls) /\ d \in Calls /\ written # <<>>
      BY <1>1, <2>1
    <3>2. LET log == [written EXCEPT ![Len(written)] = d]
          IN  /\ log \in Seq(Calls) /\ Len(log) = Len(written) /\ log[Len(written)] = d
              /\ \A i \in 1..(Len(written) - 1) : log[i] = written[i]
      BY ONLY <3>1, Replaced
    <3> QED
      BY <2>1, <3>2
  <2>3. items'.width = items.width /\ origin' = origin
    BY <1>1, <1>4 DEF GoesOnWriting, RoomInv, TypeOK
  <2>4. items'.width = written'[Len(written')].width
    <3>1. items.width = c.width
      BY <1>1 DEF LayoutInv
    <3> QED
      BY <2>1, <2>2, <2>3, <3>1
  <2>5. SUFFICES ASSUME Clean'
                 PROVE  /\ Len(data') = StartOf(new, Len(new) + 1)
                        /\ OriginOf(kind, new, Len(new) + 1, origin)
                        /\ \A i \in 1..Len(new) : LaidOut(kind, data', new, i, left)
    BY <1>1, <2>3, <2>4 DEF LayoutInv
  <2>6. Clean
    <3>1. sound /\ \A i \in 1..Len(new) : ~EmptyBulk(new[i])
      BY <2>5, <1>1 DEF Clean, GoesOnWriting
    <3>2. ASSUME NEW i \in 1..n PROVE ~EmptyBulk(written[i])
      <4>1. CASE i = n
        <5>1. ~EmptyBulk(d)
          BY <2>2, <3>1, <4>1
        <5> QED
          BY <2>1, <4>1, <5>1 DEF EmptyBulk
      <4>2. CASE i # n
        <5>1. i \in 1..(n - 1)
          BY <1>2, <4>2
        <5> QED
          BY <2>2, <3>1, <5>1
      <4> QED
        BY <4>1, <4>2
    <3> QED
      BY <3>1, <3>2 DEF Clean
  <2>7. /\ Len(data) = StartOf(written, n + 1) /\ OriginOf(kind, written, n + 1, origin)
        /\ \A i \in 1..n : LaidOut(kind, data, written, i, items.left)
        /\ items.width = c.width
    BY <1>1, <2>6 DEF LayoutInv
  <2>8. n \in Nat /\ 1 <= n /\ n \in 1..n /\ n \in Nat \ {0} /\ (n + 1) - 1 = n /\ n + 1 # 1
    BY <1>2
  <2>9. c \in Calls /\ c.op = "array" /\ ~MovesOrigin(kind, c) /\ ~MovesOrigin(kind, d)
    BY <2>1 DEF MovesOrigin
  <2> HIDE DEF n, c, new, left
  <2>10. written[n] = c /\ n = Len(written)
    BY DEF c, n
  <2>11. c.end = Len(data)
    BY <2>7, <2>8, <2>10 DEF StartOf
  <2>12. OriginOf(kind, written, n, origin) /\ Laid(kind, data, StartOf(written, n), origin, c, items.left)
    <3>1. LaidOut(kind, data, written, n, items.left) /\ LeftOf(written, n, items.left) = items.left
      BY <2>7, <2>8, <2>10 DEF LeftOf
    <3>2. PICK o \in Nat : /\ OriginOf(kind, written, n, o)
                           /\ Laid(kind, data, StartOf(written, n), o, c, items.left)
      BY <2>10, <3>1 DEF LaidOut
    <3>3. OriginOf(kind, written, n + 1, o)
      <4>1. OriginOf(kind, written, n + 1, IF MovesOrigin(kind, written[n]) THEN written[n].end ELSE o)
        BY ONLY <2>8, <3>2, OriginNext
      <4> QED
        BY <2>9, <2>10, <4>1
    <3>4. n + 1 \in Nat
      BY ONLY <2>8
    <3>5. o = origin
      BY <2>7, <3>3, <3>4, OneOrigin
    <3> QED
      BY <3>2, <3>5
  <2>13. StartOf(written, n) \in Nat
    <3>1. ASSUME n # 1 PROVE written[n - 1].end \in Nat
      <4>1. n - 1 \in 1..Len(written)
        BY ONLY <2>8, <2>10, <3>1
      <4>2. written[n - 1] \in Calls
        <5>1. written \in Seq(Calls)
          BY <1>1
        <5> QED
          BY ONLY <4>1, <5>1
      <4> QED
        BY <4>2, CallTypes
    <3> QED
      BY <3>1 DEF StartOf
  <2>14. ArrayAt(kind, data', StartOf(written, n), origin, d, left)
    <3>1. /\ d.width = c.width /\ d.length = c.length /\ d.values = c.values /\ d.end = Len(data')
          /\ c.width = items.width /\ c.end = Len(data)
      BY <2>1, <2>7, <2>10, <2>11
    <3>2. ArrayAt(kind, data, StartOf(written, n), origin, c, items.left)
      BY <2>9, <2>12 DEF Laid
    <3> QED
      BY <1>4, <2>1, <2>9, <2>13, <3>1, <3>2, ArrayGoesOn DEF left
  <2>15. LaidOut(kind, data', new, n, left)
    <3>1. d.op = "array" /\ d.end = Len(data') /\ Len(data') \in Nat
      BY <1>2, <2>1, LenNat
    <3>2. Laid(kind, data', StartOf(written, n), origin, d, left)
      <4>1. d.end <= Len(data')
        BY ONLY <3>1
      <4> QED
        BY <2>14, <3>1, <4>1 DEF Laid
    <3>3. StartOf(new, n) = StartOf(written, n)
      <4>1. n # 1 => n - 1 \in 1..(n - 1)
        BY ONLY <2>8
      <4> QED
        BY <2>2, <4>1 DEF StartOf
    <3>4. OriginOf(kind, new, n, origin)
      BY <2>2, <2>8, <2>12, OriginSame
    <3>5. LeftOf(new, n, left) = left
      BY <2>2 DEF LeftOf
    <3> QED
      BY <1>2, <2>2, <3>2, <3>3, <3>4, <3>5 DEF LaidOut
  <2>16. OriginOf(kind, new, Len(new) + 1, origin)
    <3>1. OriginOf(kind, new, n, origin)
      BY <2>2, <2>8, <2>12, OriginSame
    <3>2. OriginOf(kind, new, n + 1, IF MovesOrigin(kind, new[n]) THEN new[n].end ELSE origin)
      BY ONLY <2>8, <3>1, OriginNext
    <3> QED
      BY <2>2, <2>9, <3>2
  <2>17. Len(data') = StartOf(new, Len(new) + 1)
    BY <2>1, <2>2, <2>8 DEF StartOf
  <2>18. ASSUME NEW i \in 1..(n - 1) PROVE LaidOut(kind, data', new, i, left)
    <3>1. i # n /\ i \in 1..n /\ n - 1 \in Nat /\ n - 1 <= n
      BY ONLY <2>8, i \in 1..(n - 1)
    <3>2. LeftOf(written, i, items.left) = LeftOf(new, i, left)
      BY <2>2, <2>10, <3>1 DEF LeftOf
    <3>3. LaidOut(kind, data, written, i, items.left)
      BY <2>7, <3>1
    <3>4. n - 1 <= Len(written) /\ n - 1 <= Len(new)
      BY <2>2, <2>10, <3>1
    <3> QED
      BY <1>1, <1>2, <2>2, <3>1, <3>2, <3>3, <3>4, StillLaidOut
  <2>19. ASSUME NEW i \in 1..Len(new) PROVE LaidOut(kind, data', new, i, left)
    <3>1. i \in 1..(n - 1) \/ i = n
      <4>1. Len(new) = n
        BY <2>2
      <4> QED
        BY ONLY <2>8, <4>1, i \in 1..Len(new)
    <3> QED
      BY <2>15, <2>18, <3>1
  <2> QED
    BY <2>16, <2>17, <2>19
<1> QED
  BY <1>3, <1>4

LEMMA LayoutNext == StreamInv /\ LayoutInv /\ [Next]_vars => LayoutInv'
<1> SUFFICES ASSUME StreamInv, LayoutInv, [Next]_vars PROVE LayoutInv'
  OBVIOUS
<1>1. WriterInv /\ RoomInv
  BY DEF StreamInv, WriterInv
<1>2. CASE Write
  BY <1>1, <1>2, WriteMade, LayoutMade, LayoutGoesOn
<1>3. CASE Open \/ ReadStep \/ Clone \/ UNCHANGED vars
  <2>1. UNCHANGED <<kind, data, origin, items, written, sound>>
    BY <1>3 DEF Open, ReadStep, Read, Limit, SeekBack, Clone, vars, writerVars, streamVars
  <2> QED
    BY <2>1 DEF LayoutInv, Clean, Idle
<1> QED
  BY <1>2, <1>3 DEF Next

-----------------------------------------------------------------------------
(* Bytes that were written are read *)

LEMMA Beginning ==
  ASSUME NEW S, NEW T, NEW s \in Seq(S), NEW t \in Seq(T), Len(s) <= Len(t),
         \A j \in 1..Len(s) : s[j] = t[j]
  PROVE  IsPrefix(s, t) /\ (Len(s) = Len(t) => s = t)
<1> DEFINE n == Len(s)
<1>1. n \in Nat /\ Len(t) \in Nat /\ n <= Len(t)
  OBVIOUS
<1>2. SubSeq(s, 1, n) = [j \in 1..n |-> s[j]]
  <2>1. /\ SubSeq(s, 1, n) \in Seq(S) /\ Len(SubSeq(s, 1, n)) = n
        /\ \A j \in 1..n : SubSeq(s, 1, n)[j] = s[j]
    OBVIOUS
  <2> QED
    BY <2>1
<1>3. SubSeq(t, 1, n) = [j \in 1..n |-> t[j]]
  <2>1. /\ SubSeq(t, 1, n) \in Seq(T) /\ Len(SubSeq(t, 1, n)) = n
        /\ \A j \in 1..n : SubSeq(t, 1, n)[j] = t[j]
    <3> HIDE DEF n
    <3>1. n \in 0..Len(t)
      BY ONLY <1>1
    <3> QED
      BY ONLY <1>1, <3>1, t \in Seq(T)
  <2> QED
    BY <2>1
<1>4. [j \in 1..n |-> s[j]] = [j \in 1..n |-> t[j]]
  OBVIOUS
<1>5. Len(s) = Len(t) => s = t
  OBVIOUS
<1> QED
  BY <1>1, <1>2, <1>3, <1>4, <1>5 DEF IsPrefix

LEMMA PrefixSelf == ASSUME NEW S, NEW s \in Seq(S) PROVE IsPrefix(s, s)
<1>1. Len(s) <= Len(s)
  OBVIOUS
<1> QED
  BY <1>1, Beginning

\* The part of the data behind p that holds some of bytes.
LEMMA PartHeld ==
  ASSUME NEW d \in Seq(Byte), NEW p \in Nat, NEW bytes \in Seq(Byte), Holds(d, p, bytes),
         NEW m \in Nat, m <= Len(bytes)
  PROVE  LET part == SubSeq(d, p + 1, p + m)
         IN  /\ part \in Seq(Byte) /\ Len(part) = m
             /\ \A j \in 1..m : part[j] = bytes[j]
<1> DEFINE part == SubSeq(d, p + 1, p + m)
<1>1. /\ p + Len(bytes) <= Len(d) /\ \A j \in 1..Len(bytes) : d[p + j] = bytes[j]
      /\ Len(bytes) \in Nat /\ Len(d) \in Nat
  BY DEF Holds
<1>2. p + m \in Nat /\ p + m <= Len(d) /\ p + 1 \in Nat /\ 1 <= p + 1
      /\ ((p + m) - (p + 1)) + 1 = m
  BY ONLY <1>1, p \in Nat, m \in Nat, m <= Len(bytes)
<1>3. part \in Seq(Byte) /\ Len(part) = m /\ \A j \in 1..m : part[j] = d[p + j]
  <2>1. SubSeq(d, p + 1, p + m) = [j \in 1..m |-> d[(p + 1) + j - 1]]
    BY ONLY <1>1, <1>2, d \in Seq(Byte), m \in Nat, p \in Nat
  <2>2. \A j \in 1..m : (p + 1) + j - 1 = p + j /\ p + j \in 1..Len(d)
    BY ONLY <1>1, <1>2, m \in Nat, p \in Nat
  <2>3. ASSUME NEW j \in 1..m PROVE d[p + j] \in Byte
    <3> DEFINE q == p + j
    <3>1. q \in 1..Len(d)
      BY <2>2
    <3> HIDE DEF q
    <3>2. d[q] \in Byte
      BY ONLY <3>1, d \in Seq(Byte)
    <3> QED
      BY <3>2 DEF q
  <2>4. part = [j \in 1..m |-> d[p + j]]
    BY <2>1, <2>2
  <2> HIDE DEF part
  <2> QED
    BY <2>3, <2>4
<1>4. \A j \in 1..m : part[j] = bytes[j]
  <2>1. \A j \in 1..m : j \in 1..Len(bytes)
    BY ONLY <1>1, m \in Nat, m <= Len(bytes)
  <2> QED
    BY <1>1, <1>3, <2>1
<1> QED
  BY <1>3, <1>4

LEMMA DecodedHeld ==
  ASSUME NEW d \in Seq(Byte), NEW p \in Nat, NEW n \in Alignments, NEW order \in Orders,
         NEW v \in Seq(Nat), Holds(d, p, Encoded(v, n, order))
  PROVE  Decoded(SubSeq(d, p + 1, p + n), order) = v
<1> DEFINE bytes == Encoded(v, n, order)
           part == SubSeq(d, p + 1, p + n)
<1>1. n \in Nat /\ 1 <= n /\ 1 \in 1..n
  BY WidthNat
<1>2. bytes \in Seq(Byte) /\ Len(bytes) = n /\ bytes[1].of = v
  <2>1. bytes \in Seq(Byte) /\ Len(bytes) = n
    BY <1>1, EncodedType
  <2>2. CASE v = <<0>>
    <3>1. bytes = Zeros(n)
      BY <2>2 DEF Encoded
    <3>2. bytes[1] = Zero /\ Zero.of = <<0>>
      BY <1>1, <3>1 DEF Zeros, Zero
    <3> QED
      BY <2>1, <2>2, <3>2
  <2>3. CASE v # <<0>>
    <3>1. bytes[1] = [of |-> v, order |-> IF n = 1 THEN "none" ELSE order, width |-> n, k |-> 1]
      BY <1>1, <2>3 DEF Encoded
    <3> QED
      BY <2>1, <3>1
  <2> QED
    BY <2>2, <2>3
<1>3. part = bytes
  <2>1. part \in Seq(Byte) /\ Len(part) = n /\ \A j \in 1..n : part[j] = bytes[j]
    <3>1. Holds(d, p, bytes) /\ n <= Len(bytes)
      BY <1>1, <1>2
    <3> HIDE DEF bytes
    <3> QED
      BY <1>1, <1>2, <3>1, PartHeld
  <2> HIDE DEF part, bytes
  <2>2. Len(part) <= Len(bytes) /\ Len(part) = Len(bytes) /\ \A j \in 1..Len(part) : part[j] = bytes[j]
    BY <1>1, <1>2, <2>1
  <2> QED
    BY ONLY <1>2, <2>1, <2>2, Beginning
<1>4. part[1].of = v /\ Len(part) = n
  BY <1>2, <1>3
<1>5. part = Encoded(v, n, order)
  BY <1>3
<1> HIDE DEF part, bytes
<1>6. Decoded(part, order) = v
  BY <1>4, <1>5 DEF Decoded
<1> QED
  BY <1>6 DEF part

\* A reader stands where the call c of the writer begins, or two bytes before it,
\* behind a sentinel it has read half of, where c has the reader align anyway.
Before(off, s, o, c) ==
  \/ off = s
  \/ /\ ~Cdr2(kind) /\ Realigns(c)
     /\ \A n \in {4, 8} : Place(off, o, n) = Place(s, o, n)

\* A number that ends at e is read as it was written, or not at all.
LEMMA NumberBack ==
  ASSUME RoomInv, NEW r, Reader(r, Len(data)), r.error = "", NEW n \in Alignments,
         NEW order \in Orders, NEW v \in Seq(Nat), NEW s \in Nat, NEW e \in Nat,
         NumberAt(kind, data, s, r.origin, n, order, v, e),
         Place(r.offset, r.origin, UnitOf(kind, n)) = Place(s, r.origin, UnitOf(kind, n))
  PROVE  LET t == ReadNumber(r, n, order)
         IN  /\ Reader(t, Len(data)) /\ Kept(r, t) /\ t.error \in {"", "struct.error"}
             /\ t.error = "" => t.offset = e /\ e <= r.limit /\ t.got = <<v>>
             /\ e <= r.limit => t.error = ""
<1> DEFINE t == ReadNumber(r, n, order)
           p == Place(r.offset, r.origin, UnitOf(kind, n))
<1>1. /\ Reader(t, Len(data)) /\ Kept(r, t) /\ p \in Nat
      /\ p + n > r.limit => t.error = "struct.error"
      /\ ~(p + n > r.limit) => /\ t.error = "" /\ t.offset = p + n
                               /\ t.got = <<Decoded(SubSeq(data, p + 1, p + n), order)>>
  BY NumberReads
<1>2. e = p + n /\ Holds(data, p, Encoded(v, n, order))
  BY DEF NumberAt
<1>3. r.limit \in Nat /\ n \in Nat
  <2>1. r.limit \in 4..Len(data) /\ Len(data) \in Nat
    BY ReaderFields, WriterFields
  <2>2. r.limit \in Nat
    BY ONLY <2>1
  <2> QED
    BY <2>2, WidthNat
<1>4. data \in Seq(Byte)
  BY WriterFields
<1> HIDE DEF p, t
<1>5. Decoded(SubSeq(data, p + 1, p + n), order) = v
  BY ONLY <1>1, <1>2, <1>4, n \in Alignments, order \in Orders, v \in Seq(Nat), DecodedHeld
<1>6. p + n > r.limit <=> ~(e <= r.limit)
  <2>1. e = p + n /\ p \in Nat
    BY <1>1, <1>2
  <2> QED
    BY ONLY <1>3, <2>1, e \in Nat
<1> QED
  BY <1>1, <1>2, <1>5, <1>6 DEF t

\* So are bytes that begin where the reader stands, as far as its view goes.
LEMMA SliceBack ==
  ASSUME RoomInv, NEW r, Reader(r, Len(data)), NEW bytes \in Seq(Byte), Holds(data, r.offset, bytes)
  PROVE  LET part == Slice(r, Len(bytes))
         IN  /\ part \in Seq(Byte) /\ Len(part) <= Len(bytes)
             /\ \A j \in 1..Len(part) : part[j] = bytes[j]
             /\ r.offset + Len(bytes) <= r.limit => Len(part) = Len(bytes)
<1> DEFINE n == Len(bytes)
           p == r.offset
           end == IF p + n < r.limit THEN p + n ELSE r.limit
           part == SubSeq(data, p + 1, end)
<1>1. r.limit \in 4..Len(data) /\ p \in Nat /\ Len(data) \in Nat /\ n \in Nat /\ data \in Seq(Byte)
  BY ReaderFields, WriterFields, LenNat
<1>2. r.limit \in Nat
  BY ONLY <1>1
<1>3. Slice(r, n) = part
  BY DEF Slice
<1> SUFFICES /\ part \in Seq(Byte) /\ Len(part) <= n
             /\ \A j \in 1..Len(part) : part[j] = bytes[j]
             /\ p + n <= r.limit => Len(part) = n
  BY <1>3
<1>4. CASE p <= end
  <2> DEFINE m == end - p
  <2>1. m \in Nat /\ m <= n /\ p + m = end /\ (p + n <= r.limit => m = n)
    <3> HIDE DEF n, p
    <3> QED
      BY ONLY <1>1, <1>2, <1>4
  <2> HIDE DEF m, end, n, p
  <2>2. /\ part \in Seq(Byte) /\ Len(part) = m /\ \A j \in 1..m : part[j] = bytes[j]
    <3>1. Holds(data, p, bytes) /\ m <= Len(bytes)
      BY <2>1 DEF p, n
    <3>2. part = SubSeq(data, p + 1, p + m)
      BY <2>1
    <3>3. data \in Seq(Byte) /\ p \in Nat /\ m \in Nat
      BY <1>1, <2>1 DEF p
    <3> HIDE DEF part
    <3> QED
      BY ONLY <3>1, <3>2, <3>3, bytes \in Seq(Byte), PartHeld
  <2> QED
    BY <2>1, <2>2
<1>5. CASE ~(p <= end)
  <2>1. end \in Nat /\ end < p + 1 /\ ~(p + n <= r.limit)
    <3> HIDE DEF n, p
    <3> QED
      BY ONLY <1>1, <1>2, <1>5
  <2> HIDE DEF end, n, p
  <2>2. part = <<>>
    BY ONLY <1>1, <2>1
  <2> HIDE DEF part
  <2>3. part \in Seq(Byte) /\ Len(part) = 0
    BY ONLY <2>2
  <2> QED
    BY ONLY <1>1, <2>1, <2>3
<1> QED
  BY <1>4, <1>5

-----------------------------------------------------------------------------
(* Each call reads back what its writer wrote *)

LEMMA OneValue ==
  ASSUME NEW x \in Nat
  PROVE  <<x>> \in Seq(Nat) /\ <<<<x>>>> \in Seq(Seq(Nat)) /\ IsPrefix(<<<<x>>>>, <<<<x>>>>)
<1>1. <<x>> \in Seq(Nat)
  OBVIOUS
<1> DEFINE v == <<x>>
<1> HIDE DEF v
<1>2. <<v>> \in Seq(Seq(Nat))
  <2>1. v \in Seq(Nat)
    BY <1>1 DEF v
  <2> QED
    BY <2>1
<1>3. IsPrefix(<<v>>, <<v>>)
  BY <1>2, PrefixSelf
<1> QED
  BY <1>1, <1>2, <1>3 DEF v

LEMMA NoValues == IsPrefix(<<>>, <<>>)
<1>1. <<>> \in Seq(Nat)
  OBVIOUS
<1> QED
  BY <1>1, PrefixSelf

LEMMA BeforePlace ==
  ASSUME NEW off, NEW s, NEW o, NEW c, Before(off, s, o, c), NEW n, Realigns(c) => n \in {4, 8}
  PROVE  Place(off, o, UnitOf(kind, n)) = Place(s, o, UnitOf(kind, n))
BY DEF Before, UnitOf

LEMMA BeforeFour ==
  ASSUME NEW off, NEW s, NEW o, NEW c, Before(off, s, o, c) PROVE Place(off, o, 4) = Place(s, o, 4)
BY DEF Before

\* Where a reader comes to that has read the whole of c, if it does.
Whole(r, t, c) ==
  /\ t.error = "" =>
       /\ t.origin = IF MovesOrigin(kind, c) THEN c.end ELSE r.origin
       /\ t.offset = c.end /\ IsPrefix(t.got, Expected(c))
  /\ c.end <= r.limit => t.error = "" /\ t.got = Expected(c)

LEMMA NumberWhole ==
  ASSUME RoomInv, NEW r, Reader(r, Len(data)), r.error = "", NEW c \in Calls, NEW s \in Nat,
         c.op = "number", Laid(kind, data, s, r.origin, c, <<>>), Before(r.offset, s, r.origin, c)
  PROVE  Whole(r, ReadCall(r, c), c)
<1> DEFINE t == ReadNumber(r, c.width, c.order)
<1>1. PICK x \in Nat : /\ c.values = <<<<x>>>>
                       /\ NumberAt(kind, data, s, r.origin, c.width, c.order, <<x>>, c.end)
  BY DEF Laid
<1>2. c.width \in Alignments /\ c.order \in Orders /\ c.end \in Nat /\ <<x>> \in Seq(Nat)
  <2>1. c.op \in {"number", "array"} /\ c.op = "number"
    OBVIOUS
  <2>2. c.width \in Alignments /\ c.order \in Orders /\ c.end \in Nat
    BY ONLY <2>1, c \in Calls, CallTypes
  <2> QED
    BY <2>2, OneValue
<1>3. Place(r.offset, r.origin, UnitOf(kind, c.width)) = Place(s, r.origin, UnitOf(kind, c.width))
  <2>1. Realigns(c) => c.width >= 4
    BY DEF Realigns
  <2>2. Realigns(c) => c.width \in {4, 8}
    BY ONLY <1>2, <2>1 DEF Alignments
  <2> QED
    BY ONLY <2>2, Before(r.offset, s, r.origin, c), BeforePlace
<1>4. /\ Kept(r, t)
      /\ t.error = "" => t.offset = c.end /\ t.got = <<<<x>>>>
      /\ c.end <= r.limit => t.error = ""
  BY <1>1, <1>2, <1>3, NumberBack
<1> HIDE DEF t
<1>5. ReadCall(r, c) = t
  BY DEF ReadCall, t
<1>6. Expected(c) = <<<<x>>>> /\ ~MovesOrigin(kind, c)
  BY <1>1 DEF Expected, MovesOrigin
<1>7. IsPrefix(<<<<x>>>>, <<<<x>>>>)
  BY OneValue
<1>8. t.origin = r.origin
  BY <1>4 DEF Kept
<1> QED
  BY <1>4, <1>5, <1>6, <1>7, <1>8 DEF Whole

LEMMA LengthBack ==
  ASSUME RoomInv, NEW r, Reader(r, Len(data)), r.error = "", NEW x \in Nat,
         NEW s \in Nat, NEW q \in Nat, NumberAt(kind, data, s, r.origin, 4, Order(kind), <<x>>, q),
         Place(r.offset, r.origin, 4) = Place(s, r.origin, 4)
  PROVE  LET t == ReadLength(r)
         IN  /\ Reader(t, Len(data)) /\ Kept(r, t)
             /\ t.error = "" => t.offset = q /\ q <= r.limit /\ t.got[1][1] = x
             /\ q <= r.limit => t.error = ""
<1> DEFINE u == ReadNumber(r, 4, Order(kind))
           t == ReadLength(r)
<1>1. 4 \in Alignments /\ Order(kind) \in Orders /\ <<x>> \in Seq(Nat) /\ UnitOf(kind, 4) = 4
  <2>1. 4 \in Alignments /\ UnitOf(kind, 4) = 4
    BY DEF Alignments, UnitOf
  <2> QED
    BY <2>1, OrderOf, OneValue
<1>2. /\ u.error = "" => u.offset = q /\ q <= r.limit /\ u.got = <<<<x>>>>
      /\ q <= r.limit => u.error = ""
  BY <1>1, NumberBack
<1>3. Reader(t, Len(data)) /\ Kept(r, t)
  BY LengthKeeps
<1> HIDE DEF u
<1>4. t = IF u.error = "" /\ (Len(u.got[1]) # 1 \/ u.got = <<Garbled>>) THEN Fails(u, "garbled") ELSE u
  BY DEF ReadLength, ReadUint32, u
<1>5. ASSUME u.error = "" PROVE Len(u.got[1]) = 1 /\ u.got # <<Garbled>> /\ u.got[1][1] = x
  <2>1. u.got = <<<<x>>>>
    BY <1>2, <1>5
  <2>2. <<<<x>>>>[1] = <<x>> /\ <<x>>[1] = x /\ Len(<<x>>) = 1
    OBVIOUS
  <2>3. <<<<x>>>> # <<Garbled>>
    <3>1. <<Garbled>>[1][1] = -2
      BY DEF Garbled
    <3>2. <<<<x>>>>[1][1] = x
      BY <2>2
    <3>3. x # -2
      BY ONLY x \in Nat
    <3> QED
      BY <3>1, <3>2, <3>3
  <2> QED
    BY <2>1, <2>2, <2>3
<1>6. t = u
  BY <1>4, <1>5
<1> QED
  BY <1>2, <1>3, <1>5, <1>6

LEMMA CharsBack ==
  ASSUME RoomInv, NEW u, Reader(u, Len(data)), u.error = "", NEW n \in Nat,
         Holds(data, u.offset, Text(n))
  PROVE  LET t == ReadChars(u, n + 1)
         IN  /\ Kept(u, t) /\ t.error = "" /\ t.offset = u.offset + n + 1
             /\ IsPrefix(t.got, Text(n))
             /\ u.offset + n <= u.limit => t.got = Text(n)
<1> DEFINE t == ReadChars(u, n + 1)
<1>1. u.offset \in Nat /\ n + 1 \in Nat
  <2>1. u.offset \in Nat
    BY ONLY Reader(u, Len(data)), ReaderFields
  <2> QED
    BY ONLY <2>1, n \in Nat
<1>2. /\ Kept(u, t) /\ t.error = "" /\ t.offset = u.offset + (n + 1)
      /\ t.got = IF n + 1 <= 1 THEN <<>> ELSE Slice(u, (n + 1) - 1)
  <2> DEFINE m == n + 1
  <2>1. m \in Nat
    BY <1>1
  <2> HIDE DEF m
  <2>2. LET x == ReadChars(u, m)
        IN  /\ Kept(u, x) /\ x.error = "" /\ x.offset = u.offset + m
            /\ x.got = IF m <= 1 THEN <<>> ELSE Slice(u, m - 1)
    BY ONLY <2>1, Reader(u, Len(data)), u.error = "", CharsRead
  <2> QED
    BY <2>2 DEF m
<1>3. u.offset + (n + 1) = u.offset + n + 1 /\ (n + 1) - 1 = n /\ (n + 1 <= 1 <=> n = 0)
  BY ONLY <1>1, n \in Nat
<1>4. Text(n) \in Seq(Byte) /\ Len(Text(n)) = n
  BY ONLY n \in Nat, TextType
<1> DEFINE bytes == Text(n)
<1> HIDE DEF t, bytes
<1>5. CASE n = 0
  <2>1. t.got = <<>>
    BY ONLY <1>2, <1>3, <1>5
  <2>2. bytes = <<>>
    <3>1. bytes \in Seq(Byte) /\ Len(bytes) = 0
      BY <1>4, <1>5 DEF bytes
    <3> QED
      BY ONLY <3>1
  <2>3. IsPrefix(bytes, bytes)
    <3>1. bytes \in Seq(Byte)
      BY <1>4 DEF bytes
    <3> QED
      BY ONLY <3>1, PrefixSelf
  <2> QED
    BY <1>2, <1>3, <2>1, <2>2, <2>3 DEF t, bytes
<1>6. CASE n # 0
  <2>1. t.got = Slice(u, n)
    BY ONLY <1>2, <1>3, <1>6
  <2>2. /\ t.got \in Seq(Byte) /\ Len(t.got) <= Len(bytes)
        /\ \A j \in 1..Len(t.got) : t.got[j] = bytes[j]
        /\ u.offset + n <= u.limit => Len(t.got) = n
    <3>1. Len(bytes) = n /\ bytes \in Seq(Byte) /\ Holds(data, u.offset, bytes)
      BY <1>4 DEF bytes
    <3>2. LET part == Slice(u, Len(bytes))
          IN  /\ part \in Seq(Byte) /\ Len(part) <= Len(bytes)
              /\ \A j \in 1..Len(part) : part[j] = bytes[j]
              /\ u.offset + Len(bytes) <= u.limit => Len(part) = Len(bytes)
      BY ONLY <3>1, RoomInv, Reader(u, Len(data)), SliceBack
    <3> QED
      BY ONLY <2>1, <3>1, <3>2
  <2>3. IsPrefix(t.got, bytes) /\ (Len(t.got) = Len(bytes) => t.got = bytes)
    <3>1. bytes \in Seq(Byte)
      BY <1>4 DEF bytes
    <3> QED
      BY ONLY <2>2, <3>1, Beginning
  <2> QED
    BY <1>2, <1>3, <1>4, <2>2, <2>3 DEF t, bytes
<1> QED
  BY <1>5, <1>6

LEMMA TextWhole ==
  ASSUME RoomInv, NEW r, Reader(r, Len(data)), r.error = "", NEW c \in Calls, NEW s \in Nat,
         c.op = "text", Laid(kind, data, s, r.origin, c, <<>>), Before(r.offset, s, r.origin, c)
  PROVE  Whole(r, ReadCall(r, c), c)
<1> DEFINE n == c.width
           o == r.origin
<1>1. PICK q \in Nat : /\ LengthAt(kind, data, s, o, c.length, n + 1, q)
                       /\ c.end = q + n + 1 /\ Holds(data, q, Text(n))
  BY DEF Laid, TextAt
<1>2. n \in Nat /\ c.length \in BOOLEAN /\ n + 1 \in Nat
  <2>1. c.op = "text" /\ c.op \in {"text", "array"}
    OBVIOUS
  <2>2. c.width \in Nat /\ c.length \in BOOLEAN
    BY ONLY <2>1, c \in Calls, CallTypes
  <2> QED
    BY ONLY <2>2
<1>3. Expected(c) = Text(n) /\ ~MovesOrigin(kind, c)
  BY DEF Expected, MovesOrigin
<1>4. r.limit \in Nat
  <2>1. r.limit \in 4..Len(data) /\ Len(data) \in Nat
    BY ReaderFields, WriterFields
  <2> QED
    BY ONLY <2>1
<1> HIDE DEF n
\* Behind the length, if there is one, the text is read from u on.
<1>5. ASSUME NEW u, Reader(u, Len(data)), Kept(r, u), u.error = "", u.offset = q
      PROVE  Whole(r, ReadChars(u, n + 1), c)
  <2> DEFINE t == ReadChars(u, n + 1)
  <2>1. u.limit = r.limit /\ u.origin = r.origin
    BY <1>5 DEF Kept
  <2>2. /\ Kept(u, t) /\ t.error = "" /\ t.offset = q + n + 1 /\ IsPrefix(t.got, Text(n))
        /\ q + n <= u.limit => t.got = Text(n)
    BY <1>1, <1>2, <1>5, CharsBack
  <2> HIDE DEF t
  <2>3. t.origin = r.origin
    BY <2>1, <2>2 DEF Kept
  <2>4. c.end <= r.limit => q + n <= u.limit
    <3>1. c.end = q + n + 1
      BY <1>1
    <3> QED
      BY ONLY <1>2, <1>4, <2>1, <3>1, q \in Nat
  <2> QED
    BY <1>1, <1>3, <2>2, <2>3, <2>4 DEF Whole, t
<1>6. CASE c.length
  <2> DEFINE u == ReadLength(r)
  <2>1. NumberAt(kind, data, s, o, 4, Order(kind), <<n + 1>>, q)
    BY <1>1, <1>6 DEF LengthAt
  <2>2. Place(r.offset, o, 4) = Place(s, o, 4)
    BY BeforeFour
  <2>3. /\ Reader(u, Len(data)) /\ Kept(r, u)
        /\ u.error = "" => u.offset = q /\ q <= r.limit /\ u.got[1][1] = n + 1
        /\ q <= r.limit => u.error = ""
    BY <1>2, <2>1, <2>2, LengthBack
  <2> HIDE DEF u
  <2>4. ReadCall(r, c) = IF u.error # "" THEN u ELSE ReadChars(u, u.got[1][1])
    BY <1>6 DEF ReadCall, ReadString, u
  <2>5. c.end <= r.limit => q <= r.limit
    <3>1. c.end = q + n + 1
      BY <1>1
    <3> QED
      BY ONLY <1>2, <1>4, <3>1, q \in Nat
  <2>6. CASE u.error # ""
    <3>1. ReadCall(r, c) = u /\ ~(c.end <= r.limit)
      BY <2>3, <2>4, <2>5, <2>6
    <3> QED
      BY <2>6, <3>1 DEF Whole
  <2>7. CASE u.error = ""
    <3>1. ReadCall(r, c) = ReadChars(u, n + 1)
      BY <2>3, <2>4, <2>7
    <3> QED
      BY <1>5, <2>3, <2>7, <3>1
  <2> QED
    BY <2>6, <2>7
<1>7. CASE ~c.length
  <2>1. q = s
    BY <1>1, <1>7 DEF LengthAt
  <2>2. r.offset = s
    BY <1>7 DEF Before, Realigns
  <2>3. ReadCall(r, c) = ReadChars(r, n + 1)
    BY <1>7 DEF ReadCall, ReadStringOf, n
  <2>4. Kept(r, r)
    BY DEF Kept
  <2> QED
    BY <1>5, <2>1, <2>2, <2>3, <2>4
<1> QED
  BY <1>2, <1>6, <1>7

\* A part of a part.
LEMMA PartOfPart ==
  ASSUME NEW d \in Seq(Byte), NEW p \in Nat, NEW m \in Nat, p + m <= Len(d),
         NEW a \in Nat, NEW n \in Nat, a + n <= m
  PROVE  LET part == SubSeq(d, p + 1, p + m)
         IN  SubSeq(part, a + 1, a + n) = SubSeq(d, (p + a) + 1, (p + a) + n)
<1> DEFINE part == SubSeq(d, p + 1, p + m)
           left == SubSeq(part, a + 1, a + n)
           right == SubSeq(d, (p + a) + 1, (p + a) + n)
<1>1. Len(d) \in Nat
  BY LenNat
<1>2. part = [j \in 1..m |-> d[p + j]] /\ part \in Seq(Byte) /\ Len(part) = m
  <2>1. ASSUME NEW j \in 1..m PROVE d[p + j] \in Byte
    <3> DEFINE q == p + j
    <3>1. q \in 1..Len(d)
      BY ONLY <1>1, p \in Nat, m \in Nat, p + m <= Len(d), j \in 1..m
    <3> HIDE DEF q
    <3>2. d[q] \in Byte
      BY ONLY <3>1, d \in Seq(Byte)
    <3> QED
      BY <3>2 DEF q
  <2>2. /\ ((p + m) - (p + 1)) + 1 = m
        /\ \A j \in 1..m : ((p + 1) + j) - 1 = p + j
    BY ONLY p \in Nat, m \in Nat
  <2>3. part = [j \in 1..m |-> d[p + j]]
    BY ONLY <2>2, d \in Seq(Byte), p \in Nat, m \in Nat
  <2> HIDE DEF part
  <2> QED
    BY <2>1, <2>3
<1>3. left = [j \in 1..n |-> part[a + j]]
  <2> HIDE DEF part
  <2>1. /\ ((a + n) - (a + 1)) + 1 = n
        /\ \A j \in 1..n : ((a + 1) + j) - 1 = a + j
    BY ONLY a \in Nat, n \in Nat
  <2> QED
    BY ONLY <1>2, <2>1, a \in Nat, n \in Nat
<1>4. right = [j \in 1..n |-> d[(p + a) + j]]
  <2> DEFINE q == p + a
  <2>1. q \in Nat
    BY ONLY p \in Nat, a \in Nat
  <2> HIDE DEF q
  <2>2. /\ ((q + n) - (q + 1)) + 1 = n
        /\ \A j \in 1..n : ((q + 1) + j) - 1 = q + j
    BY ONLY <2>1, n \in Nat
  <2>3. SubSeq(d, q + 1, q + n) = [j \in 1..n |-> d[q + j]]
    BY ONLY <2>1, <2>2, d \in Seq(Byte), n \in Nat
  <2> QED
    BY <2>3 DEF q
<1>5. ASSUME NEW j \in 1..n PROVE part[a + j] = d[(p + a) + j]
  <2>1. a + j \in 1..m /\ p + (a + j) = (p + a) + j
    BY ONLY p \in Nat, a \in Nat, n \in Nat, m \in Nat, a + n <= m, j \in 1..n
  <2> QED
    BY <1>2, <2>1
<1> QED
  BY <1>3, <1>4, <1>5

\* How many items of n bytes there are in m bytes.
LEMMA WholeItems ==
  ASSUME NEW n \in Alignments, NEW m \in Nat, NEW count \in Nat, m <= n * count
  PROVE  /\ m \div n \in Nat /\ m \div n <= count
         /\ m = n * count => m \div n = count
         /\ \A i \in 1..(m \div n) :
              /\ n * (i - 1) \in Nat /\ n * (i - 1) + n <= m
              /\ (i - 1) * n + 1 = n * (i - 1) + 1 /\ i * n = n * (i - 1) + n
<1>1. CASE n = 1
  BY <1>1
<1>2. CASE n = 2
  BY <1>2
<1>3. CASE n = 4
  BY <1>3
<1>4. CASE n = 8
  BY <1>4
<1> QED
  BY <1>1, <1>2, <1>3, <1>4 DEF Alignments

\* Items that begin where the reader stands are read as far as its view goes.
LEMMA ItemsBack ==
  ASSUME RoomInv, NEW u, Reader(u, Len(data)), u.error = "", NEW n \in Alignments,
         NEW vs \in Seq(Seq(Nat)), NEW e \in Nat, e <= Len(data),
         ItemsAt(kind, data, u.offset, u.origin, n, vs, Len(vs), e)
  PROVE  LET t == ReadArray(u, n, Len(vs))
         IN  /\ Kept(u, t)
             /\ t.error = "" => t.offset = e /\ IsPrefix(t.got, vs)
             /\ e <= u.limit => t.error = "" /\ t.got = vs
<1> DEFINE count == Len(vs)
           t == ReadArray(u, n, count)
           s == ReadAligned(u, AlignmentOf(n))
           bytes == Slice(s, n * count)
           p == Place(u.offset, u.origin, UnitOf(kind, n))
<1>1. count \in Nat /\ n \in Nat /\ 1 <= n
  <2>1. count \in Nat
    BY LenNat
  <2>2. n \in Nat /\ 1 <= n
    BY ONLY n \in Alignments, WidthNat
  <2> QED
    BY <2>1, <2>2
<1>2. /\ Kept(u, t) /\ Kept(u, s) /\ s.offset = p
      /\ count = 0 => t.error = "" /\ t.offset = u.offset /\ t.got = <<>>
      /\ count # 0 /\ t.error = "" =>
           /\ t.offset = s.offset + n * count
           /\ t.got = [i \in 1..(Len(bytes) \div n) |->
                         Decoded(SubSeq(bytes, (i - 1) * n + 1, i * n), Order(kind))]
      /\ count # 0 /\ ~(Len(bytes) < n * count) => t.error = ""
  <2> HIDE DEF count
  <2> QED
    BY <1>1, ArrayReads
<1>3. /\ count = 0 => e = u.offset
      /\ count # 0 => /\ e = p + n * count
                      /\ \A j \in 1..count : Holds(data, p + n * (j - 1), Encoded(vs[j], n, Order(kind)))
  BY DEF ItemsAt
<1>4. /\ u.offset \in Nat /\ u.limit \in 4..Len(data) /\ u.origin \in Nat /\ Len(data) \in Nat
      /\ data \in Seq(Byte)
  BY ReaderFields, WriterFields
<1>5. p \in Nat /\ u.limit \in Nat /\ u.limit <= Len(data)
  <2>1. UnitOf(kind, n) \in Alignments
    BY ONLY n \in Alignments, UnitType
  <2>2. p \in Nat
    BY ONLY <1>4, <2>1, PlaceNat
  <2> QED
    BY ONLY <1>4, <2>2
<1> HIDE DEF t, p
<1>6. CASE count = 0
  <2>1. vs = <<>>
    <3>1. Len(vs) = 0
      BY <1>6
    <3> DEFINE S == Seq(Nat)
    <3>2. vs \in Seq(S)
      OBVIOUS
    <3> HIDE DEF S
    <3> QED
      BY ONLY <3>1, <3>2
  <2>2. IsPrefix(vs, vs)
    BY ONLY vs \in Seq(Seq(Nat)), PrefixSelf
  <2> QED
    BY <1>2, <1>3, <1>6, <2>1, <2>2 DEF t
<1>7. CASE count # 0
  <2> DEFINE all == n * count
             end == IF p + all < u.limit THEN p + all ELSE u.limit
             m == IF p <= end THEN end - p ELSE 0
             most == m \div n
  <2>1. all \in Nat
    BY ONLY <1>1
  <2> HIDE DEF all, count
  <2>2. /\ m \in Nat /\ m <= all /\ (e <= u.limit <=> m = all) /\ p + all = e
        /\ m # 0 => end = p + m
        /\ m = 0 => end \in Nat /\ end < p + 1
    <3>1. e = p + all
      BY <1>3, <1>7 DEF all
    <3>2. all # 0
      <4>1. n * count # 0
        BY ONLY <1>1, <1>7
      <4> QED
        BY <4>1 DEF all
    <3> QED
      BY ONLY <1>5, <2>1, <3>1, <3>2
  <2>3. bytes = SubSeq(data, p + 1, end)
    <3>1. s.offset = p /\ s.limit = u.limit
      BY <1>2 DEF Kept
    <3> HIDE DEF s
    <3> QED
      BY <3>1 DEF Slice, all
  <2> HIDE DEF end, m, most, bytes, s
  <2>4. p + m <= Len(data)
    <3>1. p + m <= p + all
      BY ONLY <1>5, <2>1, <2>2
    <3> QED
      BY ONLY <1>4, <1>5, <2>1, <2>2, <3>1, e <= Len(data)
  <2>5. bytes = SubSeq(data, p + 1, p + m) /\ Len(bytes) = m
    <3>1. CASE m = 0
      <4>1. bytes = <<>>
        BY ONLY <1>4, <1>5, <2>2, <2>3, <3>1
      <4>2. SubSeq(data, p + 1, p + m) = <<>>
        <5>1. p + m \in Nat /\ p + 1 \in Nat /\ p + m < p + 1
          BY ONLY <1>5, <3>1
        <5> QED
          BY ONLY <1>4, <5>1
      <4>3. Len(bytes) = 0
        BY ONLY <4>1
      <4> QED
        BY ONLY <3>1, <4>1, <4>2, <4>3
    <3>2. CASE m # 0
      <4>1. bytes = SubSeq(data, p + 1, p + m)
        BY <2>2, <2>3, <3>2
      <4>2. ((p + m) - (p + 1)) + 1 = m
        BY ONLY <1>5, <2>2
      <4>3. Len(SubSeq(data, p + 1, p + m)) = m
        BY ONLY <1>4, <1>5, <2>2, <2>4, <3>2, <4>2
      <4> QED
        BY ONLY <4>1, <4>3
    <3> QED
      BY <3>1, <3>2
  <2>6. /\ most \in Nat /\ most <= count /\ (m = all => most = count)
        /\ \A i \in 1..most : /\ n * (i - 1) \in Nat /\ n * (i - 1) + n <= m
                              /\ (i - 1) * n + 1 = n * (i - 1) + 1 /\ i * n = n * (i - 1) + n
    <3>1. m <= n * count
      BY <2>2 DEF all
    <3> QED
      BY ONLY <1>1, <2>2, <3>1, n \in Alignments, WholeItems DEF most, all
  <2>7. ASSUME NEW i \in 1..most
        PROVE  Decoded(SubSeq(bytes, (i - 1) * n + 1, i * n), Order(kind)) = vs[i]
    <3> DEFINE a == n * (i - 1)
               q == p + a
    <3>1. a \in Nat /\ a + n <= m /\ (i - 1) * n + 1 = a + 1 /\ i * n = a + n
      BY <2>6
    <3>2. q \in Nat /\ i \in 1..count
      BY ONLY <1>1, <1>5, <2>6, <3>1, i \in 1..most
    <3>3. Holds(data, q, Encoded(vs[i], n, Order(kind)))
      BY <1>3, <1>7, <3>2
    <3>4. vs[i] \in Seq(Nat)
      <4>1. i \in 1..Len(vs)
        BY <3>2 DEF count
      <4> QED
        BY ONLY <4>1, vs \in Seq(Seq(Nat))
    <3> HIDE DEF a
    <3>5. SubSeq(bytes, a + 1, a + n) = SubSeq(data, q + 1, q + n)
      <4>1. LET part == SubSeq(data, p + 1, p + m)
            IN  SubSeq(part, a + 1, a + n) = SubSeq(data, (p + a) + 1, (p + a) + n)
        BY ONLY <1>1, <1>4, <1>5, <2>2, <2>4, <3>1, PartOfPart
      <4> QED
        BY <2>5, <4>1
    <3> HIDE DEF q
    <3>6. Decoded(SubSeq(data, q + 1, q + n), Order(kind)) = vs[i]
      BY ONLY <1>4, <3>2, <3>3, <3>4, n \in Alignments, OrderOf, DecodedHeld
    <3> QED
      BY ONLY <3>1, <3>5, <3>6
  <2>8. ASSUME t.error = "" PROVE IsPrefix(t.got, vs) /\ (most = count => t.got = vs)
    <3>1. t.got = [i \in 1..most |-> vs[i]]
      <4>1. t.got = [i \in 1..most |-> Decoded(SubSeq(bytes, (i - 1) * n + 1, i * n), Order(kind))]
        BY <1>2, <1>7, <2>5, <2>8 DEF most
      <4> QED
        BY <2>7, <4>1
    <3> DEFINE got == t.got
    <3>2. \A i \in 1..most : vs[i] \in Seq(Nat)
      <4>1. \A i \in 1..most : i \in 1..Len(vs)
        BY ONLY <1>1, <2>6 DEF count
      <4> QED
        BY ONLY <4>1, vs \in Seq(Seq(Nat))
    <3>3. got = [i \in 1..most |-> vs[i]]
      BY <3>1
    <3> HIDE DEF got
    <3> DEFINE S == Seq(Nat)
    <3>4. vs \in Seq(S) /\ \A i \in 1..most : vs[i] \in S
      BY <3>2
    <3> HIDE DEF S
    <3>5. got \in Seq(S) /\ Len(got) = most /\ \A i \in 1..most : got[i] = vs[i]
      BY ONLY <2>6, <3>3, <3>4
    <3>6. Len(got) <= Len(vs) /\ \A i \in 1..Len(got) : got[i] = vs[i]
      <4>1. most <= Len(vs)
        BY <2>6 DEF count
      <4> QED
        BY ONLY <3>5, <4>1
    <3>7. IsPrefix(got, vs) /\ (Len(got) = Len(vs) => got = vs)
      BY ONLY <3>4, <3>5, <3>6, Beginning
    <3> QED
      BY <3>5, <3>7 DEF got, count
  <2>9. t.error = "" => t.offset = e
    BY <1>2, <1>3, <1>7
  <2>10. e <= u.limit => t.error = "" /\ most = count
    <3>1. e <= u.limit => ~(Len(bytes) < n * count)
      <4>1. e <= u.limit => Len(bytes) = all
        BY ONLY <2>2, <2>5
      <4>2. ~(all < all)
        BY ONLY <2>1
      <4> QED
        BY <4>1, <4>2 DEF all
    <3>2. e <= u.limit => most = count
      BY ONLY <2>2, <2>6
    <3> QED
      BY <1>2, <1>7, <3>1, <3>2
  <2> QED
    BY <1>2, <2>8, <2>9, <2>10 DEF t, count
<1> QED
  BY <1>6, <1>7

LEMMA ArrayWhole ==
  ASSUME RoomInv, NEW r, Reader(r, Len(data)), r.error = "", NEW c \in Calls, NEW s \in Nat,
         c.op = "array", Laid(kind, data, s, r.origin, c, <<>>), Before(r.offset, s, r.origin, c)
  PROVE  Whole(r, ReadCall(r, c), c)
<1> DEFINE n == c.width
           o == r.origin
           vs == c.values
           count == Len(vs)
<1>1. /\ n \in Alignments /\ c.length \in BOOLEAN /\ vs \in Seq(Seq(Nat)) /\ count \in Nat
      /\ c.end \in Nat
  <2>1. c.op = "array" /\ c.op \in {"number", "array"} /\ c.op \in {"text", "array"}
    OBVIOUS
  <2> QED
    BY ONLY <2>1, c \in Calls, CallTypes
<1>2. PICK q \in Nat : /\ LengthAt(kind, data, s, o, c.length, count, q)
                       /\ ItemsAt(kind, data, q, o, n, vs, count, c.end)
  <2>1. PICK q \in Nat, m \in 0..count :
          /\ LengthAt(kind, data, s, o, c.length, count, q)
          /\ ItemsAt(kind, data, q, o, n, vs, m, c.end)
          /\ m + Len(<<>>) = count
    BY DEF Laid, ArrayAt
  <2>2. m = count
    <3>1. Len(<<>>) = 0
      OBVIOUS
    <3>2. m \in Nat
      BY ONLY <1>1, m \in 0..count
    <3> QED
      BY ONLY <1>1, <2>1, <3>1, <3>2
  <2> QED
    BY <2>1, <2>2
<1>3. Expected(c) = vs /\ ~MovesOrigin(kind, c) /\ c.end <= Len(data)
  BY DEF Expected, MovesOrigin, Laid
<1>4. r.limit \in Nat
  <2>1. r.limit \in 4..Len(data) /\ Len(data) \in Nat
    BY ReaderFields, WriterFields
  <2> QED
    BY ONLY <2>1
<1>5. q <= c.end
  <2>1. UnitOf(kind, n) \in Alignments /\ o \in Nat
    BY <1>1, UnitType, ReaderFields
  <2> DEFINE p == Place(q, o, UnitOf(kind, n))
  <2>2. q <= p /\ p \in Nat /\ n \in Nat
    BY <1>1, <2>1, PlaceNat, WidthNat
  <2>3. c.end = q \/ c.end = p + n * count
    BY <1>2 DEF ItemsAt
  <2> HIDE DEF p, n, count
  <2>4. n * count \in Nat
    BY ONLY <1>1, <2>2
  <2> QED
    BY ONLY <2>2, <2>3, <2>4, q \in Nat
<1> HIDE DEF n, vs, count
\* Behind the length, if there is one, the items are read from u on.
<1>6. ASSUME NEW u, Reader(u, Len(data)), Kept(r, u), u.error = "", u.offset = q
      PROVE  Whole(r, ReadArray(u, n, count), c)
  <2> DEFINE t == ReadArray(u, n, count)
  <2>1. u.limit = r.limit /\ u.origin = o
    BY <1>6 DEF Kept
  <2>2. /\ Kept(u, t)
        /\ t.error = "" => t.offset = c.end /\ IsPrefix(t.got, vs)
        /\ c.end <= u.limit => t.error = "" /\ t.got = vs
    <3>1. /\ Reader(u, Len(data)) /\ u.error = "" /\ c.end <= Len(data)
          /\ ItemsAt(kind, data, u.offset, u.origin, n, vs, count, c.end)
      BY <1>2, <1>3, <1>6, <2>1
    <3> QED
      BY ONLY <1>1, <3>1, RoomInv, ItemsBack DEF count
  <2> HIDE DEF t
  <2>3. t.origin = r.origin
    BY <2>1, <2>2 DEF Kept
  <2> QED
    BY <1>3, <2>1, <2>2, <2>3 DEF Whole, t
<1>7. CASE c.length
  <2> DEFINE u == ReadLength(r)
  <2>1. NumberAt(kind, data, s, o, 4, Order(kind), <<count>>, q)
    BY <1>2, <1>7 DEF LengthAt
  <2>2. Place(r.offset, o, 4) = Place(s, o, 4)
    BY BeforeFour
  <2>3. /\ Reader(u, Len(data)) /\ Kept(r, u)
        /\ u.error = "" => u.offset = q /\ q <= r.limit /\ u.got[1][1] = count
        /\ q <= r.limit => u.error = ""
    BY <1>1, <2>1, <2>2, LengthBack
  <2> HIDE DEF u
  <2>4. ReadCall(r, c) = IF u.error # "" THEN u ELSE ReadArray(u, n, u.got[1][1])
    BY <1>7 DEF ReadCall, ReadSequence, u, n
  <2>5. c.end <= r.limit => q <= r.limit
    BY ONLY <1>1, <1>4, <1>5, q \in Nat
  <2>6. CASE u.error # ""
    <3>1. ReadCall(r, c) = u /\ ~(c.end <= r.limit)
      BY <2>3, <2>4, <2>5, <2>6
    <3> QED
      BY <2>6, <3>1 DEF Whole
  <2>7. CASE u.error = ""
    <3>1. ReadCall(r, c) = ReadArray(u, n, count)
      BY <2>3, <2>4, <2>7
    <3> QED
      BY <1>6, <2>3, <2>7, <3>1
  <2> QED
    BY <2>6, <2>7
<1>8. CASE ~c.length
  <2>1. q = s
    BY <1>2, <1>8 DEF LengthAt
  <2>2. r.offset = s
    BY <1>8 DEF Before, Realigns
  <2>3. ReadCall(r, c) = ReadArray(r, n, count)
    BY <1>8 DEF ReadCall, n, count, vs
  <2>4. Kept(r, r)
    BY DEF Kept
  <2> QED
    BY <1>6, <2>1, <2>2, <2>3, <2>4
<1> QED
  BY <1>1, <1>7, <1>8

LEMMA AlignWhole ==
  ASSUME RoomInv, NEW r, Reader(r, Len(data)), r.error = "", NEW c \in Calls, NEW s \in Nat,
         c.op = "align", Laid(kind, data, s, r.origin, c, <<>>), Before(r.offset, s, r.origin, c)
  PROVE  Whole(r, ReadCall(r, c), c)
<1> DEFINE u == IF c.width = 0 THEN r ELSE ReadAligned(r, c.width)
           t == Returns(u, <<>>)
<1>1. c.values = <<>> /\ c.end = Place(s, r.origin, c.width)
  BY DEF Laid
<1>2. r.offset = s /\ ~MovesOrigin(kind, c) /\ Expected(c) = <<>>
  BY <1>1 DEF Before, Realigns, MovesOrigin, Expected
<1>3. c.width \in {0} \cup Alignments
  <2>1. c.op = "align"
    OBVIOUS
  <2> QED
    BY ONLY <2>1, c \in Calls, CallTypes
<1>4. Reader(u, Len(data)) /\ Kept(r, u) /\ u.offset = c.end
  <2>1. CASE c.width = 0
    BY <1>1, <1>2, <2>1 DEF Place, Kept
  <2>2. CASE c.width # 0
    <3>1. c.width \in Alignments
      BY <1>3, <2>2
    <3>2. LET x == ReadAligned(r, c.width)
          IN  Reader(x, Len(data)) /\ Kept(r, x) /\ x.offset = Place(r.offset, r.origin, c.width)
      BY ONLY <3>1, Reader(r, Len(data)), AlignedKeeps
    <3> QED
      BY <1>1, <1>2, <2>2, <3>2
  <2> QED
    BY <2>1, <2>2
<1> HIDE DEF u
<1>5. /\ Kept(u, t) /\ t.error = "" /\ t.got = <<>> /\ t.offset = c.end
  BY ONLY <1>4, ReturnsKeeps
<1>6. ReadCall(r, c) = t
  BY DEF ReadCall, u
<1>7. t.origin = r.origin
  BY <1>4, <1>5 DEF Kept
<1>8. IsPrefix(<<>>, <<>>)
  BY NoValues
<1> HIDE DEF t
<1> QED
  BY <1>2, <1>5, <1>6, <1>7, <1>8 DEF Whole

LEMMA OriginWhole ==
  ASSUME RoomInv, NEW r, Reader(r, Len(data)), r.error = "", NEW c \in Calls, NEW s \in Nat,
         c.op = "origin", Laid(kind, data, s, r.origin, c, <<>>), Before(r.offset, s, r.origin, c)
  PROVE  Whole(r, ReadCall(r, c), c)
<1> DEFINE u == [r EXCEPT !.origin = r.offset]
           t == Returns(u, <<>>)
<1>1. c.values = <<>> /\ c.end = s
  BY DEF Laid
<1>2. r.offset = s /\ MovesOrigin(kind, c) /\ Expected(c) = <<>>
  BY <1>1 DEF Before, Realigns, MovesOrigin, Expected
<1>3. Reader(u, Len(data)) /\ u.origin = r.offset /\ u.offset = r.offset
  BY DEF Reader
<1> HIDE DEF u
<1>4. /\ Kept(u, t) /\ t.error = "" /\ t.got = <<>> /\ t.offset = u.offset
  BY ONLY <1>3, ReturnsKeeps
<1>5. ReadCall(r, c) = t
  BY DEF ReadCall, u
<1>6. t.origin = c.end /\ t.offset = c.end
  BY <1>1, <1>2, <1>3, <1>4 DEF Kept
<1>7. IsPrefix(<<>>, <<>>)
  BY NoValues
<1> HIDE DEF t
<1> QED
  BY <1>2, <1>4, <1>5, <1>6, <1>7 DEF Whole

\* A number behind another that was read, or was not.
LEMMA NumberOn ==
  ASSUME RoomInv, NEW u, Reader(u, Len(data)), NEW n \in {2, 4}, NEW v \in Seq(Nat),
         NEW q \in Nat, NEW e \in Nat, NumberAt(kind, data, q, u.origin, n, Order(kind), v, e),
         u.error = "" => u.offset = q
  PROVE  LET t == ReadNumber(u, n, Order(kind))
         IN  /\ Reader(t, Len(data)) /\ Kept(u, t)
             /\ t.error = "" => u.error = "" /\ t.offset = e /\ e <= u.limit /\ t.got = <<v>>
             /\ u.error = "" /\ e <= u.limit => t.error = ""
<1> DEFINE t == ReadNumber(u, n, Order(kind))
<1>1. n \in Alignments /\ Order(kind) \in Orders
  BY OrderOf DEF Alignments
<1>2. Reader(t, Len(data)) /\ Kept(u, t) /\ (u.error # "" => t = u)
  BY ONLY <1>1, Reader(u, Len(data)), NumberReadKeeps
<1>3. ASSUME u.error = ""
      PROVE  /\ t.error = "" => t.offset = e /\ e <= u.limit /\ t.got = <<v>>
             /\ e <= u.limit => t.error = ""
  <2>1. Place(u.offset, u.origin, UnitOf(kind, n)) = Place(q, u.origin, UnitOf(kind, n))
    BY <1>3
  <2> QED
    BY <1>1, <1>3, <2>1, NumberBack
<1> HIDE DEF t
<1> QED
  BY <1>2, <1>3 DEF t

LEMMA NumberSpan ==
  ASSUME RoomInv, NEW n \in Alignments, NEW v \in Seq(Nat), NEW q \in Nat, NEW o \in Nat, NEW e,
         NumberAt(kind, data, q, o, n, Order(kind), v, e)
  PROVE  e \in Nat /\ q <= e /\ e <= Len(data)
<1>1. data \in Seq(Byte) /\ Order(kind) \in Orders
  BY WriterFields, OrderOf
<1>2. Grows(data, data)
  BY <1>1, GrowsSelf
<1> QED
  BY <1>1, <1>2, NumberGrows

\* The first two bytes of a header of XCDR1.
LEMMA HeadBack ==
  ASSUME RoomInv, NEW r, Reader(r, Len(data)), r.error = "", NEW s \in Nat, NEW q \in Nat,
         NEW v \in Seq(Nat), Place(r.offset, r.origin, 4) = Place(s, r.origin, 4),
         NumberAt(kind, data, Place(s, r.origin, 4), r.origin, 2, Order(kind), v, q)
  PROVE  LET t == ReadUint16(ReadAligned(r, 4))
         IN  /\ Reader(t, Len(data)) /\ Kept(r, t)
             /\ t.error = "" => t.offset = q /\ q <= r.limit /\ t.got = <<v>>
             /\ q <= r.limit => t.error = ""
<1> DEFINE u == ReadAligned(r, 4)
           t == ReadNumber(u, 2, Order(kind))
           p == Place(s, r.origin, 4)
<1>1. 4 \in Alignments /\ 2 \in {2, 4}
  BY DEF Alignments
<1>2. /\ Reader(u, Len(data)) /\ Kept(r, u) /\ u.error = r.error
      /\ u.offset = Place(r.offset, r.origin, 4)
  BY ONLY <1>1, Reader(r, Len(data)), AlignedKeeps
<1>3. u.limit = r.limit /\ u.origin = r.origin /\ u.error = "" /\ u.offset = p
  BY <1>2 DEF Kept
<1>4. p \in Nat
  <2>1. r.origin \in Nat
    BY ReaderFields
  <2> QED
    BY <1>1, <2>1, PlaceNat
<1> HIDE DEF u, p
<1>5. /\ Reader(t, Len(data)) /\ Kept(u, t)
      /\ t.error = "" => u.error = "" /\ t.offset = q /\ q <= u.limit /\ t.got = <<v>>
      /\ u.error = "" /\ q <= u.limit => t.error = ""
  <2>1. NumberAt(kind, data, p, u.origin, 2, Order(kind), v, q)
    BY <1>3 DEF p
  <2> QED
    BY ONLY <1>1, <1>2, <1>3, <1>4, <2>1, RoomInv, v \in Seq(Nat), q \in Nat, NumberOn
<1> HIDE DEF t
<1>6. ReadUint16(ReadAligned(r, 4)) = t
  BY DEF ReadUint16, u, t
<1>7. Kept(r, t)
  BY <1>3, <1>5 DEF Kept
<1> QED
  BY <1>3, <1>5, <1>6, <1>7

\* Behind half of a sentinel an alignment comes to where it would behind all of it.
LEMMA HalfSentinel ==
  ASSUME NEW s \in Nat, NEW o \in Nat, NEW q \in Nat, NEW e \in Nat, NEW v, NEW w, NEW d,
         NumberAt(kind, d, Place(s, o, 4), o, 2, Order(kind), v, q),
         NumberAt(kind, d, q, o, 2, Order(kind), w, e)
  PROVE  e = q + 2 /\ \A n \in {4, 8} : Place(q, o, n) = Place(e, o, n)
<1> DEFINE p == Place(s, o, 4)
<1>1. p \in Nat
  <2>1. 4 \in Alignments
    BY DEF Alignments
  <2> QED
    BY <2>1, PlaceNat
<1>2. (p - o) % 4 = 0
  BY DEF Place, Padding
<1>3. q = Place(p, o, 2) + 2 /\ e = Place(q, o, 2) + 2
  BY DEF NumberAt, UnitOf
<1> HIDE DEF p
<1>4. Place(p, o, 2) = p
  BY ONLY <1>1, <1>2, o \in Nat DEF Place, Padding
<1>5. q = p + 2
  BY ONLY <1>3, <1>4
<1>6. Place(p + 2, o, 2) = p + 2
  BY ONLY <1>1, <1>2, o \in Nat DEF Place, Padding
<1>7. e = p + 4
  BY ONLY <1>1, <1>3, <1>5, <1>6
<1>8. Place(p + 2, o, 4) = Place(p + 4, o, 4)
  BY ONLY <1>1, <1>2, o \in Nat DEF Place, Padding
<1>9. Place(p + 2, o, 8) = Place(p + 4, o, 8)
  BY ONLY <1>1, <1>2, o \in Nat DEF Place, Padding
<1>10. e = q + 2
  BY ONLY <1>1, <1>5, <1>7
<1> QED
  BY <1>5, <1>7, <1>8, <1>9, <1>10

LEMMA Pids == SentinelPid \in Nat /\ ExtendedPid \in Nat /\ SentinelPid # ExtendedPid /\ 0 \in Nat
BY DEF SentinelPid, ExtendedPid

LEMMA Header ==
  /\ \A a, b \in Nat : <<a, b>> \in Seq(Nat) /\ <<a, b>>[1] = a /\ <<a, b>>[2] = b /\ Len(<<a, b>>) = 2
  /\ \A a, b, c \in Nat :
       /\ <<a, b, c>> \in Seq(Nat) /\ Len(<<a, b, c>>) = 3
       /\ <<a, b, c>>[1] = a /\ <<a, b, c>>[2] = b /\ <<a, b, c>>[3] = c
  /\ \A v \in Seq(Nat) : <<v>> \in Seq(Seq(Nat)) /\ <<v>>[1] = v /\ IsPrefix(<<v>>, <<v>>)
<1>1. \A a, b \in Nat : <<a, b>> \in Seq(Nat) /\ <<a, b>>[1] = a /\ <<a, b>>[2] = b /\ Len(<<a, b>>) = 2
  OBVIOUS
<1>2. \A a, b, c \in Nat :
       /\ <<a, b, c>> \in Seq(Nat) /\ Len(<<a, b, c>>) = 3
       /\ <<a, b, c>>[1] = a /\ <<a, b, c>>[2] = b /\ <<a, b, c>>[3] = c
  OBVIOUS
<1>3. ASSUME NEW v \in Seq(Nat) PROVE <<v>> \in Seq(Seq(Nat)) /\ <<v>>[1] = v /\ IsPrefix(<<v>>, <<v>>)
  <2>1. <<v>> \in Seq(Seq(Nat)) /\ <<v>>[1] = v
    OBVIOUS
  <2> QED
    BY <2>1, PrefixSelf
<1> QED
  BY <1>1, <1>2, <1>3

\* A sentinel of XCDR1 as its writer left it.
LEMMA SentinelParts ==
  ASSUME RoomInv, NEW r, Reader(r, Len(data)), ~Cdr2(kind), NEW c \in Calls, NEW s \in Nat,
         c.op = "sentinel", Laid(kind, data, s, r.origin, c, <<>>)
  PROVE  \E q \in Nat :
           /\ NumberAt(kind, data, Place(s, r.origin, 4), r.origin, 2, Order(kind), <<0, SentinelPid>>, q)
           /\ NumberAt(kind, data, q, r.origin, 2, Order(kind), <<0>>, c.end)
           /\ q <= c.end /\ c.end \in Nat /\ c.end = q + 2
           /\ \A n \in {4, 8} : Place(q, r.origin, n) = Place(c.end, r.origin, n)
<1> DEFINE o == r.origin
<1>1. ShortAt(kind, data, s, o, 0, SentinelPid, 0, c.end)
  BY DEF Laid, SentinelAt
<1>2. PICK q \in Nat :
        /\ NumberAt(kind, data, Place(s, o, 4), o, 2, Order(kind), <<0, SentinelPid>>, q)
        /\ NumberAt(kind, data, q, o, 2, Order(kind), <<0>>, c.end)
  BY <1>1 DEF ShortAt
<1>3. o \in Nat
  BY ReaderFields
<1>4. q <= c.end /\ c.end \in Nat
  <2>1. 2 \in Alignments /\ <<0>> \in Seq(Nat)
    BY OneValue DEF Alignments
  <2> QED
    BY ONLY <1>2, <1>3, <2>1, RoomInv, NumberSpan
<1>5. c.end = q + 2 /\ \A n \in {4, 8} : Place(q, o, n) = Place(c.end, o, n)
  BY ONLY <1>2, <1>3, <1>4, s \in Nat, HalfSentinel
<1> QED
  BY <1>2, <1>4, <1>5

LEMMA SentinelWhole ==
  ASSUME RoomInv, NEW r, Reader(r, Len(data)), r.error = "", NEW c \in Calls, NEW s \in Nat,
         c.op = "sentinel", Laid(kind, data, s, r.origin, c, <<>>), Before(r.offset, s, r.origin, c)
  PROVE  Whole(r, ReadSentinel(r), c)
<1>1. Expected(c) = <<>> /\ ~MovesOrigin(kind, c)
  BY DEF Laid, Expected, MovesOrigin
<1>2. CASE Cdr2(kind)
  <2> DEFINE t == Returns(r, <<>>)
  <2>1. ReadSentinel(r) = t
    BY <1>2 DEF ReadSentinel
  <2>2. c.end = s /\ r.offset = s
    BY <1>2 DEF Laid, SentinelAt, Before
  <2>3. /\ Kept(r, t) /\ t.error = "" /\ t.got = <<>> /\ t.offset = r.offset
    BY ONLY Reader(r, Len(data)), ReturnsKeeps
  <2> HIDE DEF t
  <2> QED
    BY <1>1, <2>1, <2>2, <2>3, NoValues DEF Whole, Kept
<1>3. CASE ~Cdr2(kind)
  <2> DEFINE head == ReadUint16(ReadAligned(r, 4))
             u == ReadUint16(head)
             v == <<0, SentinelPid>>
  <2>1. PICK q \in Nat :
          /\ NumberAt(kind, data, Place(s, r.origin, 4), r.origin, 2, Order(kind), v, q)
          /\ NumberAt(kind, data, q, r.origin, 2, Order(kind), <<0>>, c.end)
          /\ q <= c.end /\ c.end \in Nat
    BY <1>3, SentinelParts
  <2>2. v \in Seq(Nat) /\ <<0>> \in Seq(Nat)
    <3>1. SentinelPid \in Nat /\ 0 \in Nat
      BY Pids
    <3> QED
      BY ONLY <3>1, Header, OneValue
  <2> HIDE DEF v
  <2>3. /\ Reader(head, Len(data)) /\ Kept(r, head)
        /\ head.error = "" => head.offset = q /\ q <= r.limit /\ head.got = <<v>>
        /\ q <= r.limit => head.error = ""
    <3>1. Place(r.offset, r.origin, 4) = Place(s, r.origin, 4)
      BY BeforeFour
    <3>2. NumberAt(kind, data, Place(s, r.origin, 4), r.origin, 2, Order(kind), v, q)
      BY <2>1
    <3> QED
      BY ONLY <2>2, <3>1, <3>2, RoomInv, Reader(r, Len(data)), r.error = "", s \in Nat, q \in Nat,
         HeadBack
  <2> HIDE DEF head
  <2>4. head.origin = r.origin /\ head.limit = r.limit
    BY <2>3 DEF Kept
  <2>5. /\ Reader(u, Len(data)) /\ Kept(head, u)
        /\ u.error = "" => head.error = "" /\ u.offset = c.end
        /\ head.error = "" /\ c.end <= head.limit => u.error = ""
    <3>1. NumberAt(kind, data, q, head.origin, 2, Order(kind), <<0>>, c.end) /\ 2 \in {2, 4}
      BY <2>1, <2>4
    <3>2. head.error = "" => head.offset = q
      BY <2>3
    <3> DEFINE w == <<0>>
               e == c.end
               x == ReadNumber(head, 2, Order(kind))
    <3>3. Reader(head, Len(data)) /\ w \in Seq(Nat) /\ e \in Nat
      BY <2>1, <2>2, <2>3
    <3>4. NumberAt(kind, data, q, head.origin, 2, Order(kind), w, e) /\ 2 \in {2, 4}
      BY <3>1
    <3> HIDE DEF w, e
    <3>5. /\ Reader(x, Len(data)) /\ Kept(head, x)
          /\ x.error = "" => head.error = "" /\ x.offset = e /\ e <= head.limit /\ x.got = <<w>>
          /\ head.error = "" /\ e <= head.limit => x.error = ""
      BY ONLY <3>2, <3>3, <3>4, RoomInv, q \in Nat, NumberOn
    <3> HIDE DEF x
    <3> QED
      BY <3>5 DEF ReadUint16, x, e
  <2> HIDE DEF u
  <2>6. ReadSentinel(r) = IF head.error # "" THEN head
                          ELSE IF head.got # <<v>> THEN Fails(head, "ValueError")
                          ELSE IF u.error # "" THEN u ELSE Returns(u, <<>>)
    BY <1>3 DEF ReadSentinel, head, u, v
  <2>7. c.end <= r.limit => q <= r.limit
    <3>1. r.limit \in 4..Len(data) /\ Len(data) \in Nat
      BY ReaderFields, WriterFields
    <3> QED
      BY ONLY <2>1, <3>1, q \in Nat
  <2>8. CASE u.error = ""
    <3> DEFINE t == Returns(u, <<>>)
    <3>1. ReadSentinel(r) = t
      BY <2>3, <2>5, <2>6, <2>8
    <3>2. Kept(u, t) /\ t.error = "" /\ t.got = <<>> /\ t.offset = u.offset
      BY ONLY <2>5, ReturnsKeeps
    <3> HIDE DEF t
    <3> QED
      BY <1>1, <2>4, <2>5, <2>8, <3>1, <3>2, NoValues DEF Whole, Kept
  <2>9. CASE u.error # ""
    <3>1. ~(c.end <= r.limit)
      BY <2>3, <2>4, <2>5, <2>7, <2>9
    <3>2. ReadSentinel(r) \in {head, u} /\ ReadSentinel(r).error # ""
      BY <2>3, <2>6, <2>9
    <3> QED
      BY <3>1, <3>2 DEF Whole
  <2> QED
    BY <2>8, <2>9
<1> QED
  BY <1>2, <1>3

\* em_header stops behind two of the four bytes of a sentinel.
LEMMA SentinelHalf ==
  ASSUME RoomInv, NEW r, Reader(r, Len(data)), r.error = "", NEW c \in Calls, NEW s \in Nat,
         c.op = "sentinel", Laid(kind, data, s, r.origin, c, <<>>), Before(r.offset, s, r.origin, c),
         ~Cdr2(kind)
  PROVE  LET t == ReadMember(r)
         IN  /\ t.error = "" =>
                  /\ t.origin = r.origin /\ t.offset = c.end - 2 /\ t.got = <<<<SentinelPid, 0>>>>
                  /\ \A n \in {4, 8} : Place(t.offset, r.origin, n) = Place(c.end, r.origin, n)
             /\ c.end <= r.limit => t.error = ""
<1> DEFINE head == ReadUint16(ReadAligned(r, 4))
           v == <<0, SentinelPid>>
           t == Returns(head, <<<<SentinelPid, 0>>>>)
<1>1. PICK q \in Nat :
        /\ NumberAt(kind, data, Place(s, r.origin, 4), r.origin, 2, Order(kind), v, q)
        /\ q <= c.end /\ c.end \in Nat /\ c.end = q + 2
        /\ \A n \in {4, 8} : Place(q, r.origin, n) = Place(c.end, r.origin, n)
  BY SentinelParts
<1>2. v \in Seq(Nat) /\ v[2] = SentinelPid /\ Len(v) = 2 /\ <<v>>[1] = v
  <2>1. SentinelPid \in Nat /\ 0 \in Nat
    BY Pids
  <2> QED
    BY ONLY <2>1, Header
<1> HIDE DEF v
<1>3. /\ Reader(head, Len(data)) /\ Kept(r, head)
      /\ head.error = "" => head.offset = q /\ q <= r.limit /\ head.got = <<v>>
      /\ q <= r.limit => head.error = ""
  <2>1. Place(r.offset, r.origin, 4) = Place(s, r.origin, 4)
    BY BeforeFour
  <2>2. NumberAt(kind, data, Place(s, r.origin, 4), r.origin, 2, Order(kind), v, q)
    BY <1>1
  <2> QED
    BY ONLY <1>2, <2>1, <2>2, RoomInv, Reader(r, Len(data)), r.error = "", s \in Nat, q \in Nat,
       HeadBack
<1>4. ReadMember(r) = ReadHeaderV1(r)
  BY DEF ReadMember
<1> HIDE DEF head
<1>5. head.error # "" => ReadMember(r) = head
  BY <1>4 DEF ReadHeaderV1, head
<1>6. ASSUME head.error = "" PROVE ReadMember(r) = t
  <2>1. head.got[1] = v
    BY <1>2, <1>3, <1>6
  <2>2. Len(head.got[1]) = 2 /\ head.got[1][2] = SentinelPid
    BY <1>2, <2>1
  <2> QED
    BY <1>4, <1>6, <2>2 DEF ReadHeaderV1, head
<1>7. Kept(head, t) /\ t.error = "" /\ t.got = <<<<SentinelPid, 0>>>> /\ t.offset = head.offset
  BY ONLY <1>3, ReturnsKeeps
<1> HIDE DEF t
<1>8. c.end <= r.limit => q <= r.limit
  <2>1. r.limit \in 4..Len(data) /\ Len(data) \in Nat
    BY ReaderFields, WriterFields
  <2> QED
    BY ONLY <1>1, <2>1, q \in Nat
<1>9. q = c.end - 2
  BY ONLY <1>1, q \in Nat
<1>10. CASE head.error # ""
  BY <1>3, <1>5, <1>8, <1>10
<1>11. CASE head.error = ""
  <2>1. t.origin = r.origin /\ t.offset = q
    BY <1>3, <1>7, <1>11 DEF Kept
  <2> QED
    BY <1>1, <1>6, <1>7, <1>9, <1>11, <2>1
<1> QED
  BY <1>10, <1>11

\* The same of the two words of headers.
LEMMA WordOn ==
  ASSUME RoomInv, NEW u, Reader(u, Len(data)), NEW v \in Seq(Nat), NEW q \in Nat, NEW e \in Nat,
         u.error = "" => u.offset = q
  PROVE  /\ NumberAt(kind, data, q, u.origin, 4, Order(kind), v, e) =>
              LET t == ReadUint32(u)
              IN  /\ Reader(t, Len(data)) /\ Kept(u, t)
                  /\ t.error = "" => u.error = "" /\ t.offset = e /\ e <= u.limit /\ t.got = <<v>>
                  /\ u.error = "" /\ e <= u.limit => t.error = ""
         /\ NumberAt(kind, data, q, u.origin, 2, Order(kind), v, e) =>
              LET t == ReadUint16(u)
              IN  /\ Reader(t, Len(data)) /\ Kept(u, t)
                  /\ t.error = "" => u.error = "" /\ t.offset = e /\ e <= u.limit /\ t.got = <<v>>
                  /\ u.error = "" /\ e <= u.limit => t.error = ""
<1>1. ASSUME NEW n \in {2, 4}, NumberAt(kind, data, q, u.origin, n, Order(kind), v, e)
      PROVE  LET t == ReadNumber(u, n, Order(kind))
             IN  /\ Reader(t, Len(data)) /\ Kept(u, t)
                 /\ t.error = "" => u.error = "" /\ t.offset = e /\ e <= u.limit /\ t.got = <<v>>
                 /\ u.error = "" /\ e <= u.limit => t.error = ""
  BY <1>1, NumberOn
<1>2. 2 \in {2, 4} /\ 4 \in {2, 4}
  OBVIOUS
<1> QED
  BY <1>1, <1>2 DEF ReadUint16, ReadUint32

LEMMA ViewNat == ASSUME RoomInv, NEW r, Reader(r, Len(data)) PROVE r.limit \in Nat
<1>1. r.limit \in 4..Len(data) /\ Len(data) \in Nat
  BY ReaderFields, WriterFields
<1> QED
  BY ONLY <1>1

LEMMA ShortBack ==
  ASSUME RoomInv, NEW r, Reader(r, Len(data)), r.error = "", NEW s \in Nat, NEW e \in Nat,
         NEW must \in Nat, NEW id \in Nat, NEW size \in Nat,
         ShortAt(kind, data, s, r.origin, must, id, size, e), ~Extended(id, size),
         Place(r.offset, r.origin, 4) = Place(s, r.origin, 4)
  PROVE  LET t == ReadHeaderV1(r)
         IN  /\ t.error = "" => t.origin = e /\ t.offset = e /\ t.got = <<<<must, id, size>>>>
             /\ e <= r.limit => t.error = ""
<1> DEFINE o == r.origin
           head == ReadUint16(ReadAligned(r, 4))
           last == ReadUint16(head)
           v == <<must, id>>
           w == <<size>>
           t == ReadHeaderV1(r)
<1>1. PICK q \in Nat :
        /\ NumberAt(kind, data, Place(s, o, 4), o, 2, Order(kind), v, q)
        /\ NumberAt(kind, data, q, o, 2, Order(kind), w, e)
  BY DEF ShortAt
<1>2. v \in Seq(Nat) /\ v[1] = must /\ v[2] = id /\ Len(v) = 2 /\ <<v>>[1] = v
  BY ONLY must \in Nat, id \in Nat, Header
<1>3. w \in Seq(Nat) /\ w[1] = size /\ <<w>>[1] = w
  BY ONLY size \in Nat, OneValue
<1>4. id # ExtendedPid /\ id # SentinelPid
  BY ONLY ~Extended(id, size), id \in Nat DEF Extended, ExtendedPid, SentinelPid
<1> HIDE DEF v, w, t
<1>5. /\ Reader(head, Len(data)) /\ Kept(r, head)
      /\ head.error = "" => head.offset = q /\ q <= r.limit /\ head.got = <<v>>
      /\ q <= r.limit => head.error = ""
  <2>1. NumberAt(kind, data, Place(s, r.origin, 4), r.origin, 2, Order(kind), v, q) /\ v \in Seq(Nat)
    BY <1>1, <1>2
  <2> QED
    BY ONLY <2>1, RoomInv, Reader(r, Len(data)), r.error = "", s \in Nat, q \in Nat,
       Place(r.offset, r.origin, 4) = Place(s, r.origin, 4), HeadBack
<1> HIDE DEF head
<1>6. head.origin = o /\ head.limit = r.limit
  BY <1>5 DEF Kept
<1>7. /\ Reader(last, Len(data)) /\ Kept(head, last)
      /\ last.error = "" => head.error = "" /\ last.offset = e /\ e <= head.limit /\ last.got = <<w>>
      /\ head.error = "" /\ e <= head.limit => last.error = ""
  <2>1. NumberAt(kind, data, q, head.origin, 2, Order(kind), w, e) /\ w \in Seq(Nat)
        /\ Reader(head, Len(data)) /\ (head.error = "" => head.offset = q)
    BY <1>1, <1>3, <1>5, <1>6
  <2> QED
    BY ONLY <2>1, RoomInv, q \in Nat, e \in Nat, WordOn
<1> HIDE DEF last
<1>8. q <= e
  <2>1. 2 \in Alignments /\ o \in Nat /\ w \in Seq(Nat)
    BY <1>3, ReaderFields DEF Alignments
  <2> HIDE DEF o
  <2> QED
    BY ONLY <1>1, <2>1, RoomInv, NumberSpan
<1>9. e <= r.limit => q <= r.limit
  BY ONLY <1>8, RoomInv, Reader(r, Len(data)), ViewNat, q \in Nat, e \in Nat
<1>10. CASE head.error # ""
  <2>1. t = head
    BY <1>10 DEF ReadHeaderV1, head, t
  <2> QED
    BY <1>5, <1>9, <1>10, <2>1 DEF t
<1>11. CASE head.error = ""
  <2>1. head.got[1][1] = must /\ head.got[1][2] = id /\ Len(head.got[1]) = 2
    <3>1. head.got[1] = v
      BY <1>2, <1>5, <1>11
    <3> QED
      BY <1>2, <3>1
  <2> DEFINE u == [last EXCEPT !.origin = last.offset]
             got == <<<<must, id, last.got[1][1]>>>>
             x == Returns(u, got)
  <2>2. t = IF last.error # "" THEN last ELSE x
    BY <1>4, <1>11, <2>1 DEF ReadHeaderV1, head, last, t
  <2>3. CASE last.error # ""
    BY <1>6, <1>7, <1>11, <2>2, <2>3 DEF t
  <2>4. CASE last.error = ""
    <3>1. got = <<<<must, id, size>>>>
      <4>1. last.got[1][1] = size
        BY <1>3, <1>7, <2>4
      <4> QED
        BY <4>1
    <3>2. Reader(u, Len(data)) /\ u.origin = e /\ u.offset = e
      BY <1>7, <2>4 DEF Reader
    <3> HIDE DEF u, got
    <3>3. Kept(u, x) /\ x.error = "" /\ x.got = got /\ x.offset = u.offset
      BY ONLY <3>2, ReturnsKeeps
    <3>4. x.origin = e
      BY <3>2, <3>3 DEF Kept
    <3> HIDE DEF x
    <3> QED
      BY <2>2, <2>4, <3>1, <3>2, <3>3, <3>4 DEF t
  <2> QED
    BY <2>3, <2>4
<1> QED
  BY <1>10, <1>11

LEMMA ExtendedBack ==
  ASSUME RoomInv, NEW r, Reader(r, Len(data)), r.error = "", NEW s \in Nat, NEW e \in Nat,
         NEW must \in Nat, NEW id \in Nat, NEW size \in Nat,
         ExtendedAt(kind, data, s, r.origin, must, id, size, e),
         Place(r.offset, r.origin, 4) = Place(s, r.origin, 4)
  PROVE  LET t == ReadHeaderV1(r)
         IN  /\ t.error = "" => t.origin = e /\ t.offset = e /\ t.got = <<<<must, id, size>>>>
             /\ e <= r.limit => t.error = ""
<1> DEFINE o == r.origin
           head == ReadUint16(ReadAligned(r, 4))
           eight == ReadUint16(head)
           long == ReadUint32(eight)
           last == ReadUint32(long)
           v == <<must, ExtendedPid>>
           v8 == <<8>>
           v3 == <<id>>
           w == <<size>>
           t == ReadHeaderV1(r)
<1>1. PICK q1, q2, q3 \in Nat :
        /\ NumberAt(kind, data, Place(s, o, 4), o, 2, Order(kind), v, q1)
        /\ NumberAt(kind, data, q1, o, 2, Order(kind), v8, q2)
        /\ NumberAt(kind, data, q2, o, 4, Order(kind), v3, q3)
        /\ NumberAt(kind, data, q3, o, 4, Order(kind), w, e)
  BY DEF ExtendedAt
<1>2. v \in Seq(Nat) /\ v[1] = must /\ v[2] = ExtendedPid /\ Len(v) = 2 /\ <<v>>[1] = v
  BY ONLY must \in Nat, Pids, Header
<1>3. w \in Seq(Nat) /\ w[1] = size /\ <<w>>[1] = w
  BY ONLY size \in Nat, OneValue
<1>4. v8 \in Seq(Nat) /\ v3 \in Seq(Nat) /\ v3[1] = id /\ <<v3>>[1] = v3
  <2>1. 8 \in Nat
    OBVIOUS
  <2> QED
    BY ONLY <2>1, id \in Nat, OneValue
<1> HIDE DEF v, v8, v3, w, t
<1>5. /\ Reader(head, Len(data)) /\ Kept(r, head)
      /\ head.error = "" => head.offset = q1 /\ q1 <= r.limit /\ head.got = <<v>>
      /\ q1 <= r.limit => head.error = ""
  <2>1. NumberAt(kind, data, Place(s, r.origin, 4), r.origin, 2, Order(kind), v, q1) /\ v \in Seq(Nat)
    BY <1>1, <1>2
  <2> QED
    BY ONLY <2>1, RoomInv, Reader(r, Len(data)), r.error = "", s \in Nat, q1 \in Nat,
       Place(r.offset, r.origin, 4) = Place(s, r.origin, 4), HeadBack
<1> HIDE DEF head
<1>6. head.origin = o /\ head.limit = r.limit
  BY <1>5 DEF Kept
<1>7. /\ Reader(eight, Len(data)) /\ Kept(head, eight)
      /\ eight.error = "" => head.error = "" /\ eight.offset = q2 /\ q2 <= head.limit
                             /\ eight.got = <<v8>>
      /\ head.error = "" /\ q2 <= head.limit => eight.error = ""
  <2>1. NumberAt(kind, data, q1, head.origin, 2, Order(kind), v8, q2) /\ v8 \in Seq(Nat)
        /\ Reader(head, Len(data)) /\ (head.error = "" => head.offset = q1)
    BY <1>1, <1>4, <1>5, <1>6
  <2> QED
    BY ONLY <2>1, RoomInv, q1 \in Nat, q2 \in Nat, WordOn
<1> HIDE DEF eight
<1>8. eight.origin = o /\ eight.limit = r.limit
  BY <1>6, <1>7 DEF Kept
<1>9. /\ Reader(long, Len(data)) /\ Kept(eight, long)
      /\ long.error = "" => eight.error = "" /\ long.offset = q3 /\ q3 <= eight.limit
                            /\ long.got = <<v3>>
      /\ eight.error = "" /\ q3 <= eight.limit => long.error = ""
  <2>1. NumberAt(kind, data, q2, eight.origin, 4, Order(kind), v3, q3) /\ v3 \in Seq(Nat)
        /\ Reader(eight, Len(data)) /\ (eight.error = "" => eight.offset = q2)
    BY <1>1, <1>4, <1>7, <1>8
  <2> QED
    BY ONLY <2>1, RoomInv, q2 \in Nat, q3 \in Nat, WordOn
<1> HIDE DEF long
<1>10. long.origin = o /\ long.limit = r.limit
  BY <1>8, <1>9 DEF Kept
<1>11. /\ Reader(last, Len(data)) /\ Kept(long, last)
       /\ last.error = "" => long.error = "" /\ last.offset = e /\ e <= long.limit
                             /\ last.got = <<w>>
       /\ long.error = "" /\ e <= long.limit => last.error = ""
  <2>1. NumberAt(kind, data, q3, long.origin, 4, Order(kind), w, e) /\ w \in Seq(Nat)
        /\ Reader(long, Len(data)) /\ (long.error = "" => long.offset = q3)
    BY <1>1, <1>3, <1>9, <1>10
  <2> QED
    BY ONLY <2>1, RoomInv, q3 \in Nat, e \in Nat, WordOn
<1> HIDE DEF last
<1>12. q1 <= q2 /\ q2 <= q3 /\ q3 <= e
  <2>1. 2 \in Alignments /\ 4 \in Alignments /\ o \in Nat
    BY ReaderFields DEF Alignments
  <2> HIDE DEF o
  <2>2. q1 <= q2
    BY ONLY <1>1, <1>4, <2>1, RoomInv, NumberSpan
  <2>3. q2 <= q3
    BY ONLY <1>1, <1>4, <2>1, RoomInv, NumberSpan
  <2>4. q3 <= e
    BY ONLY <1>1, <1>3, <2>1, RoomInv, NumberSpan
  <2> QED
    BY <2>2, <2>3, <2>4
<1>13. e <= r.limit => q1 <= r.limit /\ q2 <= r.limit /\ q3 <= r.limit
  <2>1. r.limit \in Nat
    BY ONLY RoomInv, Reader(r, Len(data)), ViewNat
  <2> QED
    BY ONLY <1>12, <2>1, q1 \in Nat, q2 \in Nat, q3 \in Nat, e \in Nat
<1>14. CASE head.error # ""
  <2>1. t = head
    BY <1>14 DEF ReadHeaderV1, head, t
  <2> QED
    BY <1>5, <1>13, <1>14, <2>1 DEF t
<1>15. CASE head.error = ""
  <2>1. head.got[1][1] = must /\ head.got[1][2] = ExtendedPid /\ Len(head.got[1]) = 2
    <3>1. head.got[1] = v
      BY <1>2, <1>5, <1>15
    <3> QED
      BY <1>2, <3>1
  <2> DEFINE u == [last EXCEPT !.origin = last.offset]
             got == <<<<must, long.got[1][1], last.got[1][1]>>>>
             x == Returns(u, got)
  <2>2. t = IF last.error # "" THEN last ELSE x
    BY <1>15, <2>1, Pids DEF ReadHeaderV1, head, eight, long, last, t
  <2>3. CASE last.error # ""
    <3>1. ~(e <= r.limit)
      BY <1>6, <1>7, <1>8, <1>9, <1>10, <1>11, <1>13, <1>15, <2>3
    <3> QED
      BY <2>2, <2>3, <3>1 DEF t
  <2>4. CASE last.error = ""
    <3>1. got = <<<<must, id, size>>>>
      <4>1. last.got[1][1] = size
        BY <1>3, <1>11, <2>4
      <4>2. long.got[1][1] = id
        BY <1>4, <1>9, <1>11, <2>4
      <4> QED
        BY <4>1, <4>2
    <3>2. Reader(u, Len(data)) /\ u.origin = e /\ u.offset = e
      BY <1>11, <2>4 DEF Reader
    <3> HIDE DEF u, got
    <3>3. Kept(u, x) /\ x.error = "" /\ x.got = got /\ x.offset = u.offset
      BY ONLY <3>2, ReturnsKeeps
    <3>4. x.origin = e
      BY <3>2, <3>3 DEF Kept
    <3> HIDE DEF x
    <3> QED
      BY <2>2, <2>4, <3>1, <3>2, <3>3, <3>4 DEF t
  <2> QED
    BY <2>3, <2>4
<1> QED
  BY <1>14, <1>15

LEMMA UnitTimes ==
  ASSUME NEW n \in Nat, NEW m \in {1, 4, 8}, n % m = 0
  PROVE  n \div m \in Nat /\ m * (n \div m) = n
<1>1. n = m * (n \div m) + (n % m) /\ n \div m \in Nat
  <2>1. CASE m = 1
    BY <2>1
  <2>2. CASE m = 4
    BY <2>2
  <2>3. CASE m = 8
    BY <2>3
  <2> QED
    BY <2>1, <2>2, <2>3
<1> QED
  <2>1. CASE m = 1
    BY <1>1, <2>1
  <2>2. CASE m = 4
    BY <1>1, <2>2
  <2>3. CASE m = 8
    BY <1>1, <2>3
  <2> QED
    BY <2>1, <2>2, <2>3

\* The header of XCDR2, which leaves the origin where it is.
LEMMA CodedBack ==
  ASSUME RoomInv, NEW r, Reader(r, Len(data)), r.error = "", NEW e \in Nat,
         NEW must \in Nat, NEW id \in Nat, NEW size \in Nat,
         CodedAt(kind, data, r.offset, r.origin, must, id, size, e)
  PROVE  LET t == ReadHeaderV2(r)
         IN  /\ t.error = "" => t.origin = r.origin /\ t.offset = e /\ t.got = <<<<must, id, size>>>>
             /\ e <= r.limit => t.error = ""
<1> DEFINE o == r.origin
           s == r.offset
<1>1. PICK c \in 0..7, q \in Nat :
        /\ NumberAt(kind, data, s, o, 4, Order(kind), <<must, c, id>>, q)
        /\ IF c <= 3 THEN e = q /\ size = FixedSizes[c + 1]
           ELSE /\ size % SizeUnit(c) = 0
                /\ NumberAt(kind, data, q, o, 4, Order(kind), <<size \div SizeUnit(c)>>, e)
  BY DEF CodedAt
<1> DEFINE v == <<must, c, id>>
           unit == SizeUnit(c)
           n == size \div unit
           w == <<n>>
           head == ReadUint32(r)
           last == ReadUint32(head)
           t == ReadHeaderV2(r)
           got == <<<<must, id, size>>>>
<1>2. /\ v \in Seq(Nat) /\ Len(v) = 3 /\ v[1] = must /\ v[2] = c /\ v[3] = id /\ <<v>>[1] = v
  <2>1. c \in Nat
    BY ONLY c \in 0..7
  <2> QED
    BY ONLY <2>1, must \in Nat, id \in Nat, Header
<1>3. s \in Nat /\ o \in Nat
  BY ReaderFields
<1>4. unit \in {1, 4, 8} /\ unit = CASE c = 6 -> 4 [] c = 7 -> 8 [] OTHER -> 1
  BY DEF SizeUnit
<1> HIDE DEF v, unit
<1>5. (c <= 3 \/ c > 3) /\ (c > 3 <=> ~(c <= 3))
  BY ONLY c \in 0..7
<1>6. c > 3 => n \in Nat /\ unit * n = size /\ w \in Seq(Nat) /\ w[1] = n /\ <<w>>[1] = w
  <2>1. c > 3 => size % unit = 0
    BY <1>1, <1>5 DEF unit
  <2>2. c > 3 => n \in Nat /\ unit * n = size
    BY ONLY <1>4, <2>1, size \in Nat, UnitTimes
  <2> HIDE DEF n
  <2> QED
    BY <2>2, OneValue
<1> HIDE DEF n
<1>7. NumberAt(kind, data, s, o, 4, Order(kind), v, q)
  BY <1>1 DEF v
<1>8. c > 3 => NumberAt(kind, data, q, o, 4, Order(kind), w, e)
  BY <1>1, <1>5 DEF n, unit, w
<1> HIDE DEF w, t
<1>9. /\ Reader(head, Len(data)) /\ Kept(r, head)
      /\ head.error = "" => head.offset = q /\ q <= r.limit /\ head.got = <<v>>
      /\ q <= r.limit => head.error = ""
  <2>1. r.error = "" => r.offset = s
    OBVIOUS
  <2>2. NumberAt(kind, data, s, r.origin, 4, Order(kind), v, q)
    BY <1>7
  <2> HIDE DEF s
  <2>3. LET x == ReadUint32(r)
        IN  /\ Reader(x, Len(data)) /\ Kept(r, x)
            /\ x.error = "" => r.error = "" /\ x.offset = q /\ q <= r.limit /\ x.got = <<v>>
            /\ r.error = "" /\ q <= r.limit => x.error = ""
    BY ONLY <1>2, <1>3, <2>1, <2>2, RoomInv, Reader(r, Len(data)), q \in Nat, WordOn
  <2> QED
    BY <2>3
<1> HIDE DEF head
<1>10. head.origin = o /\ head.limit = r.limit
  BY <1>9 DEF Kept
<1>11. CASE head.error # ""
  <2>1. t = head
    BY <1>11 DEF ReadHeaderV2, head, t
  <2>2. ~(q <= r.limit)
    BY <1>9, <1>11
  <2>3. q <= e
    <3>1. CASE c <= 3
      <4>1. q = e
        BY <1>1, <3>1
      <4> QED
        BY ONLY <4>1, q \in Nat, e \in Nat
    <3>2. CASE c > 3
      <4>1. 4 \in Alignments
        BY DEF Alignments
      <4> QED
        BY ONLY <1>3, <1>6, <1>8, <3>2, <4>1, RoomInv, q \in Nat, NumberSpan
    <3> QED
      BY <1>5, <3>1, <3>2
  <2>4. ~(e <= r.limit)
    <3>1. r.limit \in Nat
      BY ONLY RoomInv, Reader(r, Len(data)), ViewNat
    <3> QED
      BY ONLY <2>2, <2>3, <3>1, q \in Nat, e \in Nat
  <2> QED
    BY <1>11, <2>1, <2>4 DEF t
<1>12. CASE head.error = ""
  <2>1. head.got[1][1] = must /\ head.got[1][2] = c /\ head.got[1][3] = id /\ Len(head.got[1]) = 3
    <3>1. head.got[1] = v
      BY <1>2, <1>9, <1>12
    <3> QED
      BY <1>2, <3>1
  <2>2. CASE c <= 3
    <3> DEFINE x == Returns(head, got)
    <3>1. FixedSizes[c + 1] = size /\ e = q
      BY <1>1, <2>2
    <3>2. t = x
      BY <1>12, <2>1, <2>2, <3>1 DEF ReadHeaderV2, head, t
    <3> HIDE DEF got
    <3>3. Kept(head, x) /\ x.error = "" /\ x.got = got /\ x.offset = head.offset
      BY ONLY <1>9, ReturnsKeeps
    <3> HIDE DEF x
    <3> QED
      BY <1>9, <1>10, <1>12, <3>1, <3>2, <3>3 DEF Kept, t, got
  <2>3. CASE c > 3
    <3> DEFINE x == Returns(last, got)
    <3>1. /\ Reader(last, Len(data)) /\ Kept(head, last)
          /\ last.error = "" => head.error = "" /\ last.offset = e /\ e <= head.limit /\ last.got = <<w>>
          /\ head.error = "" /\ e <= head.limit => last.error = ""
      <4>1. NumberAt(kind, data, q, head.origin, 4, Order(kind), w, e) /\ w \in Seq(Nat)
            /\ (head.error = "" => head.offset = q)
        BY <1>6, <1>8, <1>9, <1>10, <2>3
      <4> QED
        BY ONLY <1>9, <4>1, RoomInv, q \in Nat, e \in Nat, WordOn
    <3> HIDE DEF last
    <3>2. last.error = "" => last.got[1][1] = n
      BY <1>6, <2>3, <3>1
    <3>3. ~(c <= 3)
      BY <1>5, <2>3
    <3>4. t = IF last.error # "" THEN last
              ELSE Returns(last, <<<<must, id, unit * last.got[1][1]>>>>)
      <4> DEFINE f == head.got[1]
                 factor == CASE f[2] = 6 -> 4 [] f[2] = 7 -> 8 [] OTHER -> 1
      <4>1. unit = factor
        BY <1>4, <2>1
      <4>2. ~(f[2] <= 3) /\ Len(f) = 3 /\ f[1] = must /\ f[3] = id
        BY <2>1, <3>3
      <4>3. t = IF head.error # "" THEN head
                ELSE IF Len(f) # 3 THEN Fails(head, "ValueError")
                ELSE IF f[2] <= 3 THEN Returns(head, <<<<f[1], f[3], FixedSizes[f[2] + 1]>>>>)
                ELSE IF last.error # "" THEN last
                ELSE Returns(last, <<<<f[1], f[3], factor * last.got[1][1]>>>>)
        BY ONLY TRUE DEF ReadHeaderV2, head, last, t
      <4> HIDE DEF f, factor
      <4> QED
        BY ONLY <1>12, <4>1, <4>2, <4>3
    <3>5. CASE last.error # ""
      BY <1>10, <1>12, <3>1, <3>4, <3>5 DEF t
    <3>6. CASE last.error = ""
      <4>1. t = x
        BY <1>6, <2>3, <3>2, <3>4, <3>6
      <4> HIDE DEF got
      <4>2. Kept(last, x) /\ x.error = "" /\ x.got = got /\ x.offset = last.offset
        BY ONLY <3>1, ReturnsKeeps
      <4> HIDE DEF x
      <4> QED
        BY <1>10, <3>1, <3>6, <4>1, <4>2 DEF Kept, t, got
    <3> QED
      BY <3>5, <3>6
  <2> QED
    BY <1>5, <2>2, <2>3
<1> QED
  BY <1>11, <1>12

LEMMA MemberWhole ==
  ASSUME RoomInv, NEW r, Reader(r, Len(data)), r.error = "", NEW c \in Calls, NEW s \in Nat,
         c.op = "member", Laid(kind, data, s, r.origin, c, <<>>), Before(r.offset, s, r.origin, c)
  PROVE  Whole(r, ReadCall(r, c), c)
<1> DEFINE t == ReadMember(r)
           o == r.origin
<1>1. PICK must \in {0, 1}, id \in Nat, size \in Nat :
        /\ c.values = <<<<must, id, size>>>>
        /\ MemberAt(kind, data, s, o, must, id, size, c.end)
  BY DEF Laid
<1> DEFINE got == <<<<must, id, size>>>>
<1>2. must \in Nat /\ c.end \in Nat
  <2>1. must \in Nat
    BY ONLY must \in {0, 1}
  <2> QED
    BY <2>1, CallTypes
<1>3. IsPrefix(got, got)
  BY ONLY <1>2, id \in Nat, size \in Nat, Header
<1>4. Expected(c) = got
  BY <1>1 DEF Expected
<1>5. ReadCall(r, c) = t
  BY DEF ReadCall
<1>6. MovesOrigin(kind, c) <=> ~Cdr2(kind)
  BY DEF MovesOrigin
<1>7. Place(r.offset, o, 4) = Place(s, o, 4)
  BY BeforeFour
<1>8. CASE Cdr2(kind)
  <2>1. r.offset = s /\ CodedAt(kind, data, s, o, must, id, size, c.end)
    BY <1>1, <1>8 DEF Before, MemberAt
  <2>2. CodedAt(kind, data, r.offset, r.origin, must, id, size, c.end)
    BY <2>1
  <2> DEFINE x == ReadHeaderV2(r)
  <2>3. /\ x.error = "" => x.origin = r.origin /\ x.offset = c.end /\ x.got = got
        /\ c.end <= r.limit => x.error = ""
    BY ONLY <1>2, <2>2, RoomInv, Reader(r, Len(data)), r.error = "", id \in Nat, size \in Nat, CodedBack
  <2>4. t = x
    BY <1>8 DEF ReadMember
  <2> HIDE DEF t, x, got
  <2> QED
    BY <1>3, <1>4, <1>5, <1>6, <1>8, <2>3, <2>4 DEF Whole
<1>9. CASE ~Cdr2(kind)
  <2> DEFINE x == ReadHeaderV1(r)
  <2>1. /\ x.error = "" => x.origin = c.end /\ x.offset = c.end /\ x.got = got
        /\ c.end <= r.limit => x.error = ""
    <3>1. CASE Extended(id, size)
      <4>1. ExtendedAt(kind, data, s, r.origin, must, id, size, c.end)
        BY <1>1, <1>9, <3>1 DEF MemberAt
      <4> QED
        BY ONLY <1>2, <1>7, <4>1, RoomInv, Reader(r, Len(data)), r.error = "", s \in Nat,
           id \in Nat, size \in Nat, ExtendedBack
    <3>2. CASE ~Extended(id, size)
      <4>1. ShortAt(kind, data, s, r.origin, must, id, size, c.end)
        BY <1>1, <1>9, <3>2 DEF MemberAt
      <4> QED
        BY ONLY <1>2, <1>7, <3>2, <4>1, RoomInv, Reader(r, Len(data)), r.error = "", s \in Nat,
           id \in Nat, size \in Nat, ShortBack
    <3> QED
      BY <3>1, <3>2
  <2>2. t = x
    BY <1>9 DEF ReadMember
  <2> HIDE DEF t, x, got
  <2> QED
    BY <1>3, <1>4, <1>5, <1>6, <1>9, <2>1, <2>2 DEF Whole
<1> QED
  BY <1>8, <1>9

\* Each call but a sentinel.
LEMMA CallWhole ==
  ASSUME RoomInv, NEW r, Reader(r, Len(data)), r.error = "", NEW c \in Calls, NEW s \in Nat,
         c.op # "sentinel", Laid(kind, data, s, r.origin, c, <<>>), Before(r.offset, s, r.origin, c)
  PROVE  Whole(r, ReadCall(r, c), c)
<1>1. c.op \in {"number", "text", "array", "member", "align", "origin"}
  BY DEF Calls
<1> QED
  BY <1>1, NumberWhole, TextWhole, ArrayWhole, MemberWhole, AlignWhole, OriginWhole

-----------------------------------------------------------------------------
(* Readers that are in step *)

\* Under which origin the call i is to be read, and from where: from where it
\* begins, or two bytes before, where it aligns anyway.
Placed(k, log, i, off, o) ==
  /\ OriginOf(k, log, i, o)
  /\ \/ off = StartOf(log, i)
     \/ /\ ~Cdr2(k)
        /\ \A n \in {4, 8} : Place(off, o, n) = Place(StartOf(log, i), o, n)
        /\ i <= Len(log) => Realigns(log[i])

Follows(name) ==
  /\ readers[name].error = "" =>
       Placed(kind, written, next[name], readers[name].offset, readers[name].origin)
  /\ \A i \in 1..Len(starts[name]) :
       Placed(kind, written, i, starts[name][i].offset, starts[name][i].origin)

\* A reader in step stands where its next call is to be read from, and so do the
\* places it may be sent back to.
FollowInv == Clean => \A name \in inStep : Follows(name)

\* What a reader r has got from a call c when it comes to s.
Answered(r, s, c) ==
  /\ s.error = "" => \E a \in Answers(c) : s.offset = a.offset /\ IsPrefix(s.got, a.got)
  /\ c.end <= r.limit => s.error = "" /\ [got |-> s.got, offset |-> s.offset] \in Answers(c)

LEMMA WholeAnswered == ASSUME NEW r, NEW s, NEW c, Whole(r, s, c) PROVE Answered(r, s, c)
<1> DEFINE a == [got |-> Expected(c), offset |-> c.end]
<1>1. a \in Answers(c) /\ a.got = Expected(c) /\ a.offset = c.end
  BY DEF Answers
<1>2. s.error = "" => s.offset = a.offset /\ IsPrefix(s.got, a.got)
  BY <1>1 DEF Whole
<1>3. c.end <= r.limit => s.error = "" /\ [got |-> s.got, offset |-> s.offset] = a
  BY DEF Whole
<1> HIDE DEF a
<1> QED
  BY <1>1, <1>2, <1>3 DEF Answered

LEMMA HalfAnswered ==
  ASSUME NEW r, NEW s, NEW c, c.op = "sentinel",
         s.error = "" => s.offset = c.end - 2 /\ s.got = <<<<SentinelPid, 0>>>>,
         c.end <= r.limit => s.error = ""
  PROVE  Answered(r, s, c)
<1> DEFINE got == <<<<SentinelPid, 0>>>>
           a == [got |-> got, offset |-> c.end - 2]
<1>1. a \in Answers(c) /\ a.got = got /\ a.offset = c.end - 2
  BY DEF Answers
<1>2. IsPrefix(got, got)
  <2>1. <<SentinelPid, 0>> \in Seq(Nat)
    BY Pids, Header
  <2> QED
    BY <2>1, Header
<1>3. s.error = "" => [got |-> s.got, offset |-> s.offset] = a
  OBVIOUS
<1>4. s.error = "" => s.got = got /\ s.offset = c.end - 2
  OBVIOUS
<1> HIDE DEF a, got
<1> QED
  BY <1>1, <1>2, <1>3, <1>4 DEF Answered

\* A reader that is placed gets back the call it makes, and is placed for the next.
LEMMA ReadPlaced ==
  ASSUME StreamInv, LayoutInv, Clean, Idle, NEW i \in 1..Len(written), NEW r, Reader(r, Len(data)),
         r.error = "", Placed(kind, written, i, r.offset, r.origin),
         NEW t \in ReadBack(r, written[i])
  PROVE  /\ Answered(r, t, written[i]) /\ written[i].end <= Len(data)
         /\ t.error = "" /\ GoesOn(i, t) => Placed(kind, written, i + 1, t.offset, t.origin)
<1> DEFINE c == written[i]
           s == StartOf(written, i)
<1>1. RoomInv /\ written \in Seq(Calls) /\ Len(written) \in Nat
  <2>1. RoomInv /\ written \in Seq(Calls)
    BY DEF StreamInv, WriterInv
  <2> QED
    BY <2>1, LenNat
<1>2. c \in Calls /\ i \in Nat \ {0}
  <2>1. i \in Nat \ {0}
    BY ONLY <1>1, i \in 1..Len(written)
  <2>2. written[i] \in Calls
    BY ONLY <1>1, i \in 1..Len(written)
  <2> QED
    BY <2>1, <2>2
<1>3. s \in Nat
  <2>1. CASE i = 1
    BY <2>1 DEF StartOf
  <2>2. CASE i # 1
    <3>1. i - 1 \in 1..Len(written)
      BY ONLY <1>1, <2>2, i \in 1..Len(written)
    <3>2. written[i - 1] \in Calls
      BY ONLY <1>1, <3>1
    <3> QED
      BY <2>2, <3>2, CallTypes DEF StartOf
  <2> QED
    BY <2>1, <2>2
<1>4. Laid(kind, data, s, r.origin, c, <<>>)
  <2>1. PICK o \in Nat : OriginOf(kind, written, i, o) /\ Laid(kind, data, s, o, c, LeftOf(written, i, items.left))
    BY DEF LayoutInv, LaidOut
  <2>2. o = r.origin
    BY <1>2, <2>1, OneOrigin DEF Placed
  <2>3. LeftOf(written, i, items.left) = <<>>
    BY DEF LeftOf, Idle
  <2> QED
    BY <2>1, <2>2, <2>3
<1>5. Before(r.offset, s, r.origin, c)
  <2>1. i <= Len(written)
    BY ONLY <1>1, i \in 1..Len(written)
  <2> QED
    BY <2>1 DEF Placed, Before
<1>6. c.end <= Len(data)
  BY <1>4 DEF Laid
<1>7. OriginOf(kind, written, i + 1, IF MovesOrigin(kind, c) THEN c.end ELSE r.origin)
  BY <1>2, OriginNext DEF Placed
<1>8. StartOf(written, i + 1) = c.end
  <2>1. i + 1 # 1 /\ (i + 1) - 1 = i
    BY ONLY <1>2
  <2> QED
    BY <2>1 DEF StartOf
<1> HIDE DEF s
<1>9. ASSUME Whole(r, t, c) PROVE Answered(r, t, c) /\ (t.error = "" => Placed(kind, written, i + 1, t.offset, t.origin))
  <2>1. Answered(r, t, c)
    BY <1>9, WholeAnswered
  <2>2. t.error = "" => Placed(kind, written, i + 1, t.offset, t.origin)
    BY <1>7, <1>8, <1>9 DEF Whole, Placed
  <2> QED
    BY <2>1, <2>2
<1>10. CASE c.op # "sentinel"
  <2>1. t = ReadCall(r, c)
    BY <1>10 DEF ReadBack
  <2> HIDE DEF c
  <2>2. Whole(r, t, c)
    BY <1>1, <1>2, <1>3, <1>4, <1>5, <1>10, <2>1, CallWhole
  <2> QED
    BY <1>6, <1>9, <2>2 DEF c
<1>11. CASE c.op = "sentinel"
  <2>1. t = ReadSentinel(r) \/ (t = ReadMember(r) /\ ~Cdr2(kind))
    BY <1>11 DEF ReadBack
  <2>2. CASE t = ReadSentinel(r)
    <3> HIDE DEF c
    <3>1. Whole(r, t, c)
      BY <1>1, <1>2, <1>3, <1>4, <1>5, <1>11, <2>2, SentinelWhole
    <3> QED
      BY <1>6, <1>9, <3>1 DEF c
  <2>3. CASE t = ReadMember(r) /\ ~Cdr2(kind)
    <3> HIDE DEF c
    <3>1. /\ t.error = "" =>
               /\ t.origin = r.origin /\ t.offset = c.end - 2 /\ t.got = <<<<SentinelPid, 0>>>>
               /\ \A n \in {4, 8} : Place(t.offset, r.origin, n) = Place(c.end, r.origin, n)
          /\ c.end <= r.limit => t.error = ""
      BY <1>1, <1>2, <1>3, <1>4, <1>5, <1>11, <2>3, SentinelHalf
    <3>2. Answered(r, t, c)
      BY <1>11, <3>1, HalfAnswered
    <3>3. ASSUME t.error = "", GoesOn(i, t) PROVE Placed(kind, written, i + 1, t.offset, t.origin)
      <4>1. c.end \in Nat
        BY <1>2, CallTypes
      <4>2. t.offset # c.end
        <5>1. t.offset = c.end - 2
          BY <3>1, <3>3
        <5> QED
          BY ONLY <4>1, <5>1
      <4>3. i = Len(written) \/ Realigns(written[i + 1])
        BY <1>11, <3>3, <4>2 DEF GoesOn, c
      <4>4. i + 1 <= Len(written) => Realigns(written[i + 1])
        <5>1. i = Len(written) => ~(i + 1 <= Len(written))
          BY ONLY <1>1
        <5> QED
          BY <4>3, <5>1
      <4>5. OriginOf(kind, written, i + 1, t.origin)
        <5>1. ~MovesOrigin(kind, c)
          BY <1>11 DEF MovesOrigin
        <5> QED
          BY <1>7, <3>1, <3>3, <5>1
      <4>6. \A n \in {4, 8} : Place(t.offset, t.origin, n) = Place(StartOf(written, i + 1), t.origin, n)
        BY <1>8, <3>1, <3>3
      <4> QED
        BY <2>3, <4>4, <4>5, <4>6 DEF Placed
    <3> QED
      BY <1>6, <3>2, <3>3 DEF c
  <2> QED
    BY <2>1, <2>2, <2>3
<1> QED
  BY <1>10, <1>11

LEMMA FollowInit == StreamInit => FollowInv
BY DEF StreamInit, FollowInv

\* Of one reader that moves: the others stay where they are.
LEMMA OthersFollow ==
  ASSUME StreamInv, FollowInv, UNCHANGED <<kind, written, sound>>, NEW name \in DOMAIN readers,
         inStep' \subseteq inStep,
         \A x \in DOMAIN readers \ {name} :
           readers'[x] = readers[x] /\ next'[x] = next[x] /\ starts'[x] = starts[x],
         Clean /\ name \in inStep /\ name \in inStep' /\ Follows(name) => Follows(name)'
  PROVE  FollowInv'
<1> SUFFICES ASSUME Clean', NEW x \in inStep' PROVE Follows(x)'
  BY DEF FollowInv
<1>1. Clean
  BY DEF Clean
<1>2. x \in inStep /\ x \in DOMAIN readers /\ Follows(x)
  BY <1>1 DEF FollowInv, StreamInv
<1>3. CASE x = name
  BY <1>1, <1>2, <1>3
<1>4. CASE x # name
  <2>1. readers'[x] = readers[x] /\ next'[x] = next[x] /\ starts'[x] = starts[x]
        /\ kind' = kind /\ written' = written
    BY <1>2, <1>4
  <2> QED
    BY <1>2, <2>1 DEF Follows
<1> QED
  BY <1>3, <1>4

\* What Read comes to when the reader is placed.
LEMMA ReadAnswered ==
  ASSUME StreamInv, LayoutInv, FollowInv, Reading, Clean, NEW name \in inStep, Read(name)
  PROVE  LET r == readers[name]
             i == next[name]
             t == readers'[name]
         IN  /\ i \in 1..Len(written) /\ Reader(r, Len(data)) /\ r.error = ""
             /\ t.limit = r.limit /\ Answered(r, t, written[i]) /\ written[i].end <= Len(data)
             /\ Placed(kind, written, i, r.offset, r.origin)
             /\ t.error = "" /\ GoesOn(i, t) => Placed(kind, written, i + 1, t.offset, t.origin)
<1> DEFINE r == readers[name]
           i == next[name]
<1>1. /\ WriterInv /\ ReaderInv(name) /\ name \in DOMAIN readers /\ r.error = "" /\ i <= Len(written)
      /\ Follows(name)
  BY DEF StreamInv, Read, FollowInv
<1>2. PICK t \in ReadBack(r, written[i]) : readers' = [readers EXCEPT ![name] = t]
  BY DEF Read
<1>3. /\ Reader(r, Len(data)) /\ i \in 1..(Len(written) + 1)
      /\ written \in Seq(Calls) /\ RoomInv /\ Len(written) \in Nat /\ Idle
  BY <1>1, LenNat DEF ReaderInv, WriterInv
<1>4. Placed(kind, written, i, r.offset, r.origin)
  BY <1>1 DEF Follows
<1>5. readers'[name] = t
  BY <1>1, <1>2
<1>6. i \in 1..Len(written)
  <2>1. i <= Len(written)
    BY <1>1
  <2> HIDE DEF i
  <2> QED
    BY ONLY <1>3, <2>1
<1> HIDE DEF r, i
<1>7. written[i] \in Calls
  BY ONLY <1>3, <1>6
<1>8. r.error = ""
  BY <1>1
<1>9. t.limit = r.limit
  BY ONLY <1>2, <1>3, <1>7, <1>8, CallKept
<1>10. /\ Answered(r, t, written[i]) /\ written[i].end <= Len(data)
       /\ t.error = "" /\ GoesOn(i, t) => Placed(kind, written, i + 1, t.offset, t.origin)
  BY <1>2, <1>3, <1>4, <1>6, <1>8, ReadPlaced
<1> QED
  BY <1>3, <1>4, <1>5, <1>6, <1>8, <1>9, <1>10 DEF r, i

LEMMA ReadFollows ==
  ASSUME StreamInv, LayoutInv, FollowInv, Reading, NEW name \in DOMAIN readers, Read(name)
  PROVE  FollowInv'
<1> DEFINE r == readers[name]
           i == next[name]
           at == [offset |-> r.offset, origin |-> r.origin]
           new == Append(SubSeq(starts[name], 1, i - 1), at)
           t == readers'[name]
<1>1. /\ UNCHANGED <<kind, written, sound>> /\ name \in inStep
      /\ next' = [next EXCEPT ![name] = i + 1]
      /\ starts' = [starts EXCEPT ![name] = new]
  BY DEF Read, writerVars
<1>2. PICK s \in ReadBack(r, written[i]) :
        /\ readers' = [readers EXCEPT ![name] = s]
        /\ inStep' = IF GoesOn(i, s) THEN inStep ELSE inStep \ {name}
  BY DEF Read
<1>3. DOMAIN readers = DOMAIN next /\ DOMAIN readers = DOMAIN starts
  BY DEF StreamInv
<1>4. /\ t = s /\ next'[name] = i + 1 /\ starts'[name] = new /\ inStep' \subseteq inStep
      /\ \A x \in DOMAIN readers \ {name} :
           readers'[x] = readers[x] /\ next'[x] = next[x] /\ starts'[x] = starts[x]
  BY <1>1, <1>2, <1>3
<1>5. ASSUME Clean, name \in inStep', Follows(name) PROVE Follows(name)'
  <2>1. /\ i \in 1..Len(written) /\ Reader(r, Len(data))
        /\ Placed(kind, written, i, r.offset, r.origin)
        /\ t.error = "" /\ GoesOn(i, t) => Placed(kind, written, i + 1, t.offset, t.origin)
    BY <1>1, <1>5, ReadAnswered
  <2>2. GoesOn(i, t)
    BY <1>2, <1>4, <1>5
  <2>3. ReaderInv(name) /\ written \in Seq(Calls) /\ Len(written) \in Nat
    BY LenNat DEF StreamInv, WriterInv
  <2>4. starts[name] \in Starts /\ Len(starts[name]) >= i - 1
    BY <1>1, <2>3 DEF ReaderInv
  <2>5. at \in [offset : Nat, origin : Nat]
    BY <2>1, ReaderFields
  <2>6. Len(starts[name]) \in Nat
    BY <2>4, LenNat DEF Starts
  <2> HIDE DEF at, i, t, r
  <2>7. i \in Nat \ {0}
    <3>1. i \in 1..Len(written) /\ Len(written) \in Nat
      BY <2>1, <2>3
    <3> QED
      BY ONLY <3>1
  <2>8. Len(new) = i /\ new[i] = at /\ \A j \in 1..(i - 1) : new[j] = starts[name][j]
    BY ONLY <2>4, <2>5, <2>7, StartsAppended
  <2> HIDE DEF new
  <2>9. ASSUME NEW j \in 1..i PROVE Placed(kind, written, j, new[j].offset, new[j].origin)
    <3>1. CASE j = i
      <4>1. new[j].offset = r.offset /\ new[j].origin = r.origin
        BY <2>8, <3>1 DEF at
      <4> QED
        BY <2>1, <3>1, <4>1
    <3>2. CASE j # i
      <4>1. j \in 1..(i - 1)
        BY ONLY <2>7, <3>2, j \in 1..i
      <4>2. j \in 1..Len(starts[name])
        BY ONLY <2>4, <2>6, <2>7, <4>1
      <4> QED
        BY <1>5, <2>8, <4>1, <4>2 DEF Follows
    <3> QED
      BY <3>1, <3>2
  <2>10. kind' = kind /\ written' = written /\ next'[name] = i + 1 /\ starts'[name] = new
    BY <1>1, <1>4
  <2>11. t.error = "" => Placed(kind, written, i + 1, t.offset, t.origin)
    BY <2>1, <2>2
  <2> QED
    BY <2>8, <2>9, <2>10, <2>11 DEF Follows, t
<1> QED
  BY <1>1, <1>4, <1>5, OthersFollow

LEMMA LimitFollows ==
  ASSUME StreamInv, FollowInv, NEW name \in DOMAIN readers, Limit(name)
  PROVE  FollowInv'
<1>1. PICK n \in Limits : readers' = [readers EXCEPT ![name] = Limited(readers[name], n)]
  BY DEF Limit
<1>2. UNCHANGED <<kind, written, sound, next, starts, inStep>>
  BY DEF Limit, writerVars
<1>3. /\ readers'[name].offset = readers[name].offset /\ readers'[name].origin = readers[name].origin
      /\ readers'[name].error = readers[name].error
      /\ \A x \in DOMAIN readers \ {name} : readers'[x] = readers[x]
  <2>1. ReaderInv(name)
    BY DEF StreamInv
  <2>2. Reader(readers[name], Len(data))
    BY <2>1 DEF ReaderInv
  <2>3. /\ Limited(readers[name], n).offset = readers[name].offset
        /\ Limited(readers[name], n).origin = readers[name].origin
        /\ Limited(readers[name], n).error = readers[name].error
    BY <2>2 DEF Reader, Limited
  <2> QED
    BY <1>1, <2>3
<1>4. Follows(name) => Follows(name)'
  BY <1>2, <1>3 DEF Follows
<1> QED
  BY <1>2, <1>3, <1>4, OthersFollow

LEMMA SeekFollows ==
  ASSUME StreamInv, FollowInv, NEW name \in DOMAIN readers, SeekBack(name)
  PROVE  FollowInv'
<1> DEFINE r == readers[name]
<1>1. PICK i \in DOMAIN starts[name] :
        /\ readers' = [readers EXCEPT ![name] = Returns(Sought(r, starts[name][i].offset), <<>>)]
        /\ next' = [next EXCEPT ![name] = i]
        /\ inStep' = IF starts[name][i].origin = r.origin THEN inStep ELSE inStep \ {name}
  BY DEF SeekBack
<1>2. UNCHANGED <<kind, written, sound, starts>>
  BY DEF SeekBack, writerVars
<1>3. ReaderInv(name) /\ DOMAIN readers = DOMAIN next
  BY DEF StreamInv
<1>4. /\ Reader(r, Len(data)) /\ starts[name] \in Starts
  BY <1>3 DEF ReaderInv
<1>5. i \in 1..Len(starts[name])
  BY <1>1, <1>4 DEF Starts
<1> DEFINE to == starts[name][i].offset
<1>6. /\ readers'[name].offset = to /\ readers'[name].origin = r.origin /\ next'[name] = i
      /\ \A x \in DOMAIN readers \ {name} : readers'[x] = readers[x] /\ next'[x] = next[x]
  <2> HIDE DEF to
  <2>1. /\ Returns(Sought(r, to), <<>>).offset = to
        /\ Returns(Sought(r, to), <<>>).origin = r.origin
    BY <1>4 DEF Reader, Returns, Sought
  <2>2. readers' = [readers EXCEPT ![name] = Returns(Sought(r, to), <<>>)]
    BY <1>1 DEF to
  <2> QED
    BY <1>1, <1>3, <2>1, <2>2
<1>7. ASSUME Follows(name), name \in inStep' PROVE Follows(name)'
  <2>1. starts[name][i].origin = r.origin
    BY <1>1, <1>7
  <2>2. Placed(kind, written, i, to, r.origin)
    BY <1>5, <1>7, <2>1 DEF Follows
  <2> QED
    BY <1>2, <1>6, <1>7, <2>2 DEF Follows
<1>8. inStep' \subseteq inStep
  BY <1>1
<1> QED
  BY <1>2, <1>6, <1>7, <1>8, OthersFollow

LEMMA OpenFollows == ASSUME Open PROVE FollowInv'
<1>1. /\ readers'["first"] = Opened(data) /\ next'["first"] = 1 /\ starts'["first"] = <<>>
      /\ inStep' = {"first"}
  BY DEF Open
<1>2. Opened(data).offset = 4 /\ Opened(data).origin = 4
  BY DEF Opened
<1>3. Placed(kind, written, 1, 4, 4)'
  <2>1. \A j \in 1..(1 - 1) : ~MovesOrigin(kind', written'[j])
    OBVIOUS
  <2> QED
    BY <2>1 DEF Placed, OriginOf, StartOf
<1>4. Follows("first")'
  <2>1. \A i \in 1..Len(<<>>) : FALSE
    OBVIOUS
  <2> QED
    BY <1>1, <1>2, <1>3, <2>1 DEF Follows
<1> QED
  BY <1>1, <1>4 DEF FollowInv

LEMMA CloneFollows == ASSUME StreamInv, FollowInv, Clone PROVE FollowInv'
<1> SUFFICES ASSUME Clean', NEW name \in inStep' PROVE Follows(name)'
  BY DEF FollowInv
<1>1. /\ UNCHANGED <<kind, written, sound>> /\ DOMAIN readers = {"first"}
      /\ readers' = [x \in Names |-> readers["first"]]
      /\ next' = [x \in Names |-> next["first"]]
      /\ starts' = [x \in Names |-> starts["first"]]
      /\ inStep' = IF "first" \in inStep THEN Names ELSE inStep
  BY DEF Clone, writerVars
<1>2. Clean
  BY <1>1 DEF Clean
<1>3. inStep \subseteq {"first"}
  BY <1>1 DEF StreamInv
<1>4. "first" \in inStep /\ name \in Names
  BY <1>1, <1>3
<1>5. Follows("first")
  BY <1>2, <1>4 DEF FollowInv
<1>6. readers'[name] = readers["first"] /\ next'[name] = next["first"] /\ starts'[name] = starts["first"]
  BY <1>1, <1>4
<1> QED
  BY <1>1, <1>5, <1>6 DEF Follows

LEMMA FollowNext == StreamInv /\ LayoutInv /\ FollowInv /\ [Next]_vars => FollowInv'
<1> SUFFICES ASSUME StreamInv, LayoutInv, FollowInv, [Next]_vars PROVE FollowInv'
  OBVIOUS
<1>1. CASE Write
  <2>1. inStep' = inStep /\ inStep \subseteq DOMAIN readers /\ readers = <<>>
    BY <1>1 DEF Write, Reading, StreamInv
  <2>2. inStep' = {}
    BY <2>1
  <2> QED
    BY <2>2 DEF FollowInv
<1>2. CASE ReadStep
  <2>1. PICK name \in DOMAIN readers : Read(name) \/ Limit(name) \/ SeekBack(name)
    BY <1>2 DEF ReadStep
  <2>2. Reading
    BY <2>1 DEF Reading
  <2> QED
    BY <2>1, <2>2, ReadFollows, LimitFollows, SeekFollows
<1>3. CASE UNCHANGED vars
  BY <1>3 DEF vars, writerVars, streamVars, FollowInv, Clean, Follows
<1> QED
  BY <1>1, <1>2, <1>3, OpenFollows, CloneFollows DEF Next

-----------------------------------------------------------------------------

\* Whatever was written, in whatever mixture of widths, byte orders, texts, arrays
\* and headers: a reader that makes the calls the writer made gets back what was
\* written and ends where the writer ended, a clone too, and one that was sent
\* back; under a limit it raises or cuts, and returns nothing else.
THEOREM RoundTripHolds == Spec => RoundTrip
<1> DEFINE Reads == \A name \in inStep : Read(name) /\ Faithful =>
                      LET r == readers'[name]
                          answers == Answers(written[next[name]])
                      IN  /\ r.error = "" =>
                               \E s \in answers : r.offset = s.offset /\ IsPrefix(r.got, s.got)
                          /\ r.limit = Len(data) =>
                               r.error = "" /\ [got |-> r.got, offset |-> r.offset] \in answers
           AllInv == StreamInv /\ LayoutInv /\ FollowInv
<1>1. AllInv /\ [Next]_vars => [Reads]_vars
  <2> SUFFICES ASSUME StreamInv, LayoutInv, FollowInv, NEW name \in inStep, Read(name), Faithful
               PROVE  LET r == readers'[name]
                          answers == Answers(written[next[name]])
                      IN  /\ r.error = "" =>
                               \E s \in answers : r.offset = s.offset /\ IsPrefix(r.got, s.got)
                          /\ r.limit = Len(data) =>
                               r.error = "" /\ [got |-> r.got, offset |-> r.offset] \in answers
    OBVIOUS
  <2>1. Clean
    BY DEF Clean, Faithful, StreamInv, WriterInv
  <2>2. Reading
    BY DEF StreamInv, Reading
  <2> DEFINE r == readers[name]
             t == readers'[name]
             c == written[next[name]]
  <2>3. t.limit = r.limit /\ Answered(r, t, c) /\ c.end <= Len(data)
    BY <2>1, <2>2, ReadAnswered
  <2> HIDE DEF r, c, t
  <2>4. t.limit = Len(data) => c.end <= r.limit
    BY <2>3
  <2> QED
    BY <2>3, <2>4 DEF Answered, c, t
<1>2. StreamInit => AllInv
  BY TypesInit, LayoutInit, FollowInit
<1>3. AllInv /\ [Next]_vars => AllInv'
  BY TypesNext, LayoutNext, FollowNext
<1> HIDE DEF AllInv
<1>4. RoundTrip <=> [][Reads]_vars
  BY DEF RoundTrip
<1> HIDE DEF Reads
<1> QED
  BY <1>1, <1>2, <1>3, <1>4, PTL DEF Spec

=============================================================================
