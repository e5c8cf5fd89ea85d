------------------------------ MODULE CdrStream ------------------------------
(***************************************************************************)
(* A CdrWriter, the CdrSizeCalculator that counts along with it, and up to *)
(* two CdrReaders (one and its clone) that read what was written call by   *)
(* call.  written logs the calls of the writer that have something to read *)
(* back; a reader makes the matching calls in the same order, and may be   *)
(* limited, cloned, or sent back to where one of its calls began.          *)
(***************************************************************************)
EXTENDS CdrReader, SequencesExt

CONSTANTS
  Widths,      \* the widths of numbers
  Texts,       \* the lengths of texts
  Arrays,      \* the items of arrays
  Members,     \* member headers: [must, id, size, code]
  AlignSizes,  \* what align is called with
  Limits,      \* what limit is called with
  MaxCalls,    \* a bound on the calls of the writer
  MaxMoves     \* a bound on the limits, clones and seeks of the readers

ASSUME WidthsAssumption == Widths \subseteq Alignments
ASSUME TextsAssumption == Texts \subseteq Nat
ASSUME ArraysAssumption == Arrays \subseteq Seq(Nat)
ASSUME MembersAssumption == Members \subseteq [must : {0, 1}, id : Nat, size : Nat, code : -1..7]
ASSUME AlignSizesAssumption == AlignSizes \subseteq {0} \cup Alignments
ASSUME LimitsAssumption == Limits \subseteq Nat
ASSUME BoundsAssumption == MaxCalls \in Nat /\ MaxMoves \in Nat

VARIABLES
  written,    \* the calls that succeeded, and where each ended
  sound,      \* no call has raised
  counted,    \* CdrSizeCalculator._offset
  readers,    \* the readers that exist, by name
  next,       \* the call each reader is to make next
  starts,     \* offset and origin of each reader before each of its calls
  inStep,     \* the readers whose calls were all made from where they belong
  calls, moves

streamVars == <<written, sound, counted, readers, next, starts, inStep, calls, moves>>
vars == <<writerVars, streamVars>>

Names == {"first", "clone"}
Reading == readers # <<>>

StreamInit ==
  /\ Init
  /\ written = <<>>
  /\ sound = TRUE
  /\ counted = 4
  /\ readers = <<>>
  /\ next = <<>>
  /\ starts = <<>>
  /\ inStep = {}
  /\ calls = 0
  /\ moves = 0

-----------------------------------------------------------------------------
(* Writing *)

\* CdrSizeCalculator: _increment_and_return and string.
CountedNumber(at, n) == at + Padding(at - 4, n) + n

\* Bug: the calculator forgets the terminator of a text.
CountedText_Unterminated(at, n) == CountedNumber(at, 4) + n

CountedText(at, n) == CountedNumber(at, 4) + n + 1

\* The items of an array, one call for each.
CountedArray(at, n, xs) ==
  LET after[i \in 0..Len(xs)] == IF i = 0 THEN at ELSE CountedNumber(after[i - 1], n)
  IN  after[Len(xs)]

\* A call that did not raise is logged, with where it ended; counted goes to size.
Logs(call, size) ==
  /\ sound' = (sound /\ error' = "")
  /\ written' = IF error' = "" THEN Append(written, call) ELSE written
  /\ counted' = size

WriteNumber ==
  \E n \in Widths, x \in Numbers :
  \E order \in {Order(kind)} \cup IF n = 1 THEN {} ELSE {"big"} :
    /\ PutNumber(n, order, x)
    /\ Logs([op |-> "number", width |-> n, order |-> order, values |-> <<<<x>>>>,
             end |-> Len(data')],
            CountedNumber(counted, n))

WriteText ==
  \E n \in Texts, writeLength \in BOOLEAN :
    /\ PutText(n, writeLength)
    /\ Logs([op |-> "text", width |-> n, length |-> writeLength, end |-> Len(data')],
            IF writeLength THEN CountedText(counted, n) ELSE counted + n + 1)

ArrayCall(how, n, xs, writeLength) ==
  Logs([op |-> "array", how |-> how, width |-> n, length |-> writeLength,
        values |-> [i \in DOMAIN xs |-> <<xs[i]>>], end |-> Len(data')],
       CountedArray(IF writeLength THEN CountedNumber(counted, 4) ELSE counted, n, xs))

WriteBulk ==
  \E n \in Widths, xs \in Arrays, writeLength \in BOOLEAN :
    PutBulk(n, xs, writeLength) /\ ArrayCall("bulk", n, xs, writeLength)

WriteEach ==
  \E n \in Widths, xs \in Arrays, writeLength \in BOOLEAN :
    PutEach(n, xs, writeLength) /\ ArrayCall("each", n, xs, writeLength)

\* The end of an array moves with its items; one cut short is not read back.
WriteItem ==
  /\ PutItem
  /\ sound' = (sound /\ error' = "")
  /\ written' = IF error' = "" THEN [written EXCEPT ![Len(written)].end = Len(data')]
                ELSE Front(written)
  /\ UNCHANGED counted

WriteMember ==
  \E m \in Members :
    /\ PutMember(m.must, m.id, m.size, m.code)
    /\ Logs([op |-> "member", width |-> 4, values |-> <<<<m.must, m.id, m.size>>>>,
             end |-> Len(data')], counted)

WriteSentinel ==
  /\ PutSentinel
  /\ Logs([op |-> "sentinel", width |-> 4, values |-> <<>>, end |-> Len(data')], counted)

WriteAlign ==
  \E a \in AlignSizes :
    /\ PutAlign(a)
    /\ Logs([op |-> "align", width |-> a, values |-> <<>>, end |-> Len(data')], counted)

WriteOrigin ==
  /\ ResetOrigin
  /\ Logs([op |-> "origin", width |-> 1, values |-> <<>>, end |-> Len(data')], counted)

Write ==
  /\ ~Reading
  /\ \/ /\ calls < MaxCalls
        /\ calls' = calls + 1
        /\ WriteNumber \/ WriteText \/ WriteBulk \/ WriteEach
             \/ WriteMember \/ WriteSentinel \/ WriteAlign \/ WriteOrigin
     \/ WriteItem /\ UNCHANGED calls
  /\ UNCHANGED <<readers, next, starts, inStep, moves>>

-----------------------------------------------------------------------------
(* Reading *)

Open ==
  /\ ~Reading
  /\ Idle
  /\ written # <<>>
  /\ readers' = [name \in {"first"} |-> Opened(data)]
  /\ next' = [name \in {"first"} |-> 1]
  /\ starts' = [name \in {"first"} |-> <<>>]
  /\ inStep' = {"first"}
  /\ UNCHANGED <<writerVars, written, sound, counted, calls, moves>>

\* The call of the reader r that reads back a call of the writer.
ReadCall(r, call) ==
  CASE call.op = "number" -> ReadNumber(r, call.width, call.order)
    [] call.op = "text" ->
         IF call.length THEN ReadString(r) ELSE ReadStringOf(r, call.width + 1)
    [] call.op = "array" ->
         IF call.length THEN ReadSequence(r, call.width)
         ELSE ReadArray(r, call.width, Len(call.values))
    [] call.op = "member" -> ReadMember(r)
    [] call.op = "align" ->
         Returns(IF call.width = 0 THEN r ELSE ReadAligned(r, call.width), <<>>)
    [] call.op = "origin" -> Returns([r EXCEPT !.origin = r.offset], <<>>)

\* What the reader r may do to read back a call.
ReadBack(r, call) ==
  CASE call.op = "sentinel" -> {ReadSentinel(r)} \cup IF Cdr2(kind) THEN {} ELSE {ReadMember(r)}
    [] OTHER -> {ReadCall(r, call)}

\* em_header leaves two bytes of a sentinel: only a call that aligns to four
\* goes on from there as if they were read.
Realigns(call) ==
  \/ call.op \in {"member", "sentinel"}
  \/ call.op = "number" /\ call.width >= 4
  \/ call.op \in {"text", "array"} /\ call.length

GoesOn(i, r) ==
  r.error = "" /\ written[i].op = "sentinel" /\ r.offset # written[i].end
    => i = Len(written) \/ Realigns(written[i + 1])

\* After an error a reader stops until it is sent back.  One that was sent back
\* behind a member header is not followed further.
Read(name) ==
  /\ name \in inStep
  /\ readers[name].error = ""
  /\ next[name] <= Len(written)
  /\ LET r == readers[name]
         i == next[name]
     IN  /\ \E s \in ReadBack(r, written[i]) :
              /\ readers' = [readers EXCEPT ![name] = s]
              /\ inStep' = IF GoesOn(i, s) THEN inStep ELSE inStep \ {name}
         /\ next' = [next EXCEPT ![name] = i + 1]
         /\ starts' = [starts EXCEPT ![name] =
                         Append(SubSeq(@, 1, i - 1), [offset |-> r.offset, origin |-> r.origin])]
  /\ UNCHANGED <<writerVars, written, sound, counted, calls, moves>>

Moves == moves < MaxMoves /\ moves' = moves + 1

Clone ==
  /\ Moves
  /\ DOMAIN readers = {"first"}
  /\ readers' = [name \in Names |-> readers["first"]]
  /\ next' = [name \in Names |-> next["first"]]
  /\ starts' = [name \in Names |-> starts["first"]]
  /\ inStep' = IF "first" \in inStep THEN Names ELSE inStep
  /\ UNCHANGED <<writerVars, written, sound, counted, calls>>

Limit(name) ==
  /\ Moves
  /\ \E n \in Limits :
       /\ CanLimit(readers[name], n)
       /\ readers' = [readers EXCEPT ![name] = Limited(@, n)]
  /\ UNCHANGED <<writerVars, written, sound, counted, next, starts, inStep, calls>>

\* Back to where a call began; a call before a member header began under
\* another origin.
SeekBack(name) ==
  /\ Moves
  /\ \E i \in DOMAIN starts[name] :
       LET to == starts[name][i]
       IN  /\ CanSeek(readers[name], to.offset)
           /\ readers' = [readers EXCEPT ![name] = Returns(Sought(@, to.offset), <<>>)]
           /\ next' = [next EXCEPT ![name] = i]
           /\ inStep' = IF to.origin = readers[name].origin THEN inStep ELSE inStep \ {name}
  /\ UNCHANGED <<writerVars, written, sound, counted, starts, calls>>

ReadStep == \E name \in DOMAIN readers : Read(name) \/ Limit(name) \/ SeekBack(name)

Next == Write \/ Open \/ ReadStep \/ Clone

Spec == StreamInit /\ [][Next]_vars

-----------------------------------------------------------------------------
(* Properties *)

StreamTypeOK ==
  /\ TypeOK
  /\ DOMAIN readers \subseteq Names /\ DOMAIN next = DOMAIN readers
  /\ \A name \in DOMAIN readers : next[name] \in 1..(Len(written) + 1)
  /\ \A name \in DOMAIN readers :
       /\ readers[name].limit \in 4..Len(data)
       /\ readers[name].offset \in Nat /\ readers[name].origin \in Nat
  /\ inStep \subseteq DOMAIN readers
  /\ \A name \in inStep : Len(starts[name]) >= next[name] - 1

\* What a reader gets back, and where it then stands.
Expected(call) == IF call.op = "text" THEN Text(call.width) ELSE call.values

Answers(call) ==
  {[got |-> Expected(call), offset |-> call.end]} \cup
  IF call.op = "sentinel" THEN {[got |-> <<<<SentinelPid, 0>>>>, offset |-> call.end - 2]} ELSE {}

\* The bulk writers align even when there are no items.
EmptyBulk(call) == call.op = "array" /\ call.how = "bulk" /\ call.values = <<>>

Faithful == sound /\ \A i \in DOMAIN written : ~EmptyBulk(written[i])

\* A reader that makes the calls the writer made gets back what was written and
\* ends where the writer ended, through every mixture of widths, byte orders,
\* texts, arrays and headers that move the origin, whether it is a clone or was
\* sent back to an earlier call.  A limit makes it raise, or cut a text or an
\* array short, and never lets it return anything else.
RoundTrip ==
  [][\A name \in inStep : Read(name) /\ Faithful =>
       LET r == readers'[name]
           answers == Answers(written[next[name]])
       IN  /\ r.error = "" =>
                \E s \in answers : r.offset = s.offset /\ IsPrefix(r.got, s.got)
           /\ r.limit = Len(data) =>
                r.error = "" /\ [got |-> r.got, offset |-> r.offset] \in answers]_vars

\* What CdrSizeCalculator comes to for the same calls is the size of the data:
\* under XCDR1 and for the calls it has, none of which moves the origin.
SizeAgrees ==
  /\ Faithful
  /\ Idle
  /\ ~Cdr2(kind)
  /\ \A i \in DOMAIN written : written[i].op \in {"number", "text", "array"}
  => counted = Len(data)

\* tests/cdr/test_reader.py: after an empty array "reader.offset ==
\* len(writer.data)", and tests/cdr/test_writer.py has lists, arrays and
\* memoryviews read back alike.  However an empty array was given, its reader
\* ends where its writer ended.
EmptyArraysReadBack ==
  [][\A name \in inStep : Read(name) /\ sound /\ written[next[name]].op = "array" =>
       (written[next[name]].values = <<>> => readers'[name].offset = written[next[name]].end)]_vars

=============================================================================
