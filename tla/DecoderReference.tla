-------------------------- MODULE DecoderReference --------------------------
(***************************************************************************)
(* The compiled decoder beside the reader that it replaced and that is     *)
(* kept as its reference, PythonReader.                                    *)
(***************************************************************************)
EXTENDS NativeDecoder

CONSTANT
  RecursionLimit  \* of the interpreter: 1000 frames, and one for each definition

\* The interpreter lets the Python reader go deeper than the decoder goes.
ASSUME RecursionAssumption == RecursionLimit \in Nat /\ RecursionLimit > MaxDepth

Reference == INSTANCE PythonReader

\* What both readers know how to read, or how to refuse.
KnownKinds == NumberKinds \cup TimeKinds \cup {"complex", "string", "wstring"}

\* Left out are fixed arrays of length zero, which the two read differently as
\* DESIGN.md says; and arrays of kinds nobody knows, which the decoder passes by
\* when they are empty.
Comparable ==
  \A i \in DOMAIN schema.plans : \A f \in Targets(schema.plans[i]) :
    f.count # -1 => f.count # 0 /\ f.kind \in KnownKinds

\* What the Python reader makes of the payload, when c are the numbers in it.
ReadByPython(c) ==
  Reference!Message(
    Reference!Given(schema.plans, payload.size - 4, c, payload.kind), schema.root)

\* The compiled decoder and the Python reader it replaced agree: what the one
\* accepts the other reads too, taking the same bytes of the payload and ending
\* at the same place.
AgreesWithPython ==
  outcome = "ok" /\ Comparable =>
    LET st == ReadByPython(cells)
    IN  ~st.failed /\ st.at = offset - 4 /\ st.read = BytesRead

=============================================================================
