------------------------------ MODULE CdrCursor ------------------------------
(***************************************************************************)
(* What reading one CDR payload promises, whatever the schema: a cursor    *)
(* moves over the body of the payload (the bytes after the encapsulation   *)
(* header), every read is aligned with the least padding that will do, no  *)
(* read leaves the body, and the verdict on the payload is given once.     *)
(* Positions count from the start of the body.                             *)
(***************************************************************************)
EXTENDS Naturals, Sequences, CdrAlignment

VARIABLES
  length,     \* bytes in the body
  position,   \* next byte to be read
  spans,      \* the reads made so far, in order
  verdict     \* "reading", then "accepted" or "rejected" for good

cursorVars == <<length, position, spans, verdict>>

-----------------------------------------------------------------------------

Init ==
  /\ length \in Nat
  /\ position = 0
  /\ spans = <<>>
  /\ verdict = "reading"

Read(n, a) ==
  /\ verdict = "reading"
  /\ Padded(position, a) + n <= length
  /\ position' = Padded(position, a) + n
  /\ spans' = Append(spans, [from |-> Padded(position, a), size |-> n, align |-> a])
  /\ UNCHANGED <<length, verdict>>

\* A read whose value already condemns the payload (a bad discriminant, text
\* that is not UTF-8) may be made and the payload rejected in one step.
ReadAndReject(n, a) ==
  /\ verdict = "reading"
  /\ Padded(position, a) + n <= length
  /\ position' = Padded(position, a) + n
  /\ spans' = Append(spans, [from |-> Padded(position, a), size |-> n, align |-> a])
  /\ verdict' = "rejected"
  /\ UNCHANGED length

Accept ==
  /\ verdict = "reading"
  /\ verdict' = "accepted"
  /\ UNCHANGED <<length, position, spans>>

Reject ==
  /\ verdict = "reading"
  /\ verdict' = "rejected"
  /\ UNCHANGED <<length, position, spans>>

Next ==
  \/ \E a \in Alignments, n \in 0..length : Read(n, a) \/ ReadAndReject(n, a)
  \/ Accept
  \/ Reject

Spec == Init /\ [][Next]_cursorVars

=============================================================================
