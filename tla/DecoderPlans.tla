---------------------------- MODULE DecoderPlans ----------------------------
(***************************************************************************)
(* The plans that message_reader.py hands to the compiled decoder, and     *)
(* what Decoder::new checks of them, src/lib.rs.                           *)
(***************************************************************************)
EXTENDS Integers, Sequences

CONSTANT
  UnknownKinds  \* names of types the decoder does not know, "" for none

Widths ==
  [bool |-> 1, uint8 |-> 1, int8 |-> 1, uint16 |-> 2, int16 |-> 2,
   uint32 |-> 4, int32 |-> 4, float32 |-> 4,
   uint64 |-> 8, int64 |-> 8, float64 |-> 8]

NumberKinds == DOMAIN Widths
IntegerKinds == NumberKinds \ {"float32", "float64"}
TimeKinds == {"time", "duration"}
Kinds == NumberKinds \cup TimeKinds \cup {"complex", "string", "wstring"} \cup UnknownKinds

\* FieldInput: count is -1 for a single value, -2 for a sequence whose length
\* is in the payload, otherwise the length of a fixed array.  mapped says that
\* the field has an enum mapping.
Field == [kind : Kinds, target : Nat, count : Int, mapped : BOOLEAN]

Case == [values : SUBSET Int, field : Field]

\* PlanInput; an absent default is the empty sequence.
Plan ==
  [union : BOOLEAN, switch : Kinds, fields : Seq(Field),
   cases : Seq(Case), default : Seq(Field)]

Schema == [plans : Seq(Plan), root : Nat, bytes : BOOLEAN]

-----------------------------------------------------------------------------
(* Decoder::new *)

Targets(p) ==
  {p.fields[i] : i \in DOMAIN p.fields}
    \cup {p.cases[i].field : i \in DOMAIN p.cases}
    \cup {p.default[i] : i \in DOMAIN p.default}

WellFormed(s) ==
  /\ s.root \in DOMAIN s.plans
  /\ \A i \in DOMAIN s.plans : \A f \in Targets(s.plans[i]) :
       f.kind = "complex" => f.target \in DOMAIN s.plans

=============================================================================
