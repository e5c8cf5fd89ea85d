------------------------ MODULE MessageDefinitions ------------------------
(***************************************************************************)
(* The definitions that both parsers hand to the readers and the writer,   *)
(* message_definition/__init__.py.                                         *)
(*                                                                         *)
(* A name is the sequence of its parts, which the IDL parser joins by "::" *)
(* and all others by "/"; the empty sequence stands for None and for "".   *)
(* What may be absent is a sequence of at most one item.  valueText,       *)
(* upperBound and defaultValue are left out: the decoder never looks at    *)
(* them.                                                                   *)
(***************************************************************************)
EXTENDS Integers, Sequences, FiniteSets

Name == Seq(STRING)

\* value: of a constant that is an integer; bool is one in Python.  An array
\* length of an IDL text may be any integer.
MessageDefinitionField ==
  [name : STRING, type : Name, isComplex : BOOLEAN, enumType : Name,
   isArray : BOOLEAN, arrayLength : Seq(Int), arrayUpperBound : Seq(Int),
   isConstant : BOOLEAN, value : Seq(Int)]

UnionCase == [predicates : SUBSET Int, type : MessageDefinitionField]

AggregatedKind == {"module", "struct", "union"}

MessageDefinition ==
  [name : Name, aggregatedKind : AggregatedKind, switchType : Name,
   definitions : Seq(MessageDefinitionField), cases : Seq(UnionCase),
   defaultCase : Seq(MessageDefinitionField)]

\* A field that is neither array nor constant, for the parsers to refine.
PlainField(name, type) ==
  [name |-> name, type |-> type, isComplex |-> FALSE, enumType |-> <<>>,
   isArray |-> FALSE, arrayLength |-> <<>>, arrayUpperBound |-> <<>>,
   isConstant |-> FALSE, value |-> <<>>]

\* A definition that is no union.
Aggregate(name, kind, fields) ==
  [name |-> name, aggregatedKind |-> kind, switchType |-> <<>>,
   definitions |-> fields, cases |-> <<>>, defaultCase |-> <<>>]

-----------------------------------------------------------------------------
(* What a comprehension or a dictionary keeps of a sequence: the items at  *)
(* the positions in S, in their order.                                     *)

Rank(S, i) == Cardinality({j \in S : j <= i})

Nth(S, k) == CHOOSE i \in S : Rank(S, i) = k

Kept(seq, S) == [k \in 1..Cardinality(S) |-> seq[Nth(S, k)]]

Least(S) == CHOOSE i \in S : \A j \in S : i <= j

\* A dictionary by name keeps the place of the first of equal names, and the
\* value of the last.
Firsts(seq) ==
  {i \in DOMAIN seq : \A j \in DOMAIN seq : seq[j].name = seq[i].name => i <= j}

Named(seq, name) ==
  seq[CHOOSE i \in DOMAIN seq :
        /\ seq[i].name = name
        /\ \A j \in DOMAIN seq : seq[j].name = name => j <= i]

ByName(seq) == [k \in 1..Cardinality(Firsts(seq)) |-> Named(seq, seq[Nth(Firsts(seq), k)].name)]

=============================================================================
