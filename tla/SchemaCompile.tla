--------------------------- MODULE SchemaCompile ---------------------------
(***************************************************************************)
(* From definitions to the decoder: MessageReader.__init__ of              *)
(* _python_reader.py (root and enum mappings), MessageReader.__init__ of   *)
(* message_reader.py (indices and plans), and the root of MessageWriter.   *)
(* Plans are numbered from 1, as in NativeDecoder.                         *)
(***************************************************************************)
EXTENDS DecoderPlans, MessageDefinitions

CONSTANT
  Initials  \* the pairs of words the first of which the second begins with

-----------------------------------------------------------------------------
(* The definitions by name: {d.name or "": d for d in definitions}.        *)

NamesOf(defs) == {defs[i].name : i \in DOMAIN defs}

\* Mutants: the index is the place in the list of definitions; constant
\* modules are not counted.
IndexByPlace(defs, name) == Least({i \in DOMAIN defs : defs[i].name = name})

IndexOfData(defs, name) ==
  Rank({i \in Firsts(defs) : defs[i].definitions = <<>> \/ ~defs[i].definitions[1].isConstant},
       CHOOSE i \in Firsts(defs) : defs[i].name = name)

IndexOf(defs, name) ==
  Rank(Firsts(defs), CHOOSE i \in Firsts(defs) : defs[i].name = name)

-----------------------------------------------------------------------------
(* The root *)

IsConstantModule(d) ==
  d.definitions # <<>> /\ \A i \in DOMAIN d.definitions : d.definitions[i].isConstant

Data(defs) == {i \in DOMAIN defs : ~IsConstantModule(defs[i])}

Structs(defs) == {i \in Data(defs) : defs[i].aggregatedKind = "struct"}

Wanted(defs, wanted) ==
  {i \in Structs(defs) : wanted # <<>> /\ defs[i].name = wanted}

\* The definition MessageReader starts with; wanted is rootTypeName.
PythonRoot(defs, wanted) ==
  CASE Wanted(defs, wanted) # {} -> defs[Least(Wanted(defs, wanted))]
    [] Wanted(defs, wanted) = {} /\ Structs(defs) # {} -> defs[Least(Structs(defs))]
    [] OTHER -> defs[Least(Data(defs))]

WriterRoot(defs) == defs[Least(Data(defs))]

-----------------------------------------------------------------------------
(* Enum mappings *)

ValuesOfModule(d) ==
  {d.definitions[i].value[1] : i \in {j \in DOMAIN d.definitions : d.definitions[j].value # <<>>}}

Enums(defs) ==
  {i \in DOMAIN defs : IsConstantModule(defs[i]) /\ ValuesOfModule(defs[i]) # {}}

StartsWith(name, prefix) ==
  /\ Len(prefix) <= Len(name)
  /\ \A i \in DOMAIN prefix :
       prefix[i] = name[i] \/ (i = Len(prefix) /\ <<prefix[i], name[i]>> \in Initials)

\* (d.name or "").rsplit("/", 1)[0]
PrefixOf(name) == IF Len(name) < 2 THEN name ELSE SubSeq(name, 1, Len(name) - 1)

CaseValues(d) == UNION {d.cases[i].predicates : i \in DOMAIN d.cases}

\* A mutant: whatever module they are in.
AnyEnums(defs, d) == {i \in Enums(defs) : CaseValues(d) \subseteq ValuesOfModule(defs[i])}

\* The enums that may name the discriminator of a union; the first one does.
UnionEnums(defs, d) ==
  {i \in Enums(defs) :
     StartsWith(defs[i].name, PrefixOf(d.name)) /\ CaseValues(d) \subseteq ValuesOfModule(defs[i])}

UnionEnum(defs, d) ==
  IF UnionEnums(defs, d) = {} THEN <<>> ELSE <<defs[Least(UnionEnums(defs, d))].name>>

-----------------------------------------------------------------------------
(* The plans *)

\* The decoder knows types of one word only.
KindOf(type) == IF Len(type) = 1 THEN type[1] ELSE ""

FieldPlan(defs, f, enumAsString) ==
  [kind |-> IF f.isComplex THEN "complex" ELSE KindOf(f.type),
   target |-> IF f.isComplex THEN IndexOf(defs, f.type) ELSE 1,
   count |-> IF ~f.isArray THEN -1 ELSE IF f.arrayLength = <<>> THEN -2 ELSE f.arrayLength[1],
   mapped |-> /\ enumAsString /\ f.enumType # <<>>
              /\ \E i \in Enums(defs) : defs[i].name = f.enumType]

DataFields(d) == {i \in DOMAIN d.definitions : ~d.definitions[i].isConstant}

PlanOf(defs, d, enumAsString) ==
  [union |-> d.aggregatedKind = "union",
   switch |-> KindOf(d.switchType),
   fields |-> [k \in 1..Cardinality(DataFields(d)) |->
                 FieldPlan(defs, d.definitions[Nth(DataFields(d), k)], enumAsString)],
   cases |-> [k \in DOMAIN d.cases |->
                [values |-> d.cases[k].predicates,
                 field |-> FieldPlan(defs, d.cases[k].type, enumAsString)]],
   default |-> [k \in DOMAIN d.defaultCase |->
                  FieldPlan(defs, d.defaultCase[k], enumAsString)]]

Planned(d) ==
  {d.definitions[i] : i \in DataFields(d)}
    \cup {d.cases[i].type : i \in DOMAIN d.cases}
    \cup {d.defaultCase[i] : i \in DOMAIN d.defaultCase}

\* "Unrecognized complex type"
Dangling(defs) ==
  {f \in UNION {Planned(Named(defs, n)) : n \in NamesOf(defs)} :
     f.isComplex /\ f.type \notin NamesOf(defs)}

Compiles(defs) == Data(defs) # {} /\ Dangling(defs) = {}

Compiled(defs, wanted, enumAsString, bytes) ==
  [plans |-> [k \in 1..Cardinality(Firsts(defs)) |->
                PlanOf(defs, Named(defs, defs[Nth(Firsts(defs), k)].name), enumAsString)],
   root |-> IndexOf(defs, PythonRoot(defs, wanted).name),
   bytes |-> bytes]

=============================================================================
