---------------------------- MODULE SchemaBuild ----------------------------
(***************************************************************************)
(* Ros2DecodeFactory._build_reader: from the text of a schema to the plans *)
(* of a decoder.  A ros2idl text goes through the passes of IdlParser and  *)
(* IdlDefinitions, a ros2msg text through RosMsgParser; both end in        *)
(* SchemaCompile.  An action is one pass over one declaration, so that     *)
(* what a pass has not come to yet can be wrong.                           *)
(***************************************************************************)
EXTENDS IdlDefinitions, RosMsgParser, SchemaCompile

CONSTANT
  Texts  \* records: encoding, idl (declarations), ros (blocks), wanted (the
         \* schema's name) and enumAsString

\* What the grammar lets through.  Of a text that only imports there is nothing
\* to visit.
SchemaText ==
  [encoding : {"ros2idl", "ros2msg"}, idl : Seq(DeclarationText), ros : Seq(Block),
   wanted : Name, enumAsString : BOOLEAN]

\* Every word that may stand for a type is a kind, if only an unknown one; "" is
\* what a name of several parts is to the decoder.
IdlTypes(t) ==
  {d.type : d \in Range(t.idl)}
    \cup UNION {{f.type.name : f \in Range(d.fields)} : d \in Range(t.idl)}

RosTypes(t) == UNION {{l.type : l \in Range(b.lines)} : b \in Range(t.ros)}

\* A declaration inside modules has its innermost one around it.
Around(decls, i, module) ==
  /\ decls[module].kind = "module" /\ FullName(decls[module]) = decls[i].scope
  /\ i \in (module - decls[module].size)..(module - 1)

\* The names that a value is written with.
NamesIn(value) ==
  LET atoms == IF value.tag = "sum" THEN Range(value.items) ELSE {value}
  IN {a.str : a \in {b \in atoms : b.tag = "str"}}

ASSUME TextsAssumption ==
  /\ {"", "sequence"} \subseteq UnknownKinds
  /\ \A t \in Texts :
       /\ t \in SchemaText
       /\ t.encoding = "ros2msg" => t.ros # <<>>
       /\ \A i \in DOMAIN t.idl : t.idl[i].size < i /\ t.idl[i].name \in Kinds
       /\ \A i \in DOMAIN t.idl :
            /\ t.idl[i].scope # <<>> => \E module \in DOMAIN t.idl : Around(t.idl, i, module)
            /\ <<>> \notin NamesIn(t.idl[i].value)
       /\ \A name \in IdlTypes(t) : name \in DOMAIN _NORMALIZATION \/ KindOf(name) \in Kinds
       /\ \A name \in RosTypes(t) : KindOf(name) \in Kinds

\* Of literals the provers do not know it.
ASSUME StringsAssumption == Kinds \cup {Unsplit[1], "nsec"} \subseteq STRING

VARIABLES
  text,       \* the schema
  stage,      \* the pass in progress
  at,         \* the declaration, item or definition it has come to
  nodes,      \* the parsed declarations
  constants,  \* _Transformer._constants
  map,        \* idl_map
  defs,       \* the definitions made so far
  outcome,    \* "" while it runs, "reader", "none" or "raised"
  cause,      \* of raised
  schema,     \* what Decoder::new is given
  unionEnums  \* the enum that names the discriminator, of each definition

vars == <<text, stage, at, nodes, constants, map, defs, outcome, cause, schema, unionEnums>>

NoSchema == [plans |-> <<>>, root |-> 0, bytes |-> FALSE]

Init ==
  /\ text \in Texts
  /\ stage = CASE text.encoding = "ros2msg" -> "blocks"
               [] text.encoding = "ros2idl" /\ text.idl # <<>> -> "parse"
               [] OTHER -> "compile"
  /\ at = 1
  /\ nodes = text.idl
  /\ constants = <<>> /\ map = <<>> /\ defs = <<>>
  /\ outcome = "" /\ cause = "" /\ schema = NoSchema /\ unionEnums = <<>>

\* On to the next of count things, or to the first of the next pass.
Advance(count, next) ==
  IF at < count THEN at' = at + 1 /\ UNCHANGED stage ELSE at' = 1 /\ stage' = next

Running(pass) == outcome = "" /\ stage = pass

Stop(result, why) ==
  /\ outcome' = result /\ cause' = why
  /\ UNCHANGED <<text, stage, at, nodes, constants, map, defs, schema, unionEnums>>

-----------------------------------------------------------------------------
(* ros2idl *)

Parse ==
  /\ Running("parse")
  /\ LET node == Parsed(constants, nodes[at])
     IN IF ParseFailures(node) # <<>>
          THEN Stop("raised", ParseFailures(node)[1].cause)
          ELSE /\ nodes' = [nodes EXCEPT ![at] = node]
               /\ constants' = Registered(constants, node)
               /\ Advance(Len(nodes), "constants")
               /\ UNCHANGED <<text, map, defs, outcome, cause, schema, unionEnums>>

ResolveConstants ==
  /\ Running("constants")
  /\ LET node == Resolved(constants, nodes[at])
     IN IF ResolveFailures(node) # <<>>
          THEN Stop("raised", ResolveFailures(node)[1].cause)
          ELSE /\ nodes' = [nodes EXCEPT ![at] = node]
               /\ constants' = IF node.kind = "const" THEN Registered(constants, node) ELSE constants
               /\ Advance(Len(nodes), "types")
               /\ UNCHANGED <<text, map, defs, outcome, cause, schema, unionEnums>>

\* _build_reader turns an AttributeError into no reader.
ResolveTypes ==
  /\ Running("types")
  /\ IF Untypable(nodes[at])
       THEN Stop("none", "")
       ELSE /\ nodes' = [nodes EXCEPT ![at] = Typed(named_types(nodes), @)]
            /\ Advance(Len(nodes), "map")
            /\ UNCHANGED <<text, constants, map, defs, outcome, cause, schema, unionEnums>>

BuildMap ==
  /\ Running("map")
  /\ map' = build_map(map, nodes, at)
  /\ Advance(Len(nodes), "convert")
  /\ UNCHANGED <<text, nodes, constants, defs, outcome, cause, schema, unionEnums>>

Convert ==
  /\ Running("convert")
  /\ IF ItemRefusals(map, map[at]) # {}
       THEN Stop("raised", CHOOSE c \in ItemRefusals(map, map[at]) : TRUE)
       ELSE /\ defs' = defs \o Converted(map, map[at])
                         \o (IF at = Len(map) THEN TopLevel(map) ELSE <<>>)
            /\ Advance(Len(map), "rename")
            /\ UNCHANGED <<text, nodes, constants, map, outcome, cause, schema, unionEnums>>

Rename ==
  /\ Running("rename")
  /\ defs' = [i \in DOMAIN defs |-> Renamed(defs[i])]
  /\ stage' = "compile"
  /\ UNCHANGED <<text, at, nodes, constants, map, outcome, cause, schema, unionEnums>>

-----------------------------------------------------------------------------
(* ros2msg *)

\* decoder_for calls parse without ros2=True.
ReadBlocks ==
  /\ Running("blocks")
  /\ defs' = Built(text.ros, FALSE)
  /\ stage' = "fixup"
  /\ UNCHANGED <<text, at, nodes, constants, map, outcome, cause, schema, unionEnums>>

FixupTypes ==
  /\ Running("fixup")
  /\ IF Ambiguous(defs, defs[at])
       THEN Stop("raised", "not found")
       ELSE /\ defs' = [defs EXCEPT ![at] = Qualified(defs, @)]
            /\ Advance(Len(defs), "compile")
            /\ UNCHANGED <<text, nodes, constants, map, outcome, cause, schema, unionEnums>>

-----------------------------------------------------------------------------
(* MessageReader *)

Compile ==
  /\ Running("compile")
  /\ IF ~Compiles(defs)
       THEN Stop("raised", IF Data(defs) = {} THEN "no root" ELSE "unrecognized")
       ELSE /\ schema' = Compiled(defs, text.wanted, text.enumAsString, TRUE)
            /\ unionEnums' = [i \in DOMAIN defs |->
                 IF defs[i].aggregatedKind = "union" THEN UnionEnum(defs, defs[i]) ELSE <<>>]
            /\ outcome' = "reader"
            /\ UNCHANGED <<text, stage, at, nodes, constants, map, defs, cause>>

Next ==
  \/ Parse \/ ResolveConstants \/ ResolveTypes \/ BuildMap \/ Convert \/ Rename
  \/ ReadBlocks \/ FixupTypes
  \/ Compile

Spec == Init /\ [][Next]_vars

-----------------------------------------------------------------------------
(* Properties *)

Idl == text.encoding = "ros2idl"

Ready == outcome = "reader"

At(name) == CHOOSE i \in DOMAIN defs : defs[i].name = name

\* Types of the state; the plans are what the decoder takes.
SchemaTypeOK ==
  /\ stage \in {"parse", "constants", "types", "map", "convert", "rename",
                "blocks", "fixup", "compile"}
  /\ outcome \in {"", "reader", "none", "raised"}
  /\ at \in Nat \ {0}
  /\ \A i \in DOMAIN nodes : nodes[i].size < i
  /\ defs \in Seq(MessageDefinition)
  /\ Ready => schema \in Schema

\* Decoder::new never refuses what message_reader.py compiles: the root and
\* all targets are plans.  NativeDecoder starts from such schemas.
PlansWellFormed == Ready => WellFormed(schema)

-----------------------------------------------------------------------------
(* Roots and references *)

NamesDistinct == \A i, j \in DOMAIN defs : defs[i].name = defs[j].name => i = j

\* The declarations that enter this name into idl_map, where the last one stays.
Declaring(name) ==
  {i \in DOMAIN text.idl :
     LET d == text.idl[i]
     IN \/ FullName(d) = name
        \/ d.kind = "enum" /\ \E k \in DOMAIN d.members : Append(FullName(d), d.members[k]) = name}

SoleStruct(i) ==
  /\ text.idl[i].kind = "struct" /\ FullName(text.idl[i]) = text.wanted
  /\ Declaring(text.wanted) = {i}

\* The decoder starts from the definition the Python reader chose, although
\* it knows it by name only; that is the struct the schema is named after,
\* if there is one and nothing else has its name; else, for a ros2msg text,
\* it is the one that MessageWriter writes.  Two blocks of one name are left
\* out: the decoder takes the last, the Python reader the first.
RootsAgree ==
  (Ready /\ NamesDistinct) =>
    LET root == PythonRoot(defs, text.wanted)
    IN /\ schema.plans[schema.root] = PlanOf(defs, root, text.enumAsString)
       /\ (Idl /\ \E i \in DOMAIN text.idl : SoleStruct(i)) => defs[schema.root].name = text.wanted
       /\ (~Idl /\ \A i \in DOMAIN defs : defs[i].name # text.wanted) =>
            defs[schema.root] = WriterRoot(defs)

\* A field of a ros2msg text goes to a block of the name it is written with;
\* of a name without a package, in the package of its own block.
FieldsFindTheirBlocks ==
  (~Idl /\ Ready /\ NamesDistinct) =>
    \A b \in Range(text.ros) : \A k \in DOMAIN b.lines :
      LET l == b.lines[k]
          i == At(b.name)
          before == Cardinality({j \in 1..k : ~b.lines[j].constant})
          target == defs[schema.plans[i].fields[before].target].name
      IN (~l.constant /\ schema.plans[i].fields[before].kind = "complex") =>
           /\ target[Len(target)] = l.type[Len(l.type)]
           /\ Len(l.type) > 1 => target = l.type
           /\ (Len(l.type) = 1 /\ Len(b.name) > 1 /\ l.type # <<"Header">>) =>
                Front(target) = Front(b.name)

=============================================================================
