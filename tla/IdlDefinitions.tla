--------------------------- MODULE IdlDefinitions ---------------------------
(***************************************************************************)
(* omgidl_parser/process.py, which flattens the resolved declarations into *)
(* definitions, and ros2idl_parser/parse.py, which renames them.  Names    *)
(* being sequences of parts here, _normalize_name changes nothing: it      *)
(* replaces "::" by "/" in every name alike.                               *)
(***************************************************************************)
EXTENDS IdlParser

-----------------------------------------------------------------------------
(* build_map: a dictionary as the sequence of its items.  An item also has *)
(* the constants of a module or an enum.                                   *)

Item(node, constants) == [name |-> FullName(node), node |-> node, constants |-> constants]

Enumerators(node) ==
  [k \in DOMAIN node.members |->
     [Declaration("const", node.members[k]) EXCEPT
        !.type = <<"uint32">>, !.value = IntValue(k - 1), !.scope = FullName(node)]]

\* The constants among the declarations from the given one to the module.
Own(nodes, module, from) ==
  {i \in from..(module - 1) : nodes[i].kind = "const" /\ nodes[i].scope = FullName(nodes[module])}

\* A mutant: the first declaration of a module is passed over.
ItemsButFirst(nodes, i) ==
  LET node == nodes[i]
  IN CASE node.kind = "module" -> <<Item(node, Kept(nodes, Own(nodes, i, i - node.size + 1)))>>
       [] node.kind = "enum" ->
            <<Item(node, Enumerators(node))>>
              \o [k \in DOMAIN node.members |-> Item(Enumerators(node)[k], <<>>)]
       [] OTHER -> <<Item(node, <<>>)>>

Items(nodes, i) ==
  LET node == nodes[i]
      enumerators == Enumerators(node)
  IN CASE node.kind = "module" -> <<Item(node, Kept(nodes, Own(nodes, i, i - node.size)))>>
       [] node.kind = "enum" ->
            <<Item(node, enumerators)>> \o [k \in DOMAIN enumerators |-> Item(enumerators[k], <<>>)]
       [] OTHER -> <<Item(node, <<>>)>>

\* The map when the declaration i has been traversed.
build_map(map, nodes, i) == ByName(map \o Items(nodes, i))

Ref(map, name) == {map[i].node : i \in {j \in DOMAIN map : map[j].name = name}}

IsKind(map, name, kinds) == \E node \in Ref(map, name) : node.kind \in kinds

-----------------------------------------------------------------------------
(* Typedefs *)

IsArray(t) == t.array_lengths # <<>> \/ t.is_sequence

IsFixed(t) == t.array_lengths # <<>> /\ ~t.is_sequence

\* A mutant: only sequences are compared.
ComposesSequences(outer, inner) == outer.is_sequence /\ inner.is_sequence

\* One array type inside another is refused unless both are fixed.
Composes(outer, inner) ==
  IsArray(outer) /\ IsArray(inner) /\ ~(IsFixed(outer) /\ IsFixed(inner))

\* The loop of _resolve_typedef once more, if its condition holds.  composes: a
\* typedef and the one that it names compose; links of the chain that are
\* further apart are not compared.
Followed(map, t) ==
  IF ~IsKind(map, t.type, {"typedef"}) \/ t.type \in t.visited
    THEN t
    ELSE LET td == (CHOOSE node \in Ref(map, t.type) : TRUE).fields[1]
         IN [type |-> td.type,
             visited |-> t.visited \cup {t.type},
             array_lengths |-> t.array_lengths \o td.array_lengths,
             is_sequence |-> t.is_sequence \/ td.is_sequence,
             bound |-> IF td.bound # <<>> THEN td.bound ELSE t.bound,
             composes |->
               \/ t.composes
               \/ \E inner \in Ref(map, td.type) :
                    inner.kind = "typedef" /\ Composes(td, inner.fields[1])]

\* Each time it visits another name of the map, so it goes on no longer than that.
_resolve_typedef(map, name) ==
  LET unresolved == [type |-> name, visited |-> {}, array_lengths |-> <<>>,
                     is_sequence |-> FALSE, bound |-> <<>>, composes |-> FALSE]
      chain[n \in Nat] == IF n = 0 THEN unresolved ELSE Followed(map, chain[n - 1])
  IN chain[Len(map)]

-----------------------------------------------------------------------------
(* Conversion *)

\* An enum is read as the number it is stored as.
Referring(map, type, field) ==
  [field EXCEPT
     !.type = IF IsKind(map, type, {"enum"}) THEN <<"uint32">> ELSE type,
     !.enumType = IF IsKind(map, type, {"enum"}) THEN type ELSE <<>>,
     !.isComplex = IsKind(map, type, {"struct", "union"})]

_convert_constant(map, node) ==
  [Referring(map, _resolve_typedef(map, node.type).type, PlainField(node.name, <<>>)) EXCEPT
     !.isConstant = TRUE, !.value = <<node.value.int>>]

\* Why a field is refused, if it is.
Refusals(map, f) ==
  LET td == _resolve_typedef(map, f.type)
  IN (IF td.composes \/ Composes(f, td) THEN {"composed"} ELSE {})
       \cup (IF Len(f.array_lengths \o td.array_lengths) > 1 THEN {"dimensions"} ELSE {})

_convert_field(map, f) ==
  LET td == _resolve_typedef(map, f.type)
      lengths == f.array_lengths \o td.array_lengths
      bound == IF f.is_sequence THEN f.bound ELSE td.bound
  IN [Referring(map, td.type, PlainField(f.name, <<>>)) EXCEPT
        !.isArray = lengths # <<>> \/ f.is_sequence \/ td.is_sequence,
        !.arrayLength = IF lengths = <<>> THEN <<>> ELSE <<lengths[1].int>>,
        !.arrayUpperBound = [b \in DOMAIN bound |-> bound[b].int]]

_convert_union(map, key, node) ==
  LET switch == _resolve_typedef(map, node.type).type
      Case(f) == [predicates |-> {f.predicates[p].int : p \in DOMAIN f.predicates},
                  type |-> _convert_field(map, f)]
      fields == DOMAIN node.fields
      cases == Kept(node.fields, {k \in fields : node.fields[k].predicates # <<>>})
      defaults == Kept(node.fields, {k \in fields : node.fields[k].predicates = <<>>})
  IN [name |-> key,
      aggregatedKind |-> "union",
      switchType |-> IF IsKind(map, switch, {"enum"}) THEN <<"uint32">> ELSE switch,
      definitions |-> <<>>,
      cases |-> [k \in DOMAIN cases |-> Case(cases[k])],
      defaultCase |-> IF defaults = <<>> THEN <<>>
                        ELSE <<_convert_field(map, defaults[Len(defaults)])>>]

\* The definition that an item of the map becomes, if it becomes one.
Converted(map, item) ==
  LET constants == [k \in DOMAIN item.constants |-> _convert_constant(map, item.constants[k])]
      fields == item.node.fields
  IN CASE item.node.kind = "struct" ->
            <<Aggregate(item.name, "struct",
                        [k \in DOMAIN fields |-> _convert_field(map, fields[k])])>>
       [] item.node.kind = "enum" \/ (item.node.kind = "module" /\ constants # <<>>) ->
            <<Aggregate(item.name, "module", constants)>>
       [] item.node.kind = "union" -> <<_convert_union(map, item.name, item.node)>>
       [] OTHER -> <<>>

ItemRefusals(map, item) ==
  LET types == {item.node.type} \cup {item.constants[k].type : k \in DOMAIN item.constants}
      composed == \E t \in types : _resolve_typedef(map, t).composes
  IN (IF item.node.kind # "typedef" /\ composed THEN {"composed"} ELSE {})
       \cup UNION {Refusals(map, item.node.fields[k]) :
                     k \in IF item.node.kind = "typedef" THEN {} ELSE DOMAIN item.node.fields}

\* The constants outside all modules come last, under the name "".
TopLevel(map) ==
  LET items ==
        Kept(map, {i \in DOMAIN map : map[i].node.kind = "const" /\ Len(map[i].name) = 1})
      fields == [k \in DOMAIN items |-> _convert_constant(map, items[k].node)]
  IN IF items = <<>> THEN <<>> ELSE <<Aggregate(<<>>, "module", fields)>>

-----------------------------------------------------------------------------
(* parse_ros2idl *)

Times == {<<"builtin_interfaces", "msg", "Time">>, <<"builtin_interfaces", "msg", "Duration">>}

Renamed(d) ==
  LET Field(f) == [f EXCEPT !.name = IF @ = "nanosec" THEN "nsec" ELSE @]
  IN IF d.name \in Times THEN [d EXCEPT !.definitions = [k \in DOMAIN @ |-> Field(@[k])]] ELSE d

=============================================================================
