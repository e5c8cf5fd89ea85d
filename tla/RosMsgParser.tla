---------------------------- MODULE RosMsgParser ----------------------------
(***************************************************************************)
(* rosmsg/parse.py: the blocks of a ros2msg schema, which "==" lines       *)
(* separate, become definitions, and the names of types are qualified.     *)
(* _build_type reads ROS 1 texts, _build_ros2_type ROS 2 texts.  Lines are *)
(* given as what the regular expressions find in them; default values are  *)
(* left out, and names of fields and constants are taken to be legal.      *)
(***************************************************************************)
EXTENDS MessageDefinitions

\* base is the name without its bounds and brackets: "T<=9" is stringBound,
\* "T[]" is array "any", "T[n]" "fixed" and "T[<=n]" "atMost".
Line ==
  [type : Name \ {<<>>}, stringBound : BOOLEAN, array : {"no", "any", "fixed", "atMost"},
   length : Nat, name : STRING, constant : BOOLEAN, value : Seq(Int)]

\* Stands for a type that keeps its bound.
Unsplit == <<"<=">>

\* The first block of a schema usually has no MSG line and so no name.
Block == [name : Seq(STRING \ {Unsplit[1]}), lines : Seq(Line)]

BUILTIN_TYPES ==
  {<<t>> : t \in {"int8", "uint8", "int16", "uint16", "int32", "uint32", "int64", "uint64",
                  "float32", "float64", "string", "bool", "char", "byte", "time", "duration"}}

ROS2_BUILTIN_TYPES == BUILTIN_TYPES \cup {<<"wstring">>}

-----------------------------------------------------------------------------
(* Lines *)

normalize_type(type) ==
  CASE type = <<"char">> -> <<"uint8">>
    [] type = <<"byte">> -> <<"int8">>
    [] OTHER -> type

\* _build_type knows no bounds, and aliases only what has no brackets.
Ros1Field(l) ==
  LET unsplit == l.stringBound \/ l.array = "atMost"
      type == CASE unsplit -> Unsplit
                [] ~unsplit /\ l.array = "no" -> normalize_type(l.type)
                [] OTHER -> l.type
  IN [PlainField(l.name, type) EXCEPT
        !.isComplex = type \notin BUILTIN_TYPES,
        !.isArray = l.array \in {"any", "fixed"},
        !.arrayLength = IF l.array = "fixed" THEN <<l.length>> ELSE <<>>,
        !.isConstant = l.constant]

_normalize_type_ros2(type) ==
  CASE type \in {<<"char">>, <<"byte">>} -> <<"uint8">>
    [] type \in {<<"builtin_interfaces", "Time">>, <<"builtin_interfaces", "msg", "Time">>} ->
         <<"time">>
    [] type \in {<<"builtin_interfaces", "Duration">>,
                 <<"builtin_interfaces", "msg", "Duration">>} -> <<"duration">>
    [] OTHER -> type

Ros2Field(l) ==
  LET type == _normalize_type_ros2(l.type)
  IN [PlainField(l.name, type) EXCEPT
        !.isComplex = type \notin ROS2_BUILTIN_TYPES,
        !.isArray = l.array # "no",
        !.arrayLength = IF l.array = "fixed" THEN <<l.length>> ELSE <<>>,
        !.arrayUpperBound = IF l.array = "atMost" THEN <<l.length>> ELSE <<>>,
        !.isConstant = l.constant,
        !.value = l.value]

\* "Invalid string bound for type"
BadBound(blocks) ==
  \E b \in DOMAIN blocks : \E k \in DOMAIN blocks[b].lines :
    LET l == blocks[b].lines[k]
    IN l.stringBound /\ l.type \notin {<<"string">>, <<"wstring">>}

\* Of equal definitions the first is kept.
Unique(types) ==
  Kept(types, {i \in DOMAIN types : \A j \in DOMAIN types : types[j] = types[i] => i <= j})

\* A block at a time, either way.
Built(blocks, ros2) ==
  Unique([i \in DOMAIN blocks |->
    LET lines == blocks[i].lines
    IN Aggregate(blocks[i].name, "struct",
                 [k \in DOMAIN lines |->
                    IF ros2 THEN Ros2Field(lines[k]) ELSE Ros1Field(lines[k])])])

-----------------------------------------------------------------------------
(* fixup_types *)

Namespace(msg) == IF msg.name = <<>> THEN <<>> ELSE SubSeq(msg.name, 1, Len(msg.name) - 1)

\* A mutant: a name without a package is any package's.
MatchesAnywhere(types, name, namespace) ==
  {i \in DOMAIN types :
     LET full == types[i].name
     IN IF Len(name) > 1 THEN full = name ELSE Len(full) > 1 /\ full[Len(full)] = name[1]}

\* The definitions that _find_type_by_name matches.
Matches(types, name, namespace) ==
  {i \in DOMAIN types :
     LET full == types[i].name
     IN CASE Len(name) > 1 -> full = name
          [] name = <<"Header">> -> full = <<"std_msgs", "Header">>
          [] Len(name) = 1 /\ name # <<"Header">> /\ namespace # <<>> -> full = namespace \o name
          [] OTHER -> Len(full) > 1 /\ full[Len(full)] = name[1]}

\* The fields of one definition with the names of their types qualified.
Ambiguous(types, msg) ==
  \E k \in DOMAIN msg.definitions :
    LET f == msg.definitions[k]
    IN f.isComplex /\ Cardinality(Matches(types, f.type, Namespace(msg))) # 1

Qualified(types, msg) ==
  LET Field(f) ==
        IF ~f.isComplex THEN f
        ELSE [f EXCEPT !.type = types[CHOOSE i \in Matches(types, @, Namespace(msg)) : TRUE].name]
  IN [msg EXCEPT !.definitions = [k \in DOMAIN @ |-> Field(@[k])]]

=============================================================================
