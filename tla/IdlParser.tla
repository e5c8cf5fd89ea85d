----------------------------- MODULE IdlParser -----------------------------
(***************************************************************************)
(* omgidl_parser/parse.py: what parse_idl does with the syntax tree that   *)
(* Lark built, in three passes over the declarations: the _Transformer     *)
(* (which evaluates what it can on the way), resolve_constants and         *)
(* resolve_types.  All three visit a module's declarations before what     *)
(* follows the module, and keep one flat table of constants for the text.  *)
(*                                                                         *)
(* Left out: floats, the annotations, the inner bound of a sequence in a   *)
(* sequence, and @value behind an enumerator, which always raises          *)
(* (enum_value unpacks four items of one).                                 *)
(***************************************************************************)
EXTENDS MessageDefinitions, SequencesExt

(***************************************************************************)
(* A value is an integer, a str or a list of values.  In Python a str is   *)
(* both a name to look up and the value of a string constant; so it is     *)
(* here.  A list in a list is kept as its items: the sum and the first     *)
(* failure are the same.                                                   *)
(***************************************************************************)
NumberValue == [tag : {"int"}, int : Int]
Atom == NumberValue \cup [tag : {"str"}, str : Name]
Value == Atom \cup [tag : {"list"}, items : Seq(Atom)]

IntValue(n) == [tag |-> "int", int |-> n]
StrValue(name) == [tag |-> "str", str |-> name]
ItemsOf(v) == IF v.tag = "list" THEN v.items ELSE <<v>>
ListValue(values) ==
  [tag |-> "list", items |-> FlattenSeq([i \in DOMAIN values |-> ItemsOf(values[i])])]
Failure(cause) == [tag |-> "failure", cause |-> cause]

IsFailure(v) == v.tag = "failure"

\* The first failure among values, which is the one that is raised.
Failures(values) == Kept(values, {i \in DOMAIN values : IsFailure(values[i])})

Sum(values) ==
  LET sum[i \in 0..Len(values)] == IF i = 0 THEN 0 ELSE sum[i - 1] + values[i].int
  IN IntValue(sum[Len(values)])

(***************************************************************************)
(* Text.  A constant's value is a value or a sum of them; a type has up to *)
(* two "sequence<...>" around it; bounds and lengths are sums, an absent   *)
(* bound is the empty sum.  Every declaration has the same fields.  They   *)
(* come in the order of the passes, a module behind what it holds: size    *)
(* says how many declarations before it are its own.                       *)
(***************************************************************************)
SumText(items) == [tag |-> "sum", items |-> items]

Type(name) == [name |-> name, nesting |-> 0, bound |-> <<>>, stringBound |-> <<>>]

\* Predicates are those of a union's case; the default has none.
FieldText(name, type, lengths, predicates) ==
  [name |-> name, type |-> type, lengths |-> lengths, predicates |-> predicates]

\* Where there is nothing to name, the name is empty.
TypeText == [name : Name, nesting : 0..2, bound : Seq(Atom), stringBound : Seq(Atom)]

ValueText == Atom \cup [tag : {"sum"}, items : Seq(Atom)]

DeclaratorText ==
  [name : STRING, type : TypeText, lengths : Seq(Seq(Atom)), predicates : Seq(ValueText)]

DeclarationText ==
  {d \in [kind : {"const", "enum", "struct", "typedef", "union", "module"}, name : STRING,
          type : Name, value : ValueText, members : Seq(STRING), fields : Seq(DeclaratorText),
          body : {<<>>}, scope : Name, size : Nat] :
     d.kind = "typedef" => Len(d.fields) = 1}

Declaration(kind, name) ==
  [kind |-> kind, name |-> name, type |-> <<>>, value |-> IntValue(0), members |-> <<>>,
   fields |-> <<>>, body |-> <<>>, scope |-> <<>>, size |-> 0]

-----------------------------------------------------------------------------
(* The _Transformer *)

_NORMALIZATION ==
  LET pairs == {<<"long double", "float64">>, <<"double", "float64">>, <<"float", "float32">>,
                <<"short", "int16">>, <<"unsigned short", "uint16">>,
                <<"long", "int32">>, <<"unsigned long", "uint32">>,
                <<"long long", "int64">>, <<"unsigned long long", "uint64">>,
                <<"boolean", "bool">>, <<"octet", "uint8">>}
  IN [name \in {<<p[1]>> : p \in pairs} |-> <<(CHOOSE p \in pairs : <<p[1]>> = name)[2]>>]

\* A mutant: types keep the names that IDL gives them.
AsWritten(name) == name

Normalized(name) == IF name \in DOMAIN _NORMALIZATION THEN _NORMALIZATION[name] ELSE name

_BUILTIN_TYPES ==
  {<<t>> : t \in {"float64", "float32", "int16", "uint16", "uint64", "uint32", "int64", "int32",
                  "int8", "uint8", "byte", "octet", "wchar", "char", "string", "wstring", "bool"}}

Looked(constants, item) ==
  IF item.tag = "str" /\ item.str \in DOMAIN constants THEN constants[item.str] ELSE item

\* A mutant: a name that is not known yet is no reason to wait.
const_sum_at_once(constants, items) ==
  LET values == [i \in DOMAIN items |-> Looked(constants, items[i])]
  IN CASE \E i \in DOMAIN items : values[i].tag = "list" -> ListValue(values)
       [] Len(items) = 1 -> values[1]
       [] \A i \in DOMAIN values : values[i].tag = "int" -> Sum(values)
       [] OTHER -> Failure("not numeric")

\* Evaluated only if every name is known by now; otherwise a list is kept,
\* for resolve_constants.
const_sum(constants, items) ==
  LET values == [i \in DOMAIN items |-> Looked(constants, items[i])]
      deferred ==
        \E i \in DOMAIN items :
          items[i].tag = "str" /\ (items[i].str \notin DOMAIN constants \/ values[i].tag = "list")
  IN CASE deferred -> ListValue(values)
       [] ~deferred /\ Len(items) = 1 -> values[1]
       [] ~deferred /\ Len(items) > 1 /\ \A i \in DOMAIN values : values[i].tag = "int" ->
            Sum(values)
       [] OTHER -> Failure("not numeric")

const_value(constants, text) ==
  IF text.tag = "sum" THEN const_sum(constants, text.items) ELSE text

\* int(item): of a list TypeError, of a str ValueError.  (A text constant that
\* is a numeral, which int takes, is left out.)
Length(constants, sum) ==
  LET v == const_sum(constants, sum) IN IF v.tag = "int" THEN v ELSE Failure("length")

\* A field, or the one declarator of a typedef.  composite: the type is
\* left a tuple, which field() takes apart and typedef() does not.
Declared(constants, f) ==
  LET t == f.type
  IN [name |-> f.name,
      type |-> IF t.nesting = 2 THEN <<"sequence">> ELSE Normalized(t.name),
      composite |-> t.nesting = 2 \/ t.stringBound # <<>>,
      array_lengths |-> [k \in DOMAIN f.lengths |-> Length(constants, f.lengths[k])],
      is_sequence |-> t.nesting > 0,
      bound |-> IF t.bound = <<>> THEN <<>> ELSE <<const_sum(constants, t.bound)>>,
      string_bound |-> IF t.stringBound = <<>> THEN <<>>
                         ELSE <<Length(constants, t.stringBound)>>,
      predicates |-> [k \in DOMAIN f.predicates |-> const_value(constants, f.predicates[k])]]

Parsed(constants, d) ==
  [d EXCEPT !.value = const_value(constants, @),
            !.type = Normalized(@),
            !.fields = [k \in DOMAIN @ |-> Declared(constants, @[k])]]

\* Where an enum has a member; of two of one name the table keeps the last.
PlaceOf(members, name) ==
  CHOOSE k \in DOMAIN members :
    members[k] = name /\ \A j \in DOMAIN members : members[j] = name => j <= k

\* What constant() and enum() enter into the table.
Registered(constants, node) ==
  LET entries ==
        CASE node.kind = "const" -> [n \in {<<node.name>>} |-> node.value]
          [] node.kind = "enum" ->
               [n \in {<<node.members[k]>> : k \in DOMAIN node.members}
                        \cup {<<node.name, node.members[k]>> : k \in DOMAIN node.members} |->
                  IntValue(PlaceOf(node.members, n[Len(n)]) - 1)]
          [] OTHER -> <<>>
  IN [n \in DOMAIN constants \cup DOMAIN entries |->
        IF n \in DOMAIN entries THEN entries[n] ELSE constants[n]]

\* The failures among the parts of the first field that has any, or else the
\* value's.
NodeFailures(node, parts) ==
  LET failing == {k \in DOMAIN parts : Failures(parts[k]) # <<>>}
  IN IF failing = {} THEN Failures(<<node.value>>) ELSE Failures(parts[Least(failing)])

ParseFailures(node) ==
  LET Parts(f) == f.predicates \o f.bound \o f.string_bound \o f.array_lengths
  IN NodeFailures(node, [k \in DOMAIN node.fields |-> Parts(node.fields[k])])

-----------------------------------------------------------------------------
(* resolve_constants *)

Added(values) == IF Failures(values) = <<>> THEN Sum(values) ELSE Failures(values)[1]

\* A mutant: a name that is met again counts for nothing.
EvaluationOnce(constants, n, before) ==
  [p \in Atom \X SUBSET Name |->
     LET name == p[1].str
         items == ItemsOf(constants[name])
     IN CASE p[1].tag = "int" -> p[1]
          [] p[1].tag = "str" /\ name \notin DOMAIN constants -> Failure("unknown")
          [] p[1].tag = "str" /\ name \in DOMAIN constants /\ (name \in p[2] \/ n = 0) -> IntValue(0)
          [] OTHER -> Added([i \in DOMAIN items |-> before[<<items[i], p[2] \cup {name}>>]])]

\* What an atom comes to that is met behind the names in seen, where n more
\* names may be looked up; before says it for n - 1.
Evaluation(constants, n, before) ==
  [p \in Atom \X SUBSET Name |->
     LET atom == p[1]
         seen == p[2]
         items == ItemsOf(constants[atom.str])
     IN CASE atom.tag = "int" -> atom
          [] atom.tag = "str" /\ atom.str \notin DOMAIN constants -> Failure("unknown")
          [] atom.tag = "str" /\ atom.str \in DOMAIN constants /\ (atom.str \in seen \/ n = 0) ->
               Failure("circular")
          [] OTHER ->
               Added([i \in DOMAIN items |-> before[<<items[i], seen \cup {atom.str}>>]])]

\* No more names than there are: one that is met again raises.
_eval_expr(constants, expr) ==
  LET eval[n \in Nat] == Evaluation(constants, n, eval[n - 1])
      all == eval[Cardinality(DOMAIN constants)]
  IN Added([i \in DOMAIN ItemsOf(expr) |-> all[<<ItemsOf(expr)[i], {}>>]])

\* Of a constant the value; of fields the bounds, of cases the predicates.
Resolved(constants, node) ==
  LET Eval(v) == _eval_expr(constants, v)
      Field(f) == [f EXCEPT !.bound = [b \in DOMAIN @ |-> Eval(@[b])],
                            !.predicates = [p \in DOMAIN @ |-> Eval(@[p])]]
  IN [node EXCEPT !.value = IF node.kind = "const" THEN Eval(@) ELSE @,
                  !.fields = [k \in DOMAIN @ |-> Field(@[k])]]

ResolveFailures(node) ==
  NodeFailures(node, [k \in DOMAIN node.fields |-> node.fields[k].bound \o node.fields[k].predicates])

-----------------------------------------------------------------------------
(* resolve_types *)

FullName(node) == Append(node.scope, node.name)

named_types(nodes) ==
  {FullName(nodes[i]) : i \in {j \in DOMAIN nodes :
                                 nodes[j].kind \in {"struct", "union", "typedef", "enum"}}}

\* The scopes, innermost first, in which a declaration has this name.
Scopes(named, name, scope) ==
  {i \in 0..Len(scope) : SubSeq(scope, 1, i) \o name \in named}

\* A mutant: the outermost of them.
Outermost(named, name, scope) ==
  LET scopes == Scopes(named, name, scope)
  IN IF scopes = {} THEN name
     ELSE SubSeq(scope, 1, CHOOSE i \in scopes : \A j \in scopes : i <= j) \o name

Innermost(named, name, scope) ==
  LET scopes == Scopes(named, name, scope)
  IN IF scopes = {} THEN name
     ELSE SubSeq(scope, 1, CHOOSE i \in scopes : \A j \in scopes : j <= i) \o name

\* A name that is the full name of some type is taken for that.
FieldType(named, name, scope) ==
  IF name \in _BUILTIN_TYPES \/ name \in named THEN name ELSE Innermost(named, name, scope)

\* Names of several parts are left as they are.
OtherType(named, name, scope) ==
  IF name \in _BUILTIN_TYPES \/ Len(name) > 1 THEN name ELSE Innermost(named, name, scope)

\* Only typedefs, structs and unions have fields.
Typed(named, node) ==
  LET Field(f) == [f EXCEPT !.type = IF node.kind = "typedef"
                                       THEN OtherType(named, @, node.scope)
                                       ELSE FieldType(named, @, node.scope)]
  IN [node EXCEPT
        !.type = IF node.kind = "union" THEN OtherType(named, Normalized(@), node.scope) ELSE @,
        !.fields = [k \in DOMAIN @ |-> Field(@[k])]]

\* d.type.startswith of a typedef whose type is a tuple: AttributeError.
Untypable(node) == node.kind = "typedef" /\ node.fields[1].composite

=============================================================================
