--------------------------- MODULE SchemaMeaning ---------------------------
(***************************************************************************)
(* What must come out of SchemaBuild: the plans of the decoder mean what   *)
(* the text of the schema says, and a text that is refused has a fault.    *)
(***************************************************************************)
EXTENDS SchemaBuild, ScopingRules

\* What the text declares.
Decls == text.idl

Known == AllConstants(Decls)

-----------------------------------------------------------------------------
(* Constants *)

\* No two constants of the text share a key of the parser's flat table.
KeysUnique == \A c, e \in Known : c.key = e.key => c = e

\* A module that is opened twice keeps the constants of its last opening; so
\* does a name that the text gives to a constant outside all modules and to
\* something else.
DeclaredOnce(name) == \A i, j \in Declaring(name) : i = j

\* In whatever order a text gives its constants, each comes out in the
\* definition of its module, with the value that the scoping rules give it
\* (parse.py resolves them in two passes from one table without scopes).
ConstantsKept ==
  (Idl /\ Ready /\ KeysUnique) =>
    \A d \in Of(Decls, {"const"}) :
      LET v == Total(Known, d.value, d.scope)
          once == DeclaredOnce(IF d.scope = <<>> THEN FullName(d) ELSE d.scope)
      IN (~IsFailure(v) /\ once /\ d.scope \notin Times) =>
           \E i \in DOMAIN defs : \E k \in DOMAIN defs[i].definitions :
             /\ defs[i].name = d.scope /\ IsConstantModule(defs[i])
             /\ defs[i].definitions[k].name = d.name
             /\ defs[i].definitions[k].value = <<v.int>>

-----------------------------------------------------------------------------
(* Types *)

\* The parser takes these names for what the rules do: no field names a type
\* by the full name of another, no typedef or switch by a part of its path.
SameName(d, name, isField) ==
  LET found == Found1(Decls, name, d.scope)
  IN IF isField THEN name \in named_types(Decls) => found = <<name>>
     ELSE Len(name) = 1 \/ found = <<name>>

LinksOf(d, f) == Links(Decls, f, d.scope)

Plain(d, f) ==
  LET links == LinksOf(d, f)
  IN \A k \in DOMAIN links : SameName(links[k], links[k].field.type.name, k = 1)

\* Arrays in arrays that _resolve_typedef and _convert_field compare: those
\* of neighbouring typedefs, and those of a field with any.  An array of
\* sequences in one declarator, and typedefs with a plain one between them,
\* they let pass.
Composed(d, f) ==
  LET links == LinksOf(d, f)
  IN \E i, j \in DOMAIN links :
       i < j /\ Layers(links[i]) > 0 /\ Layers(links[j]) > 0 /\ (i = 1 \/ j = i + 1)

AllLayers(d, f) == FoldLeft(LAMBDA n, link : n + Layers(link), 0, LinksOf(d, f))

Values(d, f) ==
  {Total(Known, f.predicates[p], d.scope).int : p \in DOMAIN f.predicates}

Computable(d, texts) ==
  KeysUnique /\ \A t \in texts : ~IsFailure(Total(Known, t, d.scope))

\* A planned field is the text's: its kind, the plan it goes to, the length.
FieldMeans(p, d, f) ==
  LET links == LinksOf(d, f)
      last == EndOf(Decls, links)
      ends == {e \in TypeDecls(Decls) : FullName(e) = last}
      arrays == {links[k] : k \in {j \in DOMAIN links : Layers(links[j]) > 0}}
      array == CHOOSE link \in arrays : TRUE
      length == Total(Known, SumText(array.field.lengths[1]), array.scope)
  IN /\ \A e \in ends : e.kind \in {"struct", "union"} =>
            p.kind = "complex" /\ defs[p.target].name = last
     /\ \A e \in ends : e.kind = "enum" => p.kind = "uint32" /\ p.mapped = text.enumAsString
     /\ ends = {} => p.kind = KindOf(last) /\ ~p.mapped
     /\ arrays = {} => p.count = -1
     /\ (arrays # {} /\ array.field.lengths = <<>>) => p.count = -2
     /\ (arrays # {} /\ array.field.lengths # <<>> /\ KeysUnique /\ ~IsFailure(length)) =>
          (length.int >= 0 => p.count = length.int)

IsMeant(p, d, f) == (Plain(d, f) /\ AllLayers(d, f) < 2) => FieldMeans(p, d, f)

\* What the text gives the name of a type has no other declaration of any
\* kind: the parser lets a second one pass and keeps the last.
TypesUnique == \A d \in TypeDecls(Decls) : DeclaredOnce(FullName(d))

\* Every field of every type decodes as the text says: the plans that come
\* out of parser, conversion and compiler agree with the scoping rules, the
\* chains of typedefs and the values of the constants.
PlansMeanText ==
  (Idl /\ Ready /\ TypesUnique) =>
    \A d \in Of(Decls, {"struct", "union"}) :
      LET plan == schema.plans[At(FullName(d))]
          cases == SelectSeq(d.fields, LAMBDA f : f.predicates # <<>>)
          defaults == SelectSeq(d.fields, LAMBDA f : f.predicates = <<>>)
          switch == <<[field |-> FieldText("", Type(d.type), <<>>, <<>>), scope |-> d.scope]>>
      IN /\ plan.union = (d.kind = "union")
         /\ ~plan.union =>
              /\ Len(plan.fields) = Len(d.fields)
              /\ \A k \in DOMAIN d.fields : IsMeant(plan.fields[k], d, d.fields[k])
         /\ plan.union =>
              /\ Len(plan.cases) = Len(cases) /\ Len(plan.default) = Len(defaults)
              /\ \A k \in DOMAIN cases : IsMeant(plan.cases[k].field, d, cases[k])
              /\ \A k \in DOMAIN cases :
                   Computable(d, Range(cases[k].predicates)) =>
                     plan.cases[k].values = Values(d, cases[k])
              /\ \A k \in DOMAIN defaults : IsMeant(plan.default[k], d, defaults[k])

-----------------------------------------------------------------------------
(* Verdicts *)

\* Some sum names a constant that the text declares only later.
Forward ==
  \E i \in DOMAIN Decls :
    \E c \in AllConstants(SubSeq(Decls, i, Len(Decls))) : c.key \in Names(Sums(Decls[i]))

Texty == \E c \in Known : Worth(Known)[c] = Failure("text")

Undeclared ==
  \E d \in Range(Decls) : \E n \in Names(Sums(d)) : \A c \in Known : c.key # n

\* Some sum names a constant that is not in scope there, and that the flat
\* table finds all the same.
Unseen ==
  \E d \in Range(Decls) : \E n \in Names(Sums(d)) :
    Found({c.full : c \in Known}, n, d.scope) = <<>>

Circular ==
  \E c \in Known : Total(Known, c.of.value, c.of.scope) = Failure("circular")

FieldsOf(kinds) ==
  UNION {{<<d, d.fields[k]>> : k \in DOMAIN d.fields} : d \in Of(Decls, kinds)}

\* An IDL text is refused for a reason that is in it.  Names of constants
\* that are written with their module's count as undeclared: the table has
\* none; a length must not need a constant that follows; a text constant is
\* taken for the name of another; a circle may run through that, or through
\* names that are not in scope.
RefusedForCause ==
  (Idl /\ outcome = "raised" /\ KeysUnique /\ TypesUnique) =>
    CASE cause = "unknown" -> Undeclared \/ Texty
      [] cause = "circular" -> Circular \/ Unseen \/ Texty
      [] cause = "length" -> Forward \/ Undeclared \/ Texty
      [] cause = "not numeric" -> Texty
      [] cause \in {"composed", "dimensions"} ->
           \E df \in FieldsOf({"struct", "union"}) :
             AllLayers(df[1], df[2]) > 1 \/ ~Plain(df[1], df[2])
      [] cause = "no root" -> Of(Decls, {"struct", "union"}) = {}
      [] OTHER -> FALSE

\* No text is accepted whose constants go in a circle, however many modules
\* and sums it runs through and in whatever order they stand, and no text
\* constant either, but one that says the name of another constant: the
\* parser takes it for that.
CirclesRefused ==
  (Idl /\ Ready /\ KeysUnique) =>
    /\ ~Circular
    /\ \A c \in Known : c.of.value.tag = "str" => \E named \in Known : named.key = c.of.value.str

\* No text is accepted with arrays in arrays where the code compares them.
ArraysRefused ==
  (Idl /\ Ready /\ TypesUnique) =>
    \A df \in FieldsOf({"struct", "union"}) :
      Plain(df[1], df[2]) => ~Composed(df[1], df[2])

-----------------------------------------------------------------------------
(* Discriminators *)

\* A discriminator has the names of an enum, or of a module's constants, with
\* all cases of its union.  Where there is none in the union's module, nor in
\* one whose path begins with the same letters, nothing names it; where the
\* one thing there is an enum of the union's own module, that does if it has
\* the cases.  (What is said of no union: where it is the neighbour's enum,
\* the code takes that, and of several the first that fits; the switch has
\* no say.)
UnionsNamed ==
  (Idl /\ Ready /\ KeysUnique /\ TypesUnique) =>
    \A d \in {u \in Of(Decls, {"union"}) : u.scope # <<>>} :
      LET near == {e \in Of(Decls, {"enum", "const"}) : StartsWith(e.scope, d.scope)}
          texts == UNION {Range(d.fields[k].predicates) : k \in DOMAIN d.fields}
          values == {Total(Known, t, d.scope).int : t \in texts}
          Fits(e) == values \subseteq 0..Len(e.members) - 1
          named == unionEnums[At(FullName(d))]
      IN Computable(d, texts) =>
           /\ named # <<>> =>
                \E e \in near :
                  \/ e.kind = "enum" /\ named = <<FullName(e)>> /\ Fits(e)
                  \/ e.kind = "const" /\ named = <<e.scope>>
           /\ \A e \in near : (near = {e} /\ e.kind = "enum" /\ e.scope = d.scope) =>
                named = IF Fits(e) THEN <<FullName(e)>> ELSE <<>>

-----------------------------------------------------------------------------
(* A ros2msg text is refused only if the parser of ROS 2 texts refuses it   *)
(* too.  Not so: the factory has it read as a ROS 1 text.                   *)

Ros2TextsRead ==
  (~Idl /\ outcome = "raised" /\ cause = "not found") =>
    \/ BadBound(text.ros)
    \/ \E i \in DOMAIN Built(text.ros, TRUE) :
         Ambiguous(Built(text.ros, TRUE), Built(text.ros, TRUE)[i])

=============================================================================
