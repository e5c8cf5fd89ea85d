---------------------------- MODULE ScopingRules ----------------------------
(***************************************************************************)
(* What an IDL text says, by the scoping rules alone: a name means the     *)
(* declaration in the innermost scope that has one, whatever the order of  *)
(* the text; a typedef means what its own name means where it stands.      *)
(* Nothing here knows of passes, tables or maps: it is what the properties *)
(* of SchemaBuild compare the parser with.  decls are the declarations as  *)
(* written.                                                                *)
(***************************************************************************)
EXTENDS IdlDefinitions

Found(names, name, scope) ==
  LET around == {i \in 0..Len(scope) : SubSeq(scope, 1, i) \o name \in names}
      innermost == CHOOSE i \in around : \A j \in around : j <= i
  IN IF around = {} THEN <<>> ELSE <<SubSeq(scope, 1, innermost) \o name>>

Of(decls, kinds) == {decls[i] : i \in {j \in DOMAIN decls : decls[j].kind \in kinds}}

-----------------------------------------------------------------------------
(* Constants *)

\* A constant, the name the rules give it, and the key by which the parser's
\* table knows it.  An enumerator belongs to the scope around its enum and
\* may be written with the enum's name.
Constant(full, key, of) == [full |-> full, key |-> key, of |-> of]

EnumConstants(d) ==
  UNION {{Constant(Append(d.scope, e.name), <<e.name>>, e),
          Constant(FullName(e), <<d.name, e.name>>, e)} : e \in Range(Enumerators(d))}

AllConstants(decls) ==
  {Constant(FullName(d), <<d.name>>, d) : d \in Of(decls, {"const"})}
    \cup UNION {EnumConstants(d) : d \in Of(decls, {"enum"})}

SumItems(text) == IF text.tag = "sum" THEN text.items ELSE <<text>>

\* What an item is worth where it stands if the constants are worth this.
WorthOf(constants, item, scope, worth) ==
  LET found == Found({c.full : c \in constants}, item.str, scope)
  IN CASE item.tag = "int" -> item
       [] item.tag = "str" /\ found = <<>> -> Failure("unknown")
       [] OTHER -> worth[CHOOSE c \in constants : c.full = found[1]]

Summed(constants, text, scope, worth) ==
  Added([i \in DOMAIN SumItems(text) |-> WorthOf(constants, SumItems(text)[i], scope, worth)])

\* What the constants are worth where names are followed n times.
Valuation(constants, n, before) ==
  [c \in constants |->
     CASE n = 0 -> Failure("circular")
       [] n > 0 /\ c.of.value.tag = "str" -> Failure("text")
       [] OTHER -> Summed(constants, c.of.value, c.of.scope, before)]

\* The value of every constant, or why it has none: names that have to be
\* followed more often than there are constants go in a circle.
Worth(constants) ==
  LET worth[n \in Nat] == Valuation(constants, n, worth[n - 1])
  IN worth[Cardinality(constants)]

Total(constants, text, scope) == Summed(constants, text, scope, Worth(constants))

\* Every sum of a declaration, a length before its bounds.
Lengths(d) ==
  UNION {{d.fields[k].lengths[n] : n \in DOMAIN d.fields[k].lengths}
           \cup ({d.fields[k].type.stringBound} \ {<<>>}) : k \in DOMAIN d.fields}

Sums(d) ==
  (IF d.value.tag = "sum" THEN {d.value.items} ELSE {})
    \cup UNION {{d.fields[k].predicates[p].items :
                   p \in {q \in DOMAIN d.fields[k].predicates :
                            d.fields[k].predicates[q].tag = "sum"}}
                  \cup ({d.fields[k].type.bound} \ {<<>>}) : k \in DOMAIN d.fields}
    \cup Lengths(d)

Names(sums) == {i.str : i \in {j \in UNION {Range(s) : s \in sums} : j.tag = "str"}}

-----------------------------------------------------------------------------
(* Types *)

TypeDecls(decls) == Of(decls, {"struct", "union", "typedef", "enum"})

Found1(decls, name, scope) ==
  IF name \in _BUILTIN_TYPES THEN <<>>
  ELSE Found({FullName(d) : d \in TypeDecls(decls)}, name, scope)

\* The declarators from a field through the typedefs to what it is at last,
\* each typedef once.
Declarator(field, scope) == [field |-> field, scope |-> scope]

Lengthened(decls, links) ==
  LET last == links[Len(links)]
      found == Found1(decls, last.field.type.name, last.scope)
      further == {Declarator(d.fields[1], d.scope) :
                    d \in {e \in Of(decls, {"typedef"}) : <<FullName(e)>> = found}}
                   \ Range(Tail(links))
  IN IF further = {} THEN links ELSE Append(links, CHOOSE link \in further : TRUE)

Links(decls, f, scope) ==
  LET links[n \in Nat] ==
        IF n = 0 THEN <<Declarator(f, scope)>> ELSE Lengthened(decls, links[n - 1])
  IN links[Cardinality(Of(decls, {"typedef"}))]

\* The full name at the end, or the word if no declaration has that name.
EndOf(decls, links) ==
  LET link == links[Len(links)]
      found == Found1(decls, Normalized(link.field.type.name), link.scope)
  IN IF found = <<>> THEN Normalized(link.field.type.name) ELSE found[1]

Layers(link) == Len(link.field.lengths) + link.field.type.nesting

=============================================================================
