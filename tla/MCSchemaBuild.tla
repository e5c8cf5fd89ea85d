--------------------------- MODULE MCSchemaBuild ---------------------------
(***************************************************************************)
(* Texts for SchemaBuild, in families: each takes one question and all the *)
(* orders, scopes and forms that matter to it.                             *)
(***************************************************************************)
EXTENDS SchemaMeaning

Word(word) == StrValue(<<word>>)

Const(name, value) ==
  [Declaration("const", name) EXCEPT !.type = <<"long">>, !.value = value]
Enum(name, members) == [Declaration("enum", name) EXCEPT !.members = members]
Struct(name, fields) == [Declaration("struct", name) EXCEPT !.fields = fields]
Typedef(name, type, lengths) ==
  [Declaration("typedef", name) EXCEPT !.fields = <<FieldText(name, type, lengths, <<>>)>>]
Union(name, switch, fields) ==
  [Declaration("union", name) EXCEPT !.type = switch, !.fields = fields]

Plain1(name, type) == FieldText(name, Type(type), <<>>, <<>>)
Sequence(type, bound) == [Type(type) EXCEPT !.nesting = 1, !.bound = bound]

\* The declarations in the order of the passes.
RECURSIVE Visited(_, _)
Visited(declarations, scope) ==
  FlattenSeq([i \in DOMAIN declarations |->
    LET d == declarations[i]
        inner == Visited(d.body, Append(scope, d.name))
    IN Append(inner, [d EXCEPT !.scope = scope, !.size = Len(inner), !.body = <<>>])])

IdlText(declarations, wanted, enumAsString) ==
  [encoding |-> "ros2idl", idl |-> Visited(declarations, <<>>), ros |-> <<>>, wanted |-> wanted,
   enumAsString |-> enumAsString]

\* Put declarations into their modules, one after the other: a module is
\* opened again when the text comes back to it.
RECURSIVE Inserted(_, _, _)
Inserted(tree, scope, d) ==
  LET last == tree[Len(tree)]
      open == tree # <<>> /\ last.kind = "module" /\ last.name = Head(scope)
      module == IF open THEN last ELSE Declaration("module", Head(scope))
      rest == IF open THEN Front(tree) ELSE tree
  IN IF scope = <<>> THEN Append(tree, d)
     ELSE Append(rest, [module EXCEPT !.body = Inserted(@, Tail(scope), d)])

\* placed: pairs of a scope and a declaration.
Tree(placed) == FoldLeft(LAMBDA tree, p : Inserted(tree, p[1], p[2]), <<>>, placed)

Orders(seq) == {[i \in DOMAIN seq |-> seq[p[i]]] : p \in Permutations(DOMAIN seq)}

-----------------------------------------------------------------------------
(* Constants: values that need one another, in every order, and what uses  *)
(* them, in one module or several.                                         *)

ConstantTexts ==
  LET A == {SumText(<<Word("B"), IntValue(1)>>), SumText(<<Word("B")>>),
            SumText(<<StrValue(<<"m", "B">>), Word("Y")>>)}
      B == {IntValue(2), SumText(<<Word("A"), IntValue(1)>>), SumText(<<Word("Y")>>),
            SumText(<<StrValue(<<"E", "Y">>), IntValue(4)>>), StrValue(<<"text">>)}
      Users == {Struct("S", <<FieldText("s", Sequence(<<"long">>, <<Word("A")>>), <<>>, <<>>),
                              FieldText("t", Type(<<"octet">>), <<<<Word("B")>>>>, <<>>)>>),
                Union("S", <<"long">>,
                      <<FieldText("x", Type(<<"long">>), <<>>, <<SumText(<<Word("A")>>), IntValue(9)>>),
                        FieldText("y", Type(<<"short">>), <<>>, <<>>)>>)}
      Places == {<< <<>>, <<>>, <<>>, <<>> >>, << <<"m">>, <<"m">>, <<"m">>, <<"m">> >>,
                 << <<"m">>, <<"n">>, <<>>, <<"m">> >>}
      Enums2 == Enum("E", <<"X", "Y">>)
  IN UNION {{IdlText(Tree(o), <<"S">>, FALSE) :
               o \in Orders(<< <<p[1], Const("A", a)>>, <<p[2], Const("B", b)>>,
                               <<p[3], Enums2>>, <<p[4], u>> >>)} :
              a \in A, b \in B, u \in Users, p \in Places}

-----------------------------------------------------------------------------
(* Scopes: one name for up to three types, used from each scope directly   *)
(* and through a typedef.                                                  *)

TypeTexts ==
  LET T(scope) ==
        CASE scope = <<>> -> Struct("T", <<Plain1("x", <<"long">>)>>)
          [] scope = <<"a">> -> Enum("T", <<"P", "Q">>)
          [] OTHER -> Typedef("T", Type(<<"double">>), <<<<IntValue(2)>>>>)
      Scopes3 == << <<>>, <<"a">>, <<"a", "b">> >>
      User(scope, type) == <<scope, Struct("S", <<Plain1("f", type), Plain1("v", <<"V">>)>>)>>
      Via(scope, type) == <<scope, Typedef("V", Type(type), <<>>)>>
      Declared1(in) == LET s == SelectSeq(Scopes3, LAMBDA scope : scope \in in)
                       IN [i \in DOMAIN s |-> <<s[i], T(s[i])>>]
      Texts1(in, scope, at1, type, via) ==
        {<<Via(at1, via), User(scope, type)>> \o Declared1(in),
         <<User(scope, type)>> \o Declared1(in) \o <<Via(at1, via)>>}
  IN UNION {{IdlText(Tree(t), Append(scope, "S"), TRUE) : t \in Texts1(in, scope, at1, type, via)} :
              in \in SUBSET Range(Scopes3), scope \in Range(Scopes3), at1 \in Range(Scopes3),
              type \in {<<"T">>, <<"a", "T">>, <<"b", "T">>}, via \in {<<"T">>, <<"a", "T">>}}

-----------------------------------------------------------------------------
(* Chains of typedefs: every link plain, an array, a sequence, or both;    *)
(* ends that are numbers, types, enums or the chain itself.                *)

ChainTexts ==
  LET Forms == {<<0, <<>> >>, <<0, <<<<IntValue(2)>>>> >>, <<1, <<>> >>}
      Form(name, type, form) ==
        FieldText(name, [Type(type) EXCEPT !.nesting = form[1]], form[2], <<>>)
      Link(name, type, form) ==
        [Declaration("typedef", name) EXCEPT !.fields = <<Form(name, type, form)>>]
      Ends == {<<"long">>, <<"R">>, <<"E">>, <<"T1">>}
      Text(form, t1, t2, t3, end) ==
        <<Struct("S", <<Form("f", <<"T1">>, form), Plain1("g", <<"T2">>)>>),
          Link("T1", <<"T2">>, t1), Link("T2", <<"T3">>, t2), Link("T3", end, t3),
          Struct("R", <<Plain1("s", <<"S">>)>>), Enum("E", <<"X">>)>>
  IN {IdlText(Text(f, t1, t2, t3, end), <<"S">>, FALSE) :
        f \in Forms \cup {<<1, <<<<IntValue(2)>>>> >>}, t1 \in Forms, t2 \in Forms,
        t3 \in Forms, end \in Ends}

\* Types that the parser takes apart in a field and not in a typedef, sums
\* that it refuses at once, and a text constant that says the name of another.
OddTexts ==
  LET Odd == {[Type(<<"string">>) EXCEPT !.stringBound = <<IntValue(5)>>],
              [Type(<<"string">>) EXCEPT !.stringBound = <<Word("L")>>],
              [Type(<<"long">>) EXCEPT !.nesting = 2]}
      L == Const("L", StrValue(<<"text">>))
  IN {IdlText(<<Struct("S", <<FieldText("f", t, <<>>, <<>>)>>)>>, <<"S">>, FALSE) : t \in Odd}
       \cup {IdlText(<<Typedef("T", t, <<>>), Struct("S", <<Plain1("f", <<"T">>)>>)>>, <<"S">>, FALSE) :
               t \in Odd}
       \cup {IdlText(<<Struct("S", <<FieldText("f", Type(<<"long">>), <<<<IntValue(n)>>>>, <<>>)>>)>>,
                     <<"S">>, FALSE) : n \in {-3, -2, -1}}
       \cup {IdlText(<<>>, <<"S">>, FALSE)}
       \cup {IdlText(o, <<"S">>, FALSE) :
               o \in Orders(<<Struct("S", <<Plain1("f", <<"long">>)>>), Enum("S", <<"X">>),
                              Struct("R", <<Plain1("s", <<"S">>)>>)>>)}
       \cup {IdlText(<<L, Const("M", SumText(<<Word("L"), IntValue(1)>>))>>, <<"S">>, FALSE)}
       \cup {IdlText(o, <<"S">>, FALSE) :
               o \in UNION {Orders(<<Const("L", StrValue(<<"M">>)), Const("M", v),
                                    Struct("S", <<Plain1("f", <<"long">>)>>)>>) :
                              v \in {IntValue(3), SumText(<<Word("L")>>),
                                    SumText(<<Word("L"), IntValue(1)>>)}}}

\* One name for two declarations of any kinds, in both orders, and what
\* refers to it.
TwiceTexts ==
  LET Twins == {Struct("T", <<Plain1("x", <<"long">>)>>), Enum("T", <<"P">>),
                Typedef("T", Type(<<"double">>), <<<<IntValue(2)>>>>),
                Typedef("T", Sequence(<<"long">>, <<>>), <<>>), Const("T", IntValue(3)),
                Union("T", <<"long">>, <<Plain1("d", <<"short">>)>>),
                [Declaration("module", "T") EXCEPT !.body = <<Const("P", IntValue(4))>>]}
      User(lengths) == Struct("S", <<FieldText("f", Type(<<"T">>), lengths, <<>>)>>)
      Via == Typedef("V", Type(<<"T">>), <<>>)
      Placed(scope, t) == Tree([i \in DOMAIN t |-> <<scope, t[i]>>])
  IN UNION {{IdlText(Placed(scope, t), Append(scope, "T"), TRUE) :
               t \in {<<d, e>>, <<User(<<>>), d, e>>, <<Via, d, e, User(<<<<IntValue(2)>>>>)>>}} :
              d \in Twins, e \in Twins, scope \in {<<>>, <<"m">>}}

-----------------------------------------------------------------------------
(* Unions: switches, enums and constants in the union's module, in one     *)
(* that begins with its letters, in another, or in none.                   *)

UnionTexts ==
  LET On(value) == FieldText("x", Type(<<"E">>), <<>>, <<value>>)
      Default == Plain1("y", <<"N">>)
      Unions == {Union("U", switch, fields) :
                   switch \in {<<"E">>, <<"a", "E">>, <<"octet">>},
                   fields \in {<<On(SumText(<<Word("Y")>>)), Default>>,
                              <<On(IntValue(1)), On(IntValue(7)), Default>>,
                              <<On(SumText(<<Word("X")>>)), On(SumText(<<Word("K")>>))>>}}
      Placed(u, enumAt, constAt, otherAt) ==
        << << <<"a">>, u>>,
           << <<"a">>, Struct("N", <<Plain1("u", <<"U">>), Plain1("e", <<"E">>)>>)>>,
           <<enumAt, Enum("E", <<"X", "Y">>)>>, <<constAt, Const("K", IntValue(1))>>,
           <<otherAt, Enum("F", <<"V", "W">>)>> >>
  IN {IdlText(Tree(Placed(u, enumAt, constAt, otherAt)), wanted, enumAsString) :
        u \in Unions, enumAt \in {<<>>, <<"a">>, <<"b">>}, constAt \in {<<"a">>, <<"b">>},
        otherAt \in {<<"ab">>, <<"b">>}, wanted \in {<<"a", "N">>, <<"a", "U">>},
        enumAsString \in BOOLEAN}

-----------------------------------------------------------------------------
(* Roots: what may come before the type a schema is named after, and what  *)
(* may stand in its place.                                                 *)

RootTexts ==
  LET Time == Struct("Time", <<Plain1("sec", <<"long">>), Plain1("nanosec", <<"unsigned long">>)>>)
      M == <<"builtin_interfaces", "msg">>
      Parts == {<< <<>>, Const("K", IntValue(3))>>, << <<"a">>, Const("L", IntValue(4))>>,
                << <<>>, Union("U", <<"long">>, <<Plain1("d", <<"short">>)>>)>>,
                << <<"a">>, Struct("S", <<Plain1("f", <<"boolean">>)>>)>>,
                << <<>>, Struct("Empty", <<>>)>>, <<M, Time>>}
  IN UNION {UNION {{IdlText(Tree(o), wanted, FALSE) : o \in Orders(SetToSeq(parts))} :
                     parts \in kSubset(n, Parts)} :
              n \in 1..3, wanted \in {<<"a", "S">>, <<"U">>, <<"Empty">>, Append(M, "Time")}}

-----------------------------------------------------------------------------
(* ros2msg: a first block that refers to others, which come in any order.  *)

RosText(blocks, wanted) ==
  [encoding |-> "ros2msg", idl |-> <<>>, ros |-> blocks, wanted |-> wanted,
   enumAsString |-> TRUE]

RosTexts ==
  LET Of1(type, array) ==
        [type |-> type, stringBound |-> FALSE, array |-> array, length |-> 3, name |-> "f",
         constant |-> FALSE, value |-> <<>>]
      Number(value) == [Of1(<<"uint8">>, "no") EXCEPT !.constant = TRUE, !.value = <<value>>]
      Block1(name, lines) == [name |-> name, lines |-> lines]
      First ==
        {Block1(name, lines) : name \in {<<>>, <<"geo", "Msg">>}, lines \in
          {<<Number(1)>>, <<Number(1), Of1(<<"P">>, "fixed")>>, <<Of1(<<"geo", "P">>, "any")>>,
           <<Of1(<<"Header">>, "no"), Of1(<<"char">>, "any")>>, <<Of1(<<"byte">>, "no")>>,
           <<Of1(<<"int32">>, "atMost")>>, <<Of1(<<"wstring">>, "no")>>,
           <<[Of1(<<"string">>, "no") EXCEPT !.stringBound = TRUE]>>,
           <<Of1(<<"builtin_interfaces", "Time">>, "no")>>}}
      Others ==
        {Block1(<<"geo", "P">>, <<Of1(<<"Q">>, "no"), Of1(<<"Header">>, "no")>>),
         Block1(<<"geo", "Q">>, <<Number(2), Of1(<<"float64">>, "fixed")>>),
         Block1(<<"own", "P">>, <<Number(0)>>),
         Block1(<<"std_msgs", "Header">>, <<Of1(<<"builtin_interfaces", "Time">>, "no")>>),
         Block1(<<"builtin_interfaces", "Time">>, <<Of1(<<"int32">>, "no")>>)}
      Behind == UNION {Orders(SetToSeq(o)) : o \in SUBSET Others}
      Twin == Block1(<<"geo", "Q">>, <<Of1(<<"float32">>, "no")>>)
      Doubled == {<<o[1]>> \o o : o \in {b \in Behind : Len(b) = 2}}
                   \cup {<<Twin>> \o o : o \in {b \in Behind : Len(b) = 2}}
  IN {RosText(<<f>> \o b, wanted) :
        f \in First, b \in {o \in Behind : Len(o) \in {0, 1, 3, 5} } \cup Doubled,
        wanted \in {<<"geo", "Msg">>, <<"geo", "P">>}}

-----------------------------------------------------------------------------

MCTexts == ConstantTexts \cup TypeTexts \cup ChainTexts \cup OddTexts \cup TwiceTexts
             \cup UnionTexts \cup RootTexts \cup RosTexts

MCUnknown ==
  {"", "wchar", "byte", "char", "sequence"} \cup {"P", "Q", "Header"}
    \cup {d.name : d \in UNION {Range(t.idl) : t \in MCTexts}}

MCInitials == {<<"a", "ab">>}

=============================================================================
