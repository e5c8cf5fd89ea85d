--------------------------- MODULE MCMessageCodec ---------------------------
(***************************************************************************)
(* Small schemas and the messages that may be given for them.              *)
(***************************************************************************)
EXTENDS MessageCodec, SequencesExt

Prim(kind, count) == [kind |-> kind, target |-> 0, count |-> count, mapped |-> FALSE]
Of(target, count) == [kind |-> "complex", target |-> target, count |-> count, mapped |-> FALSE]
Struct(fields) ==
  [union |-> FALSE, switch |-> "", fields |-> fields, cases |-> <<>>, default |-> <<>>]
Union == [Struct(<<>>) EXCEPT !.union = TRUE, !.switch = "uint8", !.default = <<Prim("int8", -1)>>]

TextOf(c, b) == [is |-> "text", chars |-> c, bytes |-> b]
Listed(is, items) == [is |-> is, items |-> items]
Huge == [is |-> "huge"]

MCPlans ==
  { <<Struct(<<Prim("float64", -2), Prim("uint8", -1), Prim("int16", -1)>>)>>,
    <<Struct(<<Prim("bool", -1), Prim("string", -2), Prim("uint64", 2)>>)>>,
    <<Struct(<<Prim("string", -1), Prim("uint8", -2), Prim("time", 1)>>)>>,
    <<Struct(<<Prim("duration", -2), Prim("uint8", 0), Prim("string", 2)>>)>>,
    <<Struct(<<Of(2, -2), Prim("int64", -1)>>), Struct(<<Prim("string", -1), Of(3, 1)>>),
      Struct(<<>>)>>,
    <<Struct(<<Prim("int8", -1), Of(1, -2)>>)>>,
    <<Struct(<<Of(2, -2), Prim("uint8", -1)>>), Struct(<<Prim("int16", 0)>>)>>,
    <<Struct(<<Prim("wstring", -2), Of(2, -1)>>), Union>>,
    <<Struct(<<Of(2, -1), Prim("uint32", -1)>>), Union>>,
    <<Struct(<<>>)>>,
    <<Struct(<<Of(2, -1), Prim("wchar", -1)>>), Struct(<<Prim("uint32", 2)>>)>>,
    <<Struct(<<Of(2, -1)>>), Struct(<<Of(3, 1)>>), Struct(<<Of(4, -1)>>), Struct(<<>>)>>,
    <<Struct(<<Prim("uint8", -1), Of(1, -1)>>)>>,
    <<Struct(<<Prim("uint8", -3)>>)>> }

\* Enough of the kinds of values for every branch of both walks.
ElementsFor(kind) ==
  CASE kind = "string" -> {TextOf(0, 0), TextOf(1, 2), TextOf(3, 3)}
    [] kind \in TimeKinds -> {None, Zero}
    [] OTHER -> {Zero} \cup IF kind = "int16" THEN {Huge} ELSE {}

RECURSIVE GivenFor(_, _, _)

DictsFor(plans, t, depth) ==
  LET given == [i \in DOMAIN plans[t].fields |-> GivenFor(plans, plans[t].fields[i], depth)]
      members == FoldLeft(LAMBDA ms, vs : {Append(m, v) : m \in ms, v \in vs}, {<<>>}, given)
  IN  IF depth = 0 THEN {None} ELSE {[is |-> "dict", of |-> m] : m \in members}

GivenFor(plans, f, depth) ==
  LET one == IF f.kind = "complex" THEN DictsFor(plans, f.target, depth - 1) ELSE ElementsFor(f.kind)
      some == {<<>>} \cup {<<a>> : a \in one}
      many == {<<a, b>> : a, b \in IF depth = 2 THEN one ELSE {}}
  IN  {None} \cup
      IF f.count = -1 THEN one
      ELSE IF f.count >= 0 THEN {Listed("list", s) : s \in some \cup many}
      ELSE {Listed("list", s) : s \in some \cup many} \cup
           IF f.kind \in NumberKinds
           THEN {Listed("buffer", <<Zero>>), Listed("bytes", <<Zero, Zero>>)}
           ELSE {}

\* A default for the first field, where it is a text or a sequence of numbers.
DefaultsFor(plans) ==
  {<<>>} \cup
  {[at \in {<<1, 1>>} |-> d] : d \in
     IF plans[1].fields = <<>> THEN {}
     ELSE LET f == plans[1].fields[1]
          IN  IF f = Prim("string", -1) THEN {TextOf(2, 2)}
              ELSE IF f.kind \in NumberKinds /\ f.count = -2 THEN {Listed("list", <<Zero>>)}
              ELSE {}}

AllSubjects ==
  UNION { UNION { {[schema |-> [plans |-> plans, root |-> 1, bytes |-> b],
                    defaults |-> defaults, message |-> m] :
                     b \in BOOLEAN, m \in DictsFor(plans, 1, 2)} :
                  defaults \in DefaultsFor(plans) } :
          plans \in MCPlans }

\* The messages, the defaults and all they are made of.
RECURSIVE PartsOf(_)
PartsOf(v) ==
  {v} \cup UNION {PartsOf(p) :
    p \in IF v.is \in {"list", "buffer", "bytes"} THEN {v.items[k] : k \in DOMAIN v.items}
          ELSE IF v.is = "dict" THEN {v.of[i] : i \in DOMAIN v.of} ELSE {}}

AllValues ==
  {None, Zero, EmptyText} \cup
  UNION {PartsOf(su.message) \cup UNION {PartsOf(su.defaults[at]) : at \in DOMAIN su.defaults} :
         su \in AllSubjects}

\* Names for what is evaluated once.
MCSubjects == AllSubjects
MCValues == AllValues

MCWords == {0, 1}
MCNoPayloads == {}

=============================================================================
