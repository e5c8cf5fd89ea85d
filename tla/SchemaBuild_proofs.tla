------------------------- MODULE SchemaBuild_proofs -------------------------
(***************************************************************************)
(* For any definitions: what message_reader.py compiles is well formed,    *)
(* which is where the proofs about the compiled decoder begin, and starts  *)
(* from the definition that the Python reader chose.  It all rests on Rank *)
(* being one to one and onto.                                              *)
(*                                                                         *)
(* For any texts: the types of every pass over a schema, from the words of *)
(* the text to the plans; that the compiled decoder takes the plans of     *)
(* every schema that gets as far as a reader; where its root and the types *)
(* of its fields come from; that constants keep the values that the        *)
(* scoping rules give them, and that those in a circle are refused.        *)
(***************************************************************************)
EXTENDS SchemaMeaning, Recursion_proofs, FiniteSetTheorems, FunctionTheorems

-----------------------------------------------------------------------------
(* Places *)

\* Sets of places in a sequence.
Places(S) == IsFiniteSet(S) /\ S \subseteq Int

\* A rank is a place among the items that are kept.
LEMMA RankRange ==
  ASSUME NEW S, Places(S), NEW i \in S
  PROVE Rank(S, i) \in 1..Cardinality(S)
<1> DEFINE upTo == {j \in S : j <= i}
<1>1. IsFiniteSet(S) /\ i \in Int
  BY DEF Places
<1>2. /\ IsFiniteSet(upTo) /\ Cardinality(upTo) <= Cardinality(S)
      /\ Cardinality(upTo) \in Nat /\ Cardinality(S) \in Nat
  <2>1. upTo \in SUBSET S
    OBVIOUS
  <2> HIDE DEF upTo
  <2>2. IsFiniteSet(upTo) /\ Cardinality(upTo) <= Cardinality(S)
    BY <1>1, <2>1, FS_Subset
  <2> QED BY <1>1, <2>2, FS_CardinalityType
<1>3. i \in upTo
  BY <1>1
<1>4. Rank(S, i) = Cardinality(upTo)
  BY DEF Rank
<1> HIDE DEF upTo
<1>5. Cardinality(upTo) # 0
  BY <1>2, <1>3, FS_EmptySet
<1> QED BY <1>2, <1>4, <1>5

\* Later places have greater ranks.
LEMMA RankIncreases ==
  ASSUME NEW S, Places(S), NEW i \in S, NEW j \in S, i < j
  PROVE Rank(S, i) < Rank(S, j)
<1> DEFINE I == {k \in S : k <= i}
           J == {k \in S : k <= j}
<1>1. IsFiniteSet(S) /\ S \subseteq Int
  BY DEF Places
<1>2. I \subseteq J /\ j \in J /\ j \notin I /\ J \subseteq S
  <2>1. i \in Int /\ j \in Int /\ \A k \in S : k \in Int
    BY <1>1
  <2>2. \A k \in S : k <= i => k <= j
    BY <2>1
  <2>3. j <= j /\ ~(j <= i)
    BY <2>1
  <2> QED BY <2>2, <2>3
<1>3. Rank(S, i) = Cardinality(I) /\ Rank(S, j) = Cardinality(J)
  BY DEF Rank
<1> HIDE DEF I, J
<1>4. IsFiniteSet(J)
  BY <1>1, <1>2, FS_Subset
<1>5. IsFiniteSet(I) /\ Cardinality(I) <= Cardinality(J) /\ (Cardinality(J) = Cardinality(I) => J = I)
  BY <1>2, <1>4, FS_Subset
<1>6. Cardinality(I) \in Nat /\ Cardinality(J) \in Nat
  BY <1>4, <1>5, FS_CardinalityType
<1> QED BY <1>2, <1>3, <1>5, <1>6

LEMMA RankUnique ==
  ASSUME NEW S, Places(S), NEW i \in S, NEW j \in S, Rank(S, i) = Rank(S, j)
  PROVE i = j
<1>1. i \in Int /\ j \in Int
  BY DEF Places
<1>2. Rank(S, i) \in Int /\ Rank(S, j) \in Int
  BY RankRange
<1>3. ~(i < j)
  <2>1. i < j => Rank(S, i) < Rank(S, j)
    BY RankIncreases
  <2> QED BY <1>2, <2>1
<1>4. ~(j < i)
  <2>1. j < i => Rank(S, j) < Rank(S, i)
    BY RankIncreases
  <2> QED BY <1>2, <2>1
<1> QED BY <1>1, <1>3, <1>4

\* Every number up to the size of the set is a rank: Nth finds its item.
LEMMA NthRank ==
  ASSUME NEW S, Places(S), NEW k \in 1..Cardinality(S)
  PROVE Nth(S, k) \in S /\ Rank(S, Nth(S, k)) = k
<1> DEFINE T == 1..Cardinality(S)
           f == [i \in S |-> Rank(S, i)]
<1>1. IsFiniteSet(S) /\ Cardinality(S) \in Nat
  BY FS_CardinalityType DEF Places
<1>2. IsFiniteSet(T) /\ Cardinality(T) = Cardinality(S)
  BY <1>1, FS_Interval
<1>3. f \in [S -> T]
  BY RankRange
<1>4. \A i, j \in S : f[i] = f[j] => i = j
  BY RankUnique
<1>5. \A i \in S : f[i] = Rank(S, i)
  OBVIOUS
<1>6. k \in T
  OBVIOUS
<1> HIDE DEF f, T
<1>7. f \in Injection(S, T)
  BY <1>3, <1>4, Fun_IsInj
<1>8. f \in Surjection(S, T)
  BY <1>2, <1>7, FS_Injection
<1>9. \E i \in S : f[i] = k
  BY <1>6, <1>8, Fun_SurjectionProperties
<1>10. \E i \in S : Rank(S, i) = k
  BY <1>5, <1>9
<1> QED BY <1>10 DEF Nth

LEMMA RankNth ==
  ASSUME NEW S, Places(S), NEW i \in S
  PROVE Nth(S, Rank(S, i)) = i
<1>1. Rank(S, i) \in 1..Cardinality(S)
  BY RankRange
<1>2. Nth(S, Rank(S, i)) \in S /\ Rank(S, Nth(S, Rank(S, i))) = Rank(S, i)
  BY <1>1, NthRank
<1> QED BY <1>2, RankUnique

\* So a set that is not empty has a least and a greatest item.
LEMMA HasLeast ==
  ASSUME NEW S, Places(S), S # {}
  PROVE Least(S) \in S /\ \A j \in S : Least(S) <= j
<1>1. Cardinality(S) \in Nat /\ Cardinality(S) # 0
  BY FS_CardinalityType, FS_EmptySet DEF Places
<1>2. 1 \in 1..Cardinality(S)
  BY <1>1
<1>3. Nth(S, 1) \in S /\ Rank(S, Nth(S, 1)) = 1
  BY <1>2, NthRank
<1>4. ASSUME NEW j \in S PROVE Nth(S, 1) <= j
  <2>1. j \in Int /\ Nth(S, 1) \in Int
    BY <1>3 DEF Places
  <2>2. SUFFICES ASSUME j < Nth(S, 1) PROVE FALSE
    BY <2>1
  <2>3. Rank(S, j) < 1
    BY <1>3, <2>2, RankIncreases
  <2>4. Rank(S, j) \in 1..Cardinality(S)
    BY RankRange
  <2> QED BY <1>1, <2>3, <2>4
<1>5. \E i \in S : \A j \in S : i <= j
  BY <1>3, <1>4
<1> QED BY <1>5 DEF Least

LEMMA HasGreatest ==
  ASSUME NEW S, Places(S), S # {}
  PROVE \E i \in S : \A j \in S : j <= i
<1> DEFINE n == Cardinality(S)
<1>1. n \in Nat /\ n # 0
  BY FS_CardinalityType, FS_EmptySet DEF Places
<1>2. n \in 1..n
  BY <1>1
<1>3. Nth(S, n) \in S /\ Rank(S, Nth(S, n)) = n
  BY <1>2, NthRank
<1>4. ASSUME NEW j \in S PROVE j <= Nth(S, n)
  <2>1. j \in Int /\ Nth(S, n) \in Int
    BY <1>3 DEF Places
  <2>2. SUFFICES ASSUME Nth(S, n) < j PROVE FALSE
    BY <2>1
  <2>3. n < Rank(S, j)
    BY <1>3, <2>2, RankIncreases
  <2>4. Rank(S, j) \in 1..n
    BY RankRange
  <2> HIDE DEF n
  <2> QED BY <1>1, <2>3, <2>4
<1> QED BY <1>3, <1>4

\* Places in a sequence.
LEMMA PlacesInSeq ==
  ASSUME NEW X, NEW s \in Seq(X), NEW S, S \subseteq DOMAIN s
  PROVE Places(S)
<1>1. DOMAIN s = 1..Len(s) /\ Len(s) \in Nat
  OBVIOUS
<1>2. IsFiniteSet(1..Len(s))
  BY <1>1, FS_Interval
<1>3. S \in SUBSET (1..Len(s))
  BY <1>1
<1>4. IsFiniteSet(S)
  BY <1>2, <1>3, FS_Subset
<1> QED BY <1>1, <1>4 DEF Places

-----------------------------------------------------------------------------
(* Names *)

LEMMA FirstsArePlaces ==
  ASSUME NEW ds \in Seq(MessageDefinition)
  PROVE Places(Firsts(ds)) /\ Firsts(ds) \subseteq DOMAIN ds
<1>1. Firsts(ds) \subseteq DOMAIN ds
  BY DEF Firsts
<1> QED BY <1>1, PlacesInSeq

\* Each name has a first definition, whose rank is its index.
LEMMA FirstOfName ==
  ASSUME NEW ds \in Seq(MessageDefinition), NEW name \in NamesOf(ds)
  PROVE LET i == CHOOSE j \in Firsts(ds) : ds[j].name = name
        IN i \in Firsts(ds) /\ ds[i].name = name
<1> DEFINE S == {i \in DOMAIN ds : ds[i].name = name}
<1>1. Places(S)
  BY PlacesInSeq
<1>2. S # {}
  BY DEF NamesOf
<1>3. Least(S) \in S /\ \A j \in S : Least(S) <= j
  <2> HIDE DEF S
  <2> QED BY <1>1, <1>2, HasLeast
<1>4. Least(S) \in Firsts(ds) /\ ds[Least(S)].name = name
  BY <1>3 DEF Firsts
<1> QED BY <1>4

LEMMA IndexInRange ==
  ASSUME NEW ds \in Seq(MessageDefinition), NEW name \in NamesOf(ds)
  PROVE IndexOf(ds, name) \in 1..Cardinality(Firsts(ds))
<1> DEFINE i == CHOOSE j \in Firsts(ds) : ds[j].name = name
<1>1. i \in Firsts(ds)
  BY FirstOfName
<1>2. IndexOf(ds, name) = Rank(Firsts(ds), i)
  BY DEF IndexOf
<1> HIDE DEF i
<1> QED BY <1>1, <1>2, FirstsArePlaces, RankRange

\* The plan at the index of a name is made from the name's definition.
LEMMA IndexFindsName ==
  ASSUME NEW ds \in Seq(MessageDefinition), NEW name \in NamesOf(ds)
  PROVE ds[Nth(Firsts(ds), IndexOf(ds, name))].name = name
<1> DEFINE i == CHOOSE j \in Firsts(ds) : ds[j].name = name
<1>1. i \in Firsts(ds) /\ ds[i].name = name
  BY FirstOfName
<1>2. IndexOf(ds, name) = Rank(Firsts(ds), i)
  BY DEF IndexOf
<1> HIDE DEF i
<1>3. Nth(Firsts(ds), Rank(Firsts(ds), i)) = i
  BY <1>1, FirstsArePlaces, RankNth
<1> QED BY <1>1, <1>2, <1>3

\* A name stands for a definition that has it.
LEMMA NamedHasName ==
  ASSUME NEW ds \in Seq(MessageDefinition), NEW name \in NamesOf(ds)
  PROVE \E i \in DOMAIN ds : Named(ds, name) = ds[i] /\ ds[i].name = name
<1> DEFINE S == {i \in DOMAIN ds : ds[i].name = name}
<1>1. Places(S)
  BY PlacesInSeq
<1>2. S # {}
  BY DEF NamesOf
<1>3. \E i \in S : \A j \in S : j <= i
  <2> HIDE DEF S
  <2> QED BY <1>1, <1>2, HasGreatest
<1>4. \E i \in DOMAIN ds :
        ds[i].name = name /\ \A j \in DOMAIN ds : ds[j].name = name => j <= i
  BY <1>3
<1> QED BY <1>4 DEF Named

-----------------------------------------------------------------------------
(* Plans *)

\* All fields of a definition's plan are plans of fields that it has.
LEMMA PlannedFields ==
  ASSUME NEW ds, NEW d \in MessageDefinition, NEW enumAsString,
         NEW f \in Targets(PlanOf(ds, d, enumAsString))
  PROVE \E g \in Planned(d) : f = FieldPlan(ds, g, enumAsString)
<1> DEFINE p == PlanOf(ds, d, enumAsString)
           D == DataFields(d)
<1>1. /\ p.fields = [k \in 1..Cardinality(D) |->
                       FieldPlan(ds, d.definitions[Nth(D, k)], enumAsString)]
      /\ p.cases = [k \in DOMAIN d.cases |->
                      [values |-> d.cases[k].predicates,
                       field |-> FieldPlan(ds, d.cases[k].type, enumAsString)]]
      /\ p.default = [k \in DOMAIN d.defaultCase |->
                        FieldPlan(ds, d.defaultCase[k], enumAsString)]
  BY DEF PlanOf
<1>2. \/ \E k \in DOMAIN p.fields : f = p.fields[k]
      \/ \E k \in DOMAIN p.cases : f = p.cases[k].field
      \/ \E k \in DOMAIN p.default : f = p.default[k]
  BY DEF Targets
<1> HIDE DEF p
<1>3. CASE \E k \in DOMAIN p.fields : f = p.fields[k]
  <2>1. PICK k \in 1..Cardinality(D) :
          f = FieldPlan(ds, d.definitions[Nth(D, k)], enumAsString)
    BY <1>1, <1>3
  <2>2. Places(D)
    <3>1. d.definitions \in Seq(MessageDefinitionField) /\ D \subseteq DOMAIN d.definitions
      BY DEF MessageDefinition, DataFields
    <3> HIDE DEF D
    <3> QED BY <3>1, PlacesInSeq
  <2>3. Nth(D, k) \in D
    <3> HIDE DEF D
    <3> QED BY <2>2, NthRank
  <2>4. d.definitions[Nth(D, k)] \in Planned(d)
    BY <2>3 DEF Planned
  <2> QED BY <2>1, <2>4
<1>4. CASE \E k \in DOMAIN p.cases : f = p.cases[k].field
  <2>1. PICK k \in DOMAIN d.cases : f = FieldPlan(ds, d.cases[k].type, enumAsString)
    BY <1>1, <1>4
  <2> QED BY <2>1 DEF Planned
<1>5. CASE \E k \in DOMAIN p.default : f = p.default[k]
  <2>1. PICK k \in DOMAIN d.defaultCase : f = FieldPlan(ds, d.defaultCase[k], enumAsString)
    BY <1>1, <1>5
  <2> QED BY <2>1 DEF Planned
<1> QED BY <1>2, <1>3, <1>4, <1>5

\* MessageReader starts with one of the definitions.
LEMMA RootIsDefined ==
  ASSUME NEW ds \in Seq(MessageDefinition), NEW wanted, Data(ds) # {}
  PROVE \E i \in DOMAIN ds : PythonRoot(ds, wanted) = ds[i]
<1>1. ASSUME NEW S, S \subseteq DOMAIN ds, S # {} PROVE Least(S) \in DOMAIN ds
  <2>1. Places(S)
    BY <1>1, PlacesInSeq
  <2> QED BY <1>1, <2>1, HasLeast
<1>2. /\ Data(ds) \subseteq DOMAIN ds /\ Structs(ds) \subseteq DOMAIN ds
      /\ Wanted(ds, wanted) \subseteq DOMAIN ds
  BY DEF Data, Structs, Wanted
<1>3. CASE Wanted(ds, wanted) # {}
  BY <1>1, <1>2, <1>3 DEF PythonRoot
<1>4. CASE Wanted(ds, wanted) = {} /\ Structs(ds) # {}
  BY <1>1, <1>2, <1>4 DEF PythonRoot
<1>5. CASE Wanted(ds, wanted) = {} /\ Structs(ds) = {}
  BY <1>1, <1>2, <1>5 DEF PythonRoot
<1> QED BY <1>3, <1>4, <1>5

\* Decoder::new refuses nothing that message_reader.py compiles, whatever
\* definitions the parsers made: the root is a plan, and so is the target of
\* every complex field, the default cases of unions included, also where
\* several definitions have one name.
THEOREM CompiledIsWellFormed ==
  ASSUME NEW ds \in Seq(MessageDefinition), NEW wanted, NEW enumAsString, NEW bytes,
         Compiles(ds)
  PROVE WellFormed(Compiled(ds, wanted, enumAsString, bytes))
<1> DEFINE n == Cardinality(Firsts(ds))
           Made(k) == Named(ds, ds[Nth(Firsts(ds), k)].name)
           s == Compiled(ds, wanted, enumAsString, bytes)
<1>1. /\ s.plans = [k \in 1..n |-> PlanOf(ds, Made(k), enumAsString)]
      /\ s.root = IndexOf(ds, PythonRoot(ds, wanted).name)
  BY DEF Compiled
<1>2. Data(ds) # {} /\ Dangling(ds) = {}
  BY DEF Compiles
<1>3. s.root \in 1..n
  <2>1. PICK i \in DOMAIN ds : PythonRoot(ds, wanted) = ds[i]
    BY <1>2, RootIsDefined
  <2>2. PythonRoot(ds, wanted).name \in NamesOf(ds)
    BY <2>1 DEF NamesOf
  <2> HIDE DEF s
  <2> QED BY <1>1, <2>2, IndexInRange
<1>4. 1 \in 1..n
  <2>1. n \in Nat
    BY FirstsArePlaces, FS_CardinalityType DEF Places
  <2> HIDE DEF s, n
  <2> QED BY <1>3, <2>1
<1>5. ASSUME NEW k \in 1..n, NEW f \in Targets(PlanOf(ds, Made(k), enumAsString)),
             f.kind = "complex"
      PROVE f.target \in 1..n
  <2> DEFINE name == ds[Nth(Firsts(ds), k)].name
             d == Named(ds, name)
  <2>1. Nth(Firsts(ds), k) \in DOMAIN ds
    BY FirstsArePlaces, NthRank
  <2>2. name \in NamesOf(ds)
    BY <2>1 DEF NamesOf
  <2> HIDE DEF name
  <2>3. d \in MessageDefinition
    <3>1. PICK i \in DOMAIN ds : d = ds[i]
      BY <2>2, NamedHasName
    <3> HIDE DEF d
    <3> QED BY <3>1
  <2>4. f \in Targets(PlanOf(ds, d, enumAsString))
    BY <1>5 DEF name
  <2> HIDE DEF d
  <2>5. PICK g \in Planned(d) : f = FieldPlan(ds, g, enumAsString)
    BY <2>3, <2>4, PlannedFields
  <2>6. f.target = IF g.isComplex THEN IndexOf(ds, g.type) ELSE 1
    BY <2>5 DEF FieldPlan
  <2>7. g.isComplex => g.type \in NamesOf(ds)
    <3>1. g \in UNION {Planned(Named(ds, m)) : m \in NamesOf(ds)}
      BY <2>2, <2>5 DEF d
    <3> QED BY <1>2, <3>1 DEF Dangling
  <2>8. g.isComplex => IndexOf(ds, g.type) \in 1..n
    BY <2>7, IndexInRange
  <2> QED BY <1>4, <2>6, <2>8
<1>6. DOMAIN s.plans = 1..n
  BY <1>1
<1>7. \A k \in 1..n : s.plans[k] = PlanOf(ds, Made(k), enumAsString)
  BY <1>1
<1> HIDE DEF s, n, Made
<1>8. WellFormed(s)
  BY <1>3, <1>5, <1>6, <1>7 DEF WellFormed
<1> QED BY <1>8 DEF s

\* Where no two definitions share a name, the decoder's root is the plan of
\* the very definition the Python reader starts with, although it is looked
\* up by its name among plans that are numbered otherwise.
THEOREM RootIsThePythonRoot ==
  ASSUME NEW ds \in Seq(MessageDefinition), NEW wanted, NEW enumAsString, NEW bytes,
         Compiles(ds),
         \A i, j \in DOMAIN ds : ds[i].name = ds[j].name => i = j
  PROVE LET s == Compiled(ds, wanted, enumAsString, bytes)
        IN s.plans[s.root] = PlanOf(ds, PythonRoot(ds, wanted), enumAsString)
<1> DEFINE n == Cardinality(Firsts(ds))
           root == PythonRoot(ds, wanted)
           index == IndexOf(ds, root.name)
           s == Compiled(ds, wanted, enumAsString, bytes)
<1>1. PICK i \in DOMAIN ds : root = ds[i]
  BY RootIsDefined DEF Compiles
<1>2. root.name \in NamesOf(ds)
  BY <1>1 DEF NamesOf
<1>3. index \in 1..n
  BY <1>2, IndexInRange
<1>4. ds[Nth(Firsts(ds), index)].name = root.name
  BY <1>2, IndexFindsName
<1>5. Named(ds, root.name) = root
  <2>1. PICK j \in DOMAIN ds : Named(ds, root.name) = ds[j] /\ ds[j].name = root.name
    BY <1>2, NamedHasName
  <2>2. i = j
    BY <1>1, <2>1
  <2> QED BY <1>1, <2>1, <2>2
<1>6. s.root = index
  BY DEF Compiled
<1>7. s.plans = [k \in 1..n |->
                  PlanOf(ds, Named(ds, ds[Nth(Firsts(ds), k)].name), enumAsString)]
  BY DEF Compiled
<1>8. s.plans[index] = PlanOf(ds, Named(ds, ds[Nth(Firsts(ds), index)].name), enumAsString)
  BY <1>3, <1>7
<1>9. s.plans[s.root] = PlanOf(ds, root, enumAsString)
  BY <1>4, <1>5, <1>6, <1>8
<1> QED BY <1>9

\* The plan at the index of a name is that of the definition the name stands for,
\* the last of those that have it, as in the dictionaries of the Python reader.
LEMMA PlanOfName ==
  ASSUME NEW ds \in Seq(MessageDefinition), NEW wanted, NEW enumAsString, NEW bytes,
         NEW name \in NamesOf(ds)
  PROVE LET s == Compiled(ds, wanted, enumAsString, bytes)
        IN s.plans[IndexOf(ds, name)] = PlanOf(ds, Named(ds, name), enumAsString)
<1> DEFINE n == Cardinality(Firsts(ds))
           s == Compiled(ds, wanted, enumAsString, bytes)
           index == IndexOf(ds, name)
<1>1. s.plans = [k \in 1..n |->
                  PlanOf(ds, Named(ds, ds[Nth(Firsts(ds), k)].name), enumAsString)]
  BY DEF Compiled
<1>2. index \in 1..n
  BY IndexInRange
<1>3. ds[Nth(Firsts(ds), index)].name = name
  BY IndexFindsName
<1> HIDE DEF index, s, n
<1>4. s.plans[index] = PlanOf(ds, Named(ds, name), enumAsString)
  BY <1>1, <1>2, <1>3
<1> QED BY <1>4 DEF s, index

\* What the decoder reads for a field of a definition's plan, wherever the
\* definitions stand and however their plans are numbered: a complex field goes
\* to the plan of the definition that the type of the field names
\* (message_reader.py looks its index up by the name of the type), and every
\* planned field is one that the definition has.
THEOREM FieldsGoToTheirTypes ==
  ASSUME NEW ds \in Seq(MessageDefinition), NEW wanted, NEW enumAsString, NEW bytes,
         Compiles(ds), NEW name \in NamesOf(ds)
  PROVE LET s == Compiled(ds, wanted, enumAsString, bytes)
            d == Named(ds, name)
        IN \A f \in Targets(s.plans[IndexOf(ds, name)]) :
             \E g \in Planned(d) :
               /\ f = FieldPlan(ds, g, enumAsString)
               /\ g.isComplex =>
                    /\ Named(ds, g.type).name = g.type
                    /\ s.plans[f.target] = PlanOf(ds, Named(ds, g.type), enumAsString)
<1> DEFINE s == Compiled(ds, wanted, enumAsString, bytes)
           d == Named(ds, name)
<1>1. s.plans[IndexOf(ds, name)] = PlanOf(ds, d, enumAsString)
  BY PlanOfName
<1>2. d \in MessageDefinition
  <2>1. PICK i \in DOMAIN ds : d = ds[i]
    BY NamedHasName
  <2> HIDE DEF d
  <2> QED BY <2>1
<1>3. ASSUME NEW g \in Planned(d), g.isComplex
      PROVE /\ Named(ds, g.type).name = g.type
            /\ s.plans[FieldPlan(ds, g, enumAsString).target]
                 = PlanOf(ds, Named(ds, g.type), enumAsString)
  <2>1. g.type \in NamesOf(ds)
    <3>1. g \in UNION {Planned(Named(ds, m)) : m \in NamesOf(ds)}
      BY <1>3
    <3> QED BY <1>3, <3>1 DEF Compiles, Dangling
  <2>2. FieldPlan(ds, g, enumAsString).target = IndexOf(ds, g.type)
    BY <1>3 DEF FieldPlan
  <2>3. Named(ds, g.type).name = g.type
    BY <2>1, NamedHasName
  <2>4. s.plans[IndexOf(ds, g.type)] = PlanOf(ds, Named(ds, g.type), enumAsString)
    BY <2>1, PlanOfName
  <2> QED BY <2>2, <2>3, <2>4
<1> HIDE DEF s, d
<1>4. ASSUME NEW f \in Targets(s.plans[IndexOf(ds, name)])
      PROVE \E g \in Planned(d) :
              /\ f = FieldPlan(ds, g, enumAsString)
              /\ g.isComplex =>
                   /\ Named(ds, g.type).name = g.type
                   /\ s.plans[f.target] = PlanOf(ds, Named(ds, g.type), enumAsString)
  <2>1. PICK g \in Planned(d) : f = FieldPlan(ds, g, enumAsString)
    BY <1>1, <1>2, <1>4, PlannedFields
  <2> QED BY <1>3, <2>1
<1> QED BY <1>4 DEF s, d

-----------------------------------------------------------------------------
(* Sequences *)

LEMMA KeptType ==
  ASSUME NEW X, NEW s \in Seq(X), NEW S, S \subseteq DOMAIN s
  PROVE  /\ Kept(s, S) \in Seq(X) /\ Len(Kept(s, S)) = Cardinality(S)
         /\ Kept(s, S) = <<>> <=> S = {}
         /\ \A k \in 1..Cardinality(S) : Nth(S, k) \in S /\ Kept(s, S)[k] = s[Nth(S, k)]
<1>1. Places(S)
  BY PlacesInSeq
<1>2. Cardinality(S) \in Nat /\ (Cardinality(S) = 0 <=> S = {})
  BY <1>1, FS_CardinalityType, FS_EmptySet DEF Places
<1>3. \A k \in 1..Cardinality(S) : Nth(S, k) \in S
  BY <1>1, NthRank
<1>4. \A k \in 1..Cardinality(S) : s[Nth(S, k)] \in X
  BY <1>3
<1>5. Kept(s, S) \in [1..Cardinality(S) -> X]
  BY <1>4 DEF Kept
<1>6. Kept(s, S) \in Seq(X) /\ Len(Kept(s, S)) = Cardinality(S)
  BY <1>2, <1>5
<1>7. \A k \in 1..Cardinality(S) : Kept(s, S)[k] = s[Nth(S, k)]
  BY DEF Kept
<1> QED
  BY <1>2, <1>3, <1>6, <1>7

\* What is flattened is put together one sequence after the other.
LEMMA FlattenSteps ==
  ASSUME NEW X, NEW ss \in Seq(Seq(X)), Len(ss) # 0
  PROVE  \E f : /\ f \in [1..Len(ss) -> Seq(X)] /\ f[1] = ss[1] /\ FlattenSeq(ss) = f[Len(ss)]
                /\ \A i \in 1..Len(ss) : i # 1 => f[i] = f[i - 1] \o ss[i]
<1> DEFINE n == Len(ss)
           F == [p \in Nat \X Seq(X) |->
                   IF p[1] + 2 \in 1..n THEN p[2] \o ss[p[1] + 2] ELSE p[2]]
<1>1. n \in Nat /\ n > 0 /\ \A i \in 1..n : ss[i] \in Seq(X)
  OBVIOUS
<1> HIDE DEF n
<1>2. ASSUME NEW p \in Nat \X Seq(X)
      PROVE  (IF p[1] + 2 \in 1..n THEN p[2] \o ss[p[1] + 2] ELSE p[2]) \in Seq(X)
  <2>1. p[2] \in Seq(X)
    OBVIOUS
  <2>2. CASE p[1] + 2 \in 1..n
    <3>1. ss[p[1] + 2] \in Seq(X)
      BY <1>1, <2>2
    <3>2. p[2] \o ss[p[1] + 2] \in Seq(X)
      BY <2>1, <3>1
    <3> QED
      BY <2>2, <3>2
  <2>3. CASE p[1] + 2 \notin 1..n
    BY <2>1, <2>3
  <2> QED
    BY <2>2, <2>3
<1>3. F \in [Nat \X Seq(X) -> Seq(X)]
  BY <1>2
<1>4. \A i \in Nat, s \in Seq(X) : i + 2 \in 1..n => F[<<i, s>>] = s \o ss[i + 2]
  OBVIOUS
<1>5. ss[1] \in Seq(X)
  BY <1>1
<1> HIDE DEF F
<1>6. PICK g : Recursive(g, Seq(X), ss[1], F)
  BY <1>3, <1>5, Recursion
<1> DEFINE f == [i \in 1..n |-> g[i - 1]]
           Step(h, i) == IF i = 1 THEN ss[i] ELSE h[i - 1] \o ss[i]
           flatten == CHOOSE h : h = [i \in 1..n |-> Step(h, i)]
<1>7. ASSUME NEW i \in 1..n PROVE f[i] = Step(f, i)
  <2>1. CASE i = 1
    BY <1>6, <2>1 DEF Recursive
  <2>2. CASE i # 1
    <3>1. i - 2 \in Nat /\ i - 1 \in 1..n /\ (i - 2) + 1 = i - 1 /\ (i - 2) + 2 = i
      BY <1>1, <2>2
    <3>2. f[i] = g[i - 1] /\ f[i - 1] = g[i - 2]
      BY <3>1
    <3>3. g[i - 1] = F[<<i - 2, g[i - 2]>>]
      BY <1>6, <3>1 DEF Recursive
    <3>4. F[<<i - 2, g[i - 2]>>] = g[i - 2] \o ss[i]
      BY <1>4, <1>6, <3>1 DEF Recursive
    <3> HIDE DEF f
    <3> QED
      BY <2>2, <3>2, <3>3, <3>4
  <2> QED
    BY <2>1, <2>2
<1>8. f = [i \in 1..n |-> Step(f, i)]
  BY <1>7
<1> HIDE DEF f
<1>9. flatten = [i \in 1..n |-> Step(flatten, i)]
  BY <1>8
<1>10. FlattenSeq(ss) = flatten[n]
  BY DEF FlattenSeq, n
<1> HIDE DEF flatten
<1> DEFINE T == {i \in Nat : i + 1 \in 1..n => flatten[i + 1] \in Seq(X)}
<1>11. 0 \in T
  BY <1>1, <1>5, <1>9
<1>12. ASSUME NEW i \in 1..n, i # 1 PROVE flatten[i] = flatten[i - 1] \o ss[i]
  <2>1. flatten[i] = Step(flatten, i)
    BY <1>9
  <2> QED
    BY <1>12, <2>1
<1>13. ASSUME NEW i \in Nat, i \in T PROVE i + 1 \in T
  <2> SUFFICES ASSUME i + 2 \in 1..n PROVE flatten[i + 2] \in Seq(X)
    OBVIOUS
  <2>1. flatten[i + 1] \in Seq(X) /\ ss[i + 2] \in Seq(X)
    BY <1>1, <1>13
  <2>2. (i + 2) - 1 = i + 1 /\ i + 2 # 1
    OBVIOUS
  <2>3. flatten[i + 2] = flatten[i + 1] \o ss[i + 2]
    BY <1>12, <2>2
  <2> QED
    BY <2>1, <2>3
<1> HIDE DEF T
<1>14. \A i \in 1..n : flatten[i] \in Seq(X)
  <2>1. Nat \subseteq T
    BY <1>11, <1>13, Induct
  <2>2. \A i \in 1..n : i - 1 \in Nat /\ (i - 1) + 1 = i
    BY <1>1
  <2> QED
    BY <2>1, <2>2 DEF T
<1>15. flatten \in [1..n -> Seq(X)]
  BY <1>9, <1>14
<1>16. flatten[1] = ss[1]
  BY <1>1, <1>9
<1> QED
  BY <1>10, <1>12, <1>15, <1>16 DEF n

LEMMA FlattenType ==
  ASSUME NEW X, NEW ss \in Seq(Seq(X))
  PROVE  FlattenSeq(ss) \in Seq(X)
<1>1. CASE Len(ss) = 0
  BY <1>1 DEF FlattenSeq
<1>2. CASE Len(ss) # 0
  <2>1. PICK f : f \in [1..Len(ss) -> Seq(X)] /\ FlattenSeq(ss) = f[Len(ss)]
    BY <1>2, FlattenSteps
  <2>2. Len(ss) \in 1..Len(ss)
    BY <1>2
  <2> QED
    BY <2>1, <2>2
<1> QED
  BY <1>1, <1>2

\* A sum is made by adding one value after the other.
LEMMA SumSteps ==
  ASSUME NEW values \in Seq(NumberValue)
  PROVE  \E f : /\ f \in [0..Len(values) -> Int] /\ f[0] = 0
                /\ Sum(values) = IntValue(f[Len(values)])
                /\ \A i \in 1..Len(values) : f[i] = f[i - 1] + values[i].int
<1> DEFINE n == Len(values)
           F == [p \in Nat \X Int |-> IF p[1] + 1 \in 1..n THEN p[2] + values[p[1] + 1].int ELSE p[2]]
<1>1. n \in Nat /\ \A i \in 1..n : values[i].int \in Int
  <2>1. n \in Nat /\ \A i \in 1..n : values[i] \in NumberValue
    OBVIOUS
  <2>2. \A v \in NumberValue : v.int \in Int
    BY DEF NumberValue
  <2> QED
    BY <2>1, <2>2
<1> HIDE DEF n
<1>2. F \in [Nat \X Int -> Int]
  BY <1>1
<1>3. \A i \in Nat, s \in Int : i + 1 \in 1..n => F[<<i, s>>] = s + values[i + 1].int
  OBVIOUS
<1> HIDE DEF F
<1>4. PICK g : Recursive(g, Int, 0, F)
  <2>1. 0 \in Int
    OBVIOUS
  <2> QED
    BY <1>2, <2>1, Recursion
<1> DEFINE f == [i \in 0..n |-> g[i]]
           Step(h, i) == IF i = 0 THEN 0 ELSE h[i - 1] + values[i].int
           sum == CHOOSE h : h = [i \in 0..n |-> Step(h, i)]
<1>5. ASSUME NEW i \in 0..n PROVE f[i] = Step(f, i)
  <2>1. CASE i = 0
    BY <1>4, <2>1 DEF Recursive
  <2>2. CASE i # 0
    <3>1. i - 1 \in Nat /\ i - 1 \in 0..n /\ (i - 1) + 1 = i /\ i \in 1..n
      BY <1>1, <2>2
    <3>2. f[i] = g[i] /\ f[i - 1] = g[i - 1]
      BY <3>1
    <3>3. g[i] = F[<<i - 1, g[i - 1]>>]
      BY <1>4, <3>1 DEF Recursive
    <3>4. F[<<i - 1, g[i - 1]>>] = g[i - 1] + values[i].int
      BY <1>3, <1>4, <3>1 DEF Recursive
    <3> HIDE DEF f
    <3> QED
      BY <2>2, <3>2, <3>3, <3>4
  <2> QED
    BY <2>1, <2>2
<1>6. f = [i \in 0..n |-> Step(f, i)]
  BY <1>5
<1> HIDE DEF f
<1>7. sum = [i \in 0..n |-> Step(sum, i)]
  BY <1>6
<1>8. Sum(values) = IntValue(sum[n])
  BY DEF Sum, n
<1> HIDE DEF sum
<1>9. ASSUME NEW i \in 1..n PROVE sum[i] = sum[i - 1] + values[i].int
  <2>1. i \in 0..n /\ i # 0
    BY <1>1
  <2>2. sum[i] = Step(sum, i)
    BY <1>7, <2>1
  <2> QED
    BY <2>1, <2>2
<1>10. sum[0] = 0
  BY <1>1, <1>7
<1> DEFINE T == {i \in Nat : i \in 0..n => sum[i] \in Int}
<1>11. 0 \in T
  BY <1>10
<1>12. ASSUME NEW i \in Nat, i \in T PROVE i + 1 \in T
  <2> SUFFICES ASSUME i + 1 \in 0..n PROVE sum[i + 1] \in Int
    OBVIOUS
  <2>1. sum[i] \in Int /\ values[i + 1].int \in Int /\ i + 1 \in 1..n /\ (i + 1) - 1 = i
    BY <1>1, <1>12
  <2>2. sum[i + 1] = sum[i] + values[i + 1].int
    BY <1>9, <2>1
  <2> QED
    BY <2>1, <2>2
<1> HIDE DEF T
<1>13. \A i \in 0..n : sum[i] \in Int
  <2>1. Nat \subseteq T
    BY <1>11, <1>12, Induct
  <2> QED
    BY <1>1, <2>1 DEF T
<1>14. sum \in [0..n -> Int]
  BY <1>7, <1>13
<1> QED
  BY <1>8, <1>9, <1>10, <1>14 DEF n

LEMMA SumType ==
  ASSUME NEW values \in Seq(NumberValue)
  PROVE  Sum(values) \in NumberValue
<1>1. PICK f : f \in [0..Len(values) -> Int] /\ Sum(values) = IntValue(f[Len(values)])
  BY SumSteps
<1>2. Len(values) \in 0..Len(values)
  OBVIOUS
<1> QED
  BY <1>1, <1>2 DEF IntValue, NumberValue

\* A name that is in a sequence stands for an item that has it.
LEMMA NamedIn ==
  ASSUME NEW X, NEW s \in Seq(X), NEW i \in DOMAIN s
  PROVE  \E j \in DOMAIN s : Named(s, s[i].name) = s[j] /\ s[j].name = s[i].name
<1> DEFINE S == {j \in DOMAIN s : s[j].name = s[i].name}
<1>1. Places(S) /\ S # {}
  BY PlacesInSeq
<1>2. PICK j \in S : \A k \in S : k <= j
  BY <1>1, HasGreatest
<1> QED
  BY <1>2 DEF Named

\* A dictionary has every name once.
NamesUnique(s) == \A i, j \in DOMAIN s : s[i].name = s[j].name => i = j

LEMMA ByNameType ==
  ASSUME NEW X, NEW s \in Seq(X)
  PROVE  /\ ByName(s) \in Seq(X)
         /\ s # <<>> => ByName(s) # <<>>
         /\ NamesUnique(ByName(s))
<1> DEFINE F == Firsts(s)
           item(k) == Named(s, s[Nth(F, k)].name)
<1>1. F \subseteq DOMAIN s /\ Places(F)
  BY PlacesInSeq DEF Firsts
<1>2. Cardinality(F) \in Nat /\ (Cardinality(F) = 0 <=> F = {})
  BY <1>1, FS_CardinalityType, FS_EmptySet DEF Places
<1>3. ASSUME NEW k \in 1..Cardinality(F)
      PROVE  Nth(F, k) \in F /\ item(k) \in X /\ item(k).name = s[Nth(F, k)].name
  <2>1. Nth(F, k) \in F
    BY <1>1, NthRank
  <2>2. Nth(F, k) \in DOMAIN s
    BY <1>1, <2>1
  <2>3. \E j \in DOMAIN s : item(k) = s[j] /\ s[j].name = s[Nth(F, k)].name
    BY <2>2, NamedIn
  <2> QED
    BY <2>1, <2>3
<1>4. ByName(s) = [k \in 1..Cardinality(F) |-> item(k)]
  BY DEF ByName
<1> HIDE DEF item
<1>5. ByName(s) \in [1..Cardinality(F) -> X]
  BY <1>3, <1>4
<1>6. ByName(s) \in Seq(X) /\ DOMAIN ByName(s) = 1..Cardinality(F)
  BY <1>2, <1>5
<1>7. s # <<>> => ByName(s) # <<>>
  <2> SUFFICES ASSUME s # <<>> PROVE ByName(s) # <<>>
    OBVIOUS
  <2>1. 1 \in DOMAIN s /\ \A j \in DOMAIN s : 1 <= j
    OBVIOUS
  <2>2. 1 \in F
    BY <2>1 DEF Firsts
  <2>3. 1 \in DOMAIN ByName(s)
    BY <1>2, <1>6, <2>2
  <2> QED
    BY <2>3
<1>8. ASSUME NEW i \in 1..Cardinality(F), NEW j \in 1..Cardinality(F),
             ByName(s)[i].name = ByName(s)[j].name
      PROVE  i = j
  <2>1. s[Nth(F, i)].name = s[Nth(F, j)].name
    BY <1>3, <1>4, <1>8
  <2>2. Nth(F, i) \in F /\ Nth(F, j) \in F
    BY <1>3
  <2>3. Nth(F, i) = Nth(F, j)
    <3>1. Nth(F, i) <= Nth(F, j) /\ Nth(F, j) <= Nth(F, i)
      BY <2>1, <2>2 DEF Firsts
    <3>2. Nth(F, i) \in Int /\ Nth(F, j) \in Int
      BY <1>1, <2>2 DEF Places
    <3> QED
      BY <3>1, <3>2
  <2>4. Rank(F, Nth(F, i)) = i /\ Rank(F, Nth(F, j)) = j
    BY <1>1, NthRank
  <2> QED
    BY <2>3, <2>4
<1> QED
  BY <1>6, <1>7, <1>8 DEF NamesUnique

-----------------------------------------------------------------------------
(* Values *)

Causes == {"not numeric", "length", "unknown", "circular"}

FailureValue == [tag : {"failure"}, cause : Causes]

\* The table of constants.
Table(table) ==
  /\ table \in [DOMAIN table -> Value]
  /\ DOMAIN table \subseteq Name /\ IsFiniteSet(DOMAIN table)

LEMMA ValueTags ==
  ASSUME NEW v \in Value
  PROVE  /\ v.tag \in {"int", "str", "list"}
         /\ v.tag = "int" => v \in NumberValue
         /\ v.tag = "str" => v \in Atom /\ v.str \in Name
         /\ v.tag = "list" => v.items \in Seq(Atom)
         /\ v.tag # "list" => v \in Atom
BY DEF Value, Atom, NumberValue

LEMMA AtomTags ==
  ASSUME NEW v \in Atom
  PROVE  /\ v \in Value
         /\ v.tag \in {"int", "str"}
         /\ v.tag = "int" => v \in NumberValue
         /\ v.tag = "str" => v.str \in Name
BY DEF Value, Atom, NumberValue

LEMMA FailureType ==
  /\ \A c \in Causes : Failure(c) \in FailureValue
  /\ \A v \in FailureValue : IsFailure(v)
  /\ \A v \in Value : ~IsFailure(v)
  /\ \A v \in NumberValue : ~IsFailure(v) /\ v \in Value /\ v \in Atom /\ v.int \in Int
<1>1. \A c \in Causes : Failure(c) \in FailureValue
  BY DEF Failure, FailureValue
<1>2. \A v \in FailureValue : IsFailure(v)
  BY DEF IsFailure, FailureValue
<1>3. \A v \in Value : ~IsFailure(v)
  BY ValueTags DEF IsFailure
<1>4. \A v \in NumberValue : v \in Value /\ v \in Atom /\ v.int \in Int
  BY DEF NumberValue, Atom, Value
<1> QED
  BY <1>1, <1>2, <1>3, <1>4

LEMMA ItemsOfType ==
  ASSUME NEW v \in Value
  PROVE  ItemsOf(v) \in Seq(Atom)
<1>1. CASE v.tag = "list"
  BY <1>1, ValueTags DEF ItemsOf
<1>2. CASE v.tag # "list"
  <2>1. v \in Atom
    BY <1>2, ValueTags
  <2>2. <<v>> \in Seq(Atom)
    BY <2>1
  <2> QED
    BY <1>2, <2>2 DEF ItemsOf
<1> QED
  BY <1>1, <1>2

LEMMA ListValueType ==
  ASSUME NEW values \in Seq(Value)
  PROVE  ListValue(values) \in Value
<1> DEFINE items == [i \in DOMAIN values |-> ItemsOf(values[i])]
<1>1. \A i \in 1..Len(values) : ItemsOf(values[i]) \in Seq(Atom)
  BY ItemsOfType
<1>2. items \in [1..Len(values) -> Seq(Atom)] /\ Len(values) \in Nat
  BY <1>1
<1>3. items \in Seq(Seq(Atom))
  BY <1>2
<1>4. FlattenSeq(items) \in Seq(Atom)
  BY <1>3, FlattenType
<1> QED
  BY <1>4 DEF ListValue, Value

LEMMA LookedType ==
  ASSUME NEW table, Table(table), NEW item \in Atom
  PROVE  Looked(table, item) \in Value
BY AtomTags DEF Looked, Table

LEMMA SumTextType ==
  ASSUME NEW table, Table(table), NEW items \in Seq(Atom)
  PROVE  const_sum(table, items) \in Value \cup FailureValue
<1> DEFINE values == [i \in DOMAIN items |-> Looked(table, items[i])]
           deferred ==
             \E i \in DOMAIN items :
               items[i].tag = "str" /\ (items[i].str \notin DOMAIN table \/ values[i].tag = "list")
           numeric == \A i \in DOMAIN values : values[i].tag = "int"
<1>1. values = [i \in DOMAIN values |-> values[i]] /\ \A i \in 1..Len(items) : values[i] \in Value
  BY LookedType
<1>2. Len(items) \in Nat /\ DOMAIN items = 1..Len(items)
  OBVIOUS
<1>3. values \in Seq(Value) /\ DOMAIN values = 1..Len(items)
  <2>1. DOMAIN values = 1..Len(items)
    BY <1>2
  <2> HIDE DEF values
  <2>2. values \in [1..Len(items) -> Value]
    BY <1>1, <2>1
  <2> QED
    BY <1>2, <2>1, <2>2
<1>4. const_sum(table, items) =
        CASE deferred -> ListValue(values)
          [] ~deferred /\ Len(items) = 1 -> values[1]
          [] ~deferred /\ Len(items) > 1 /\ numeric -> Sum(values)
          [] OTHER -> Failure("not numeric")
  BY DEF const_sum
<1> HIDE DEF values, deferred
<1>5. CASE deferred
  BY <1>3, <1>4, <1>5, ListValueType
<1>6. CASE ~deferred /\ Len(items) = 1
  <2>1. values[1] \in Value
    BY <1>3, <1>6
  <2> QED
    BY <1>4, <1>6, <2>1
<1>7. CASE ~deferred /\ Len(items) > 1 /\ numeric
  <2>1. \A i \in 1..Len(items) : values[i] \in NumberValue
    BY <1>3, <1>7, ValueTags
  <2>2. values \in Seq(NumberValue)
    BY <1>3, <2>1
  <2>3. Sum(values) \in Value
    BY <2>2, SumType, FailureType
  <2>4. Len(items) # 1
    BY <1>2, <1>7
  <2> QED
    BY <1>4, <1>7, <2>3, <2>4
<1>8. CASE ~deferred /\ Len(items) # 1 /\ ~(Len(items) > 1 /\ numeric)
  <2>1. const_sum(table, items) = Failure("not numeric")
    BY <1>4, <1>8
  <2> QED
    BY <2>1, FailureType DEF Causes
<1> QED
  BY <1>5, <1>6, <1>7, <1>8

LEMMA ValueTextType ==
  ASSUME NEW table, Table(table), NEW v \in ValueText
  PROVE  const_value(table, v) \in Value \cup FailureValue
<1>1. CASE v.tag = "sum"
  <2>1. v.items \in Seq(Atom)
    BY <1>1, AtomTags DEF ValueText
  <2> QED
    BY <1>1, <2>1, SumTextType DEF const_value
<1>2. CASE v.tag # "sum"
  <2>1. v \in Atom
    BY <1>2 DEF ValueText
  <2> QED
    BY <1>2, <2>1, AtomTags DEF const_value
<1> QED
  BY <1>1, <1>2

LEMMA LengthType ==
  ASSUME NEW table, Table(table), NEW sum \in Seq(Atom)
  PROVE  Length(table, sum) \in NumberValue \cup FailureValue
<1> DEFINE v == const_sum(table, sum)
<1>1. v \in Value \cup FailureValue
  BY SumTextType
<1>2. v.tag = "int" => v \in NumberValue
  BY <1>1, ValueTags, FailureType DEF IsFailure
<1>3. Length(table, sum) = IF v.tag = "int" THEN v ELSE Failure("length")
  BY DEF Length
<1>4. Failure("length") \in FailureValue
  BY FailureType DEF Causes
<1> HIDE DEF v
<1> QED
  BY <1>2, <1>3, <1>4

\* Where nothing has failed there is a value.
LEMMA FailuresType ==
  ASSUME NEW X, X \subseteq Value, NEW values \in Seq(X \cup FailureValue)
  PROVE  /\ Failures(values) = <<>> => values \in Seq(X)
         /\ Failures(values) # <<>> => Failures(values)[1] \in FailureValue
<1> DEFINE S == {i \in DOMAIN values : IsFailure(values[i])}
<1>1. Failures(values) = Kept(values, S)
  BY DEF Failures
<1>2. S \subseteq DOMAIN values
  OBVIOUS
<1>3. /\ Kept(values, S) = <<>> <=> S = {}
      /\ \A k \in 1..Cardinality(S) : Nth(S, k) \in S /\ Kept(values, S)[k] = values[Nth(S, k)]
      /\ Kept(values, S) \in Seq(X \cup FailureValue) /\ Len(Kept(values, S)) = Cardinality(S)
  BY <1>2, KeptType
<1>4. \A i \in DOMAIN values : values[i] \in X \cup FailureValue
  OBVIOUS
<1>5. \A i \in DOMAIN values : values[i] \in X \/ i \in S
  BY <1>4, FailureType
<1>6. \A i \in S : values[i] \in FailureValue
  BY <1>4, FailureType
<1> HIDE DEF S
<1>7. ASSUME Failures(values) = <<>> PROVE values \in Seq(X)
  <2>1. \A i \in 1..Len(values) : values[i] \in X
    BY <1>1, <1>3, <1>5, <1>7
  <2> QED
    BY <2>1
<1>8. ASSUME Failures(values) # <<>> PROVE Failures(values)[1] \in FailureValue
  <2>1. 1 \in 1..Cardinality(S)
    BY <1>1, <1>3, <1>8
  <2>2. Kept(values, S)[1] = values[Nth(S, 1)] /\ Nth(S, 1) \in S
    BY <1>3, <2>1
  <2> QED
    BY <1>1, <1>6, <2>2
<1> QED
  BY <1>7, <1>8

-----------------------------------------------------------------------------
(* Types of the declarations *)

\* Names of types are names of kinds, if of one word.
TypeName == {n \in Name : KindOf(n) \in Kinds}

\* Before they are normalized.
Worded(n) == n \in Name /\ (n \in DOMAIN _NORMALIZATION \/ KindOf(n) \in Kinds)

\* A field with values and lengths of these kinds.
FieldOf(V, L) ==
  [name : STRING, type : TypeName, composite : BOOLEAN, array_lengths : Seq(L),
   is_sequence : BOOLEAN, bound : Seq(V), string_bound : Seq(L), predicates : Seq(V)]

NodeOf(V, F) ==
  {d \in [kind : {"const", "enum", "struct", "typedef", "union", "module"}, name : STRING,
          type : TypeName, value : V, members : Seq(STRING), fields : Seq(F),
          body : {<<>>}, scope : Name, size : Nat] :
     d.kind = "typedef" => Len(d.fields) = 1}

MaybeNode == NodeOf(Value \cup FailureValue, FieldOf(Value \cup FailureValue, NumberValue \cup FailureValue))

ParsedNode == NodeOf(Value, FieldOf(Value, NumberValue))

ResolvedNode ==
  {d \in NodeOf(Value, FieldOf(NumberValue, NumberValue)) :
     d.kind = "const" => d.value \in NumberValue}

\* What the words of a declaration may be.
WordedNode ==
  {d \in DeclarationText :
     Worded(d.type) /\ \A k \in DOMAIN d.fields : Worded(d.fields[k].type.name)}

LEMMA KindsOfWords ==
  /\ \A k \in Kinds : <<k>> \in TypeName /\ k \in STRING
  /\ <<"sequence">> \in TypeName /\ <<"uint32">> \in TypeName /\ <<>> \in TypeName
  /\ \A n \in Name : Len(n) # 1 => n \in TypeName
<1>1. \A k \in Kinds : k \in STRING
  BY StringsAssumption
<1>2. \A k : KindOf(<<k>>) = k
  BY DEF KindOf
<1>3. \A k \in Kinds : <<k>> \in TypeName
  <2>1. \A s \in STRING : <<s>> \in Seq(STRING)
    BY SingleSeq
  <2> QED
    BY <1>1, <1>2, <2>1 DEF TypeName, Name
<1>4. "" \in Kinds /\ "sequence" \in Kinds
  BY TextsAssumption DEF Kinds
<1>5. "uint32" \in Kinds
  BY DEF Kinds, NumberKinds, Widths
<1>6. \A n \in Name : Len(n) # 1 => n \in TypeName
  BY <1>4 DEF TypeName, KindOf
<1>7. <<>> \in Name /\ Len(<<>>) # 1
  BY DEF Name
<1> QED
  BY <1>1, <1>3, <1>4, <1>5, <1>6, <1>7

LEMMA NormalizedType ==
  ASSUME NEW n, Worded(n)
  PROVE  Normalized(n) \in TypeName
<1>1. CASE n \in DOMAIN _NORMALIZATION
  <2> DEFINE pairs == {<<"long double", "float64">>, <<"double", "float64">>, <<"float", "float32">>,
                <<"short", "int16">>, <<"unsigned short", "uint16">>,
                <<"long", "int32">>, <<"unsigned long", "uint32">>,
                <<"long long", "int64">>, <<"unsigned long long", "uint64">>,
                <<"boolean", "bool">>, <<"octet", "uint8">>}
             pair(m) == CHOOSE p \in pairs : <<p[1]>> = m
  <2>1. _NORMALIZATION = [m \in {<<p[1]>> : p \in pairs} |-> <<pair(m)[2]>>]
    BY DEF _NORMALIZATION
  <2>2. \A p \in pairs : p[2] \in NumberKinds
    <3>1. {"float64", "float32", "int16", "uint16", "int32", "uint32", "int64", "uint64", "bool",
           "uint8"} \subseteq NumberKinds
      BY DEF NumberKinds, Widths
    <3>2. \A p \in pairs : p[2] \in {"float64", "float32", "int16", "uint16", "int32", "uint32",
                                   "int64", "uint64", "bool", "uint8"}
      <4> SUFFICES ASSUME NEW p \in pairs
                   PROVE  p[2] \in {"float64", "float32", "int16", "uint16", "int32", "uint32",
                                    "int64", "uint64", "bool", "uint8"}
        OBVIOUS
      <4>1. \E s : \E k \in {"float64", "float32", "int16", "uint16", "int32", "uint32",
                            "int64", "uint64", "bool", "uint8"} : p = <<s, k>>
        BY ZenonT(60)
      <4> HIDE DEF pairs
      <4> QED
        BY <4>1
    <3> QED
      BY <3>1, <3>2
  <2> HIDE DEF pairs
  <2>3. DOMAIN _NORMALIZATION = {<<p[1]>> : p \in pairs}
    BY <2>1
  <2>4. \E p \in pairs : <<p[1]>> = n
    BY <1>1, <2>3
  <2>5. pair(n) \in pairs
    BY <2>4
  <2>6. Normalized(n) = <<pair(n)[2]>>
    BY <1>1, <2>1, <2>3 DEF Normalized
  <2>7. pair(n)[2] \in Kinds
    BY <2>2, <2>5 DEF Kinds
  <2> QED
    BY <2>6, <2>7, KindsOfWords
<1>2. CASE n \notin DOMAIN _NORMALIZATION
  BY <1>2 DEF Worded, Normalized, TypeName
<1> QED
  BY <1>1, <1>2

LEMMA FiniteImage ==
  ASSUME NEW S, IsFiniteSet(S), NEW f, DOMAIN f = S, NEW T, T = {f[x] : x \in S}
  PROVE  IsFiniteSet(T)
<1>0. DEFINE g == [x \in S |-> f[x]]
<1>1. g \in [S -> T] /\ \A t \in T : \E x \in S : g[x] = t
  OBVIOUS
<1> HIDE DEF g
<1>2. g \in Surjection(S, T)
  BY <1>1, Fun_IsSurj
<1> QED
  BY <1>2, FS_Surjection

-----------------------------------------------------------------------------
(* The _Transformer *)

LEMMA DeclaredType ==
  ASSUME NEW table, Table(table), NEW f \in DeclaratorText, Worded(f.type.name)
  PROVE  Declared(table, f) \in FieldOf(Value \cup FailureValue, NumberValue \cup FailureValue)
<1> DEFINE t == f.type
           d == Declared(table, f)
<1>1. /\ f.name \in STRING /\ t \in TypeText /\ f.lengths \in Seq(Seq(Atom))
      /\ f.predicates \in Seq(ValueText)
  BY DEF DeclaratorText
<1>2. t.name \in Name /\ t.nesting \in 0..2 /\ t.bound \in Seq(Atom) /\ t.stringBound \in Seq(Atom)
  BY <1>1 DEF TypeText
<1>3. /\ d.name = f.name
      /\ d.type = IF t.nesting = 2 THEN <<"sequence">> ELSE Normalized(t.name)
      /\ d.composite = (t.nesting = 2 \/ t.stringBound # <<>>)
      /\ d.array_lengths = [k \in DOMAIN f.lengths |-> Length(table, f.lengths[k])]
      /\ d.is_sequence = (t.nesting > 0)
      /\ d.bound = IF t.bound = <<>> THEN <<>> ELSE <<const_sum(table, t.bound)>>
      /\ d.string_bound = IF t.stringBound = <<>> THEN <<>>
                            ELSE <<Length(table, t.stringBound)>>
      /\ d.predicates = [k \in DOMAIN f.predicates |-> const_value(table, f.predicates[k])]
      /\ d = [name |-> d.name, type |-> d.type, composite |-> d.composite,
              array_lengths |-> d.array_lengths, is_sequence |-> d.is_sequence,
              bound |-> d.bound, string_bound |-> d.string_bound, predicates |-> d.predicates]
  BY DEF Declared
<1> HIDE DEF t, d
<1>4. d.type \in TypeName
  BY <1>3, KindsOfWords, NormalizedType DEF t
<1>5. d.array_lengths \in Seq(NumberValue \cup FailureValue)
  <2>1. \A k \in 1..Len(f.lengths) : f.lengths[k] \in Seq(Atom)
    BY <1>1
  <2>2. \A k \in 1..Len(f.lengths) : Length(table, f.lengths[k]) \in NumberValue \cup FailureValue
    BY <2>1, LengthType
  <2>3. d.array_lengths \in [1..Len(f.lengths) -> NumberValue \cup FailureValue]
    BY <1>1, <1>3, <2>2
  <2>4. Len(f.lengths) \in Nat
    BY <1>1
  <2> QED
    BY <2>3, <2>4, IsSeq
<1>6. d.predicates \in Seq(Value \cup FailureValue)
  <2>1. \A k \in 1..Len(f.predicates) : f.predicates[k] \in ValueText
    BY <1>1
  <2>2. \A k \in 1..Len(f.predicates) : const_value(table, f.predicates[k]) \in Value \cup FailureValue
    BY <2>1, ValueTextType
  <2>3. d.predicates \in [1..Len(f.predicates) -> Value \cup FailureValue]
    BY <1>1, <1>3, <2>2
  <2>4. Len(f.predicates) \in Nat
    BY <1>1
  <2> QED
    BY <2>3, <2>4, IsSeq
<1>7. d.bound \in Seq(Value \cup FailureValue)
  <2>1. const_sum(table, t.bound) \in Value \cup FailureValue
    BY <1>2, SumTextType
  <2>2. <<const_sum(table, t.bound)>> \in Seq(Value \cup FailureValue)
    BY <2>1, SingleSeq
  <2> QED
    BY <1>3, <2>2, EmptyIsSeq
<1>8. d.string_bound \in Seq(NumberValue \cup FailureValue)
  <2>1. Length(table, t.stringBound) \in NumberValue \cup FailureValue
    BY <1>2, LengthType
  <2>2. <<Length(table, t.stringBound)>> \in Seq(NumberValue \cup FailureValue)
    BY <2>1, SingleSeq
  <2> QED
    BY <1>3, <2>2, EmptyIsSeq
<1>9. d.composite \in BOOLEAN /\ d.is_sequence \in BOOLEAN
  BY <1>3
<1>10. d \in FieldOf(Value \cup FailureValue, NumberValue \cup FailureValue)
  BY <1>1, <1>3, <1>4, <1>5, <1>6, <1>7, <1>8, <1>9 DEF FieldOf
<1> QED
  BY <1>10 DEF d

LEMMA ParsedMaybe ==
  ASSUME NEW table, Table(table), NEW d \in WordedNode
  PROVE  Parsed(table, d) \in MaybeNode
<1> DEFINE node == Parsed(table, d)
           fields == [k \in DOMAIN d.fields |-> Declared(table, d.fields[k])]
<1>1. /\ d.kind \in {"const", "enum", "struct", "typedef", "union", "module"} /\ d.name \in STRING
      /\ d.value \in ValueText /\ d.members \in Seq(STRING) /\ d.fields \in Seq(DeclaratorText)
      /\ d.body \in {<<>>} /\ d.scope \in Name /\ d.size \in Nat
      /\ d.kind = "typedef" => Len(d.fields) = 1
      /\ d = [kind |-> d.kind, name |-> d.name, type |-> d.type, value |-> d.value,
              members |-> d.members, fields |-> d.fields, body |-> d.body, scope |-> d.scope,
              size |-> d.size]
  BY DEF WordedNode, DeclarationText
<1>2. Worded(d.type) /\ \A k \in DOMAIN d.fields : Worded(d.fields[k].type.name)
  BY DEF WordedNode
<1>3. node = [kind |-> d.kind, name |-> d.name, type |-> Normalized(d.type),
              value |-> const_value(table, d.value), members |-> d.members,
              fields |-> fields, body |-> d.body, scope |-> d.scope, size |-> d.size]
  <2> DEFINE r == [kind |-> d.kind, name |-> d.name, type |-> d.type, value |-> d.value,
                   members |-> d.members, fields |-> d.fields, body |-> d.body, scope |-> d.scope,
                   size |-> d.size]
  <2>1. node = [r EXCEPT !.value = const_value(table, d.value), !.type = Normalized(d.type),
                         !.fields = fields]
    <3>1. d = r
      BY <1>1
    <3> QED
      BY <3>1 DEF Parsed
  <2> HIDE DEF node, fields
  <2> QED
    BY <2>1
<1>4. \A k \in 1..Len(d.fields) :
        Declared(table, d.fields[k]) \in FieldOf(Value \cup FailureValue, NumberValue \cup FailureValue)
  <2>1. \A k \in 1..Len(d.fields) : d.fields[k] \in DeclaratorText /\ Worded(d.fields[k].type.name)
    BY <1>1, <1>2
  <2> QED
    BY <2>1, DeclaredType
<1>5. /\ fields \in Seq(FieldOf(Value \cup FailureValue, NumberValue \cup FailureValue))
      /\ Len(fields) = Len(d.fields)
  <2>1. Len(d.fields) \in Nat /\ DOMAIN d.fields = 1..Len(d.fields)
    BY <1>1
  <2>2. fields \in [1..Len(d.fields) -> FieldOf(Value \cup FailureValue, NumberValue \cup FailureValue)]
    BY <1>4, <2>1
  <2> HIDE DEF fields
  <2> QED
    BY <2>1, <2>2, IsSeq
<1>6. Normalized(d.type) \in TypeName /\ const_value(table, d.value) \in Value \cup FailureValue
  BY <1>1, <1>2, NormalizedType, ValueTextType
<1> HIDE DEF fields
<1> QED
  BY <1>1, <1>3, <1>5, <1>6 DEF MaybeNode, NodeOf

LEMMA NumbersIn ==
  ASSUME NEW s \in Seq(NumberValue \cup FailureValue)
  PROVE  /\ s \in Seq(Value \cup FailureValue)
         /\ s \in Seq(Value) => s \in Seq(NumberValue)
<1>1. NumberValue \cup FailureValue \subseteq Value \cup FailureValue
  BY FailureType
<1>2. s \in Seq(Value \cup FailureValue)
  BY <1>1, SeqMono
<1>3. ASSUME s \in Seq(Value) PROVE s \in Seq(NumberValue)
  <2>1. \A i \in 1..Len(s) : s[i] \in Value /\ s[i] \in NumberValue \cup FailureValue
    BY <1>3
  <2>2. \A i \in 1..Len(s) : s[i] \in NumberValue
    BY <2>1, FailureType
  <2> QED
    BY <2>2
<1> QED
  BY <1>2, <1>3

LEMMA FieldTags ==
  ASSUME NEW V, NEW L, NEW f \in FieldOf(V, L)
  PROVE  /\ f.name \in STRING /\ f.type \in TypeName /\ f.composite \in BOOLEAN
         /\ f.array_lengths \in Seq(L) /\ f.is_sequence \in BOOLEAN /\ f.bound \in Seq(V)
         /\ f.string_bound \in Seq(L) /\ f.predicates \in Seq(V)
         /\ f = [name |-> f.name, type |-> f.type, composite |-> f.composite,
                 array_lengths |-> f.array_lengths, is_sequence |-> f.is_sequence,
                 bound |-> f.bound, string_bound |-> f.string_bound, predicates |-> f.predicates]
BY DEF FieldOf

LEMMA NodeTags ==
  ASSUME NEW V, NEW F, NEW d \in NodeOf(V, F)
  PROVE  /\ d.kind \in {"const", "enum", "struct", "typedef", "union", "module"} /\ d.name \in STRING
         /\ d.type \in TypeName /\ d.value \in V /\ d.members \in Seq(STRING)
         /\ d.fields \in Seq(F) /\ d.body \in {<<>>} /\ d.scope \in Name /\ d.size \in Nat
         /\ d.kind = "typedef" => Len(d.fields) = 1
         /\ d = [kind |-> d.kind, name |-> d.name, type |-> d.type, value |-> d.value,
                 members |-> d.members, fields |-> d.fields, body |-> d.body, scope |-> d.scope,
                 size |-> d.size]
BY DEF NodeOf

LEMMA SoundField ==
  ASSUME NEW f \in FieldOf(Value \cup FailureValue, NumberValue \cup FailureValue),
         Failures(f.predicates \o f.bound \o f.string_bound \o f.array_lengths) = <<>>
  PROVE  f \in FieldOf(Value, NumberValue)
<1> DEFINE M == Value \cup FailureValue
           p == f.predicates
           b == f.bound
           s == f.string_bound
           a == f.array_lengths
<1>1. p \in Seq(M) /\ b \in Seq(M) /\ s \in Seq(M) /\ a \in Seq(M)
  BY FieldTags, NumbersIn
<1>2. s \in Seq(NumberValue \cup FailureValue) /\ a \in Seq(NumberValue \cup FailureValue)
  BY FieldTags
<1>3. Failures(p \o b \o s \o a) = <<>>
  OBVIOUS
<1> HIDE DEF p, b, s, a
<1>4. p \o b \in Seq(M) /\ p \o b \o s \in Seq(M) /\ p \o b \o s \o a \in Seq(M)
  <2> HIDE DEF M
  <2> QED
    BY <1>1
<1>5. p \o b \o s \o a \in Seq(Value)
  BY <1>3, <1>4, FailuresType
<1>6. p \o b \o s \in Seq(Value) /\ a \in Seq(Value)
  BY <1>1, <1>4, <1>5, ConcatParts
<1>7. p \o b \in Seq(Value) /\ s \in Seq(Value)
  BY <1>1, <1>4, <1>6, ConcatParts
<1>8. p \in Seq(Value) /\ b \in Seq(Value)
  BY <1>1, <1>7, ConcatParts
<1>9. s \in Seq(NumberValue) /\ a \in Seq(NumberValue)
  BY <1>2, <1>6, <1>7, NumbersIn
<1> QED
  BY <1>8, <1>9, FieldTags DEF FieldOf, p, b, s, a

LEMMA ParsedType ==
  ASSUME NEW table, Table(table), NEW d \in WordedNode,
         ParseFailures(Parsed(table, d)) = <<>>
  PROVE  Parsed(table, d) \in ParsedNode
<1> DEFINE node == Parsed(table, d)
           parts(f) == f.predicates \o f.bound \o f.string_bound \o f.array_lengths
           failing == {k \in DOMAIN node.fields : Failures(parts(node.fields[k])) # <<>>}
           MaybeField == FieldOf(Value \cup FailureValue, NumberValue \cup FailureValue)
<1>1. node \in NodeOf(Value \cup FailureValue, MaybeField)
  BY ParsedMaybe DEF MaybeNode
<1> DEFINE all == [k \in DOMAIN node.fields |-> parts(node.fields[k])]
<1>2. ParseFailures(node) = IF failing = {} THEN Failures(<<node.value>>)
                            ELSE Failures(all[Least(failing)])
  <2>1. failing = {k \in DOMAIN all : Failures(all[k]) # <<>>}
    OBVIOUS
  <2> QED
    BY <2>1 DEF ParseFailures, NodeFailures
<1> HIDE DEF node
<1>3. node.fields \in Seq(MaybeField) /\ node.value \in Value \cup FailureValue
  BY <1>1, NodeTags
<1>4. failing = {}
  <2> SUFFICES ASSUME failing # {} PROVE FALSE
    OBVIOUS
  <2>1. failing \subseteq DOMAIN node.fields
    OBVIOUS
  <2>2. Places(failing)
    BY <1>3, <2>1, PlacesInSeq
  <2>3. Least(failing) \in failing
    BY <2>2, HasLeast
  <2> QED
    BY <1>2, <2>3 DEF node
<1>5. node.value \in Value
  <2>1. Failures(<<node.value>>) = <<>>
    BY <1>2, <1>4 DEF node
  <2>2. <<node.value>> \in Seq(Value \cup FailureValue) /\ <<node.value>>[1] = node.value
    BY <1>3, SingleSeq
  <2>3. <<node.value>> \in Seq(Value)
    BY <2>1, <2>2, FailuresType
  <2> QED
    BY <2>2, <2>3
<1>6. node.fields \in Seq(FieldOf(Value, NumberValue))
  <2>1. \A k \in 1..Len(node.fields) : node.fields[k] \in MaybeField /\ k \notin failing
    BY <1>3, <1>4
  <2>2. \A k \in 1..Len(node.fields) : node.fields[k] \in MaybeField /\ Failures(parts(node.fields[k])) = <<>>
    BY <1>3, <2>1
  <2>3. \A k \in 1..Len(node.fields) : node.fields[k] \in FieldOf(Value, NumberValue)
    BY <2>2, SoundField
  <2>4. Len(node.fields) \in Nat /\ node.fields \in [1..Len(node.fields) -> FieldOf(Value, NumberValue)]
    BY <1>3, <2>3
  <2> QED
    BY <2>4, IsSeq
<1>7. node \in ParsedNode
  BY <1>1, <1>5, <1>6, NodeTags DEF ParsedNode, NodeOf
<1> QED
  BY <1>7 DEF node

\* The same declaration, as far as its names go.
Alike(d, e) ==
  /\ e.kind = d.kind /\ e.name = d.name /\ e.scope = d.scope /\ e.size = d.size
  /\ e.members = d.members

LEMMA ParsedAlike ==
  ASSUME NEW table, NEW d \in DeclarationText
  PROVE  Alike(d, Parsed(table, d))
<1>1. d = [kind |-> d.kind, name |-> d.name, type |-> d.type, value |-> d.value,
           members |-> d.members, fields |-> d.fields, body |-> d.body, scope |-> d.scope,
           size |-> d.size]
  BY DEF DeclarationText
<1> DEFINE fields == [k \in DOMAIN d.fields |-> Declared(table, d.fields[k])]
<1>2. Parsed(table, d) =
        [d EXCEPT !.value = const_value(table, d.value), !.type = Normalized(d.type),
                  !.fields = fields]
  BY <1>1 DEF Parsed
<1> HIDE DEF fields
<1> QED
  BY <1>1, <1>2 DEF Alike

\* An enum has each of its members at its place.
LEMMA PlaceIs ==
  ASSUME NEW members \in Seq(STRING), NEW k \in DOMAIN members
  PROVE  /\ PlaceOf(members, members[k]) \in DOMAIN members
         /\ members[PlaceOf(members, members[k])] = members[k]
<1> DEFINE S == {j \in DOMAIN members : members[j] = members[k]}
<1>1. Places(S) /\ S # {}
  <2>1. S \subseteq DOMAIN members /\ k \in S
    OBVIOUS
  <2> HIDE DEF S
  <2> QED
    BY <2>1, PlacesInSeq
<1>2. PICK i \in S : \A j \in S : j <= i
  BY <1>1, HasGreatest
<1> QED
  BY <1>2 DEF PlaceOf

LEMMA EnumeratorTable ==
  ASSUME NEW name \in STRING, NEW members \in Seq(STRING)
  PROVE  LET names == {<<members[k]>> : k \in DOMAIN members}
                        \cup {<<name, members[k]>> : k \in DOMAIN members}
         IN Table([n \in names |->
                     IntValue(PlaceOf(members, n[Len(n)]) - 1)])
<1> DEFINE D == DOMAIN members
           names == {<<members[k]>> : k \in D} \cup {<<name, members[k]>> : k \in D}
           place(n) == PlaceOf(members, n[Len(n)])
           table == [n \in names |-> IntValue(place(n) - 1)]
<1>1. D = 1..Len(members) /\ Len(members) \in Nat /\ \A k \in D : members[k] \in STRING
  OBVIOUS
<1> HIDE DEF D
<1>2. IsFiniteSet(D)
  BY <1>1, FS_Interval
<1>3. IsFiniteSet(names)
  <2> DEFINE f == [k \in D |-> <<members[k]>>]
             g == [k \in D |-> <<name, members[k]>>]
  <2>1. DOMAIN f = D /\ {<<members[k]>> : k \in D} = {f[k] : k \in D}
    OBVIOUS
  <2>2. DOMAIN g = D /\ {<<name, members[k]>> : k \in D} = {g[k] : k \in D}
    OBVIOUS
  <2> HIDE DEF f, g
  <2>3. IsFiniteSet({<<members[k]>> : k \in D}) /\ IsFiniteSet({<<name, members[k]>> : k \in D})
    BY <1>2, <2>1, <2>2, FiniteImage
  <2> QED
    BY <2>3, FS_Union
<1>4. ASSUME NEW n \in names PROVE n \in Name /\ place(n) \in D
  <2>1. PICK k \in D : n = <<members[k]>> \/ n = <<name, members[k]>>
    OBVIOUS
  <2>2. <<members[k]>> \in Seq(STRING) /\ <<name, members[k]>> \in Seq(STRING)
    <3>1. \A S : \A x, y \in S : <<x>> \in Seq(S) /\ <<y, x>> \in Seq(S)
      OBVIOUS
    <3>2. members[k] \in STRING
      BY <1>1
    <3> HIDE DEF names, table
    <3> QED
      BY <3>1, <3>2, Zenon
  <2>3. n[Len(n)] = members[k]
    <3>1. \A x, y : Len(<<x>>) = 1 /\ Len(<<y, x>>) = 2 /\ <<x>>[1] = x /\ <<y, x>>[2] = x
      OBVIOUS
    <3>2. CASE n = <<members[k]>>
      BY <3>1, <3>2
    <3>3. CASE n = <<name, members[k]>>
      BY <3>1, <3>3
    <3> QED
      BY <2>1, <3>2, <3>3
  <2>4. PlaceOf(members, members[k]) \in DOMAIN members
    BY PlaceIs DEF D
  <2> QED
    BY <2>1, <2>2, <2>3, <2>4 DEF Name, D
<1> HIDE DEF names, place
<1>5. \A n \in names : IntValue(place(n) - 1) \in Value
  <2>1. \A n \in names : place(n) - 1 \in Int
    BY <1>1, <1>4
  <2> QED
    BY <2>1 DEF IntValue, Value, Atom, NumberValue
<1>6. table \in [names -> Value] /\ DOMAIN table = names
  BY <1>5
<1> HIDE DEF table
<1>7. Table(table)
  BY <1>3, <1>4, <1>6 DEF Table
<1> QED
  BY <1>7 DEF table, names, place, D

LEMMA RegisteredType ==
  ASSUME NEW table, Table(table), NEW node, node.name \in STRING,
         node.members \in Seq(STRING), node.kind = "const" => node.value \in Value
  PROVE  Table(Registered(table, node))
<1> DEFINE names == {<<node.members[k]>> : k \in DOMAIN node.members}
                        \cup {<<node.name, node.members[k]>> : k \in DOMAIN node.members}
           members == [n \in names |->
             IntValue(PlaceOf(node.members, n[Len(n)]) - 1)]
           entries ==
             CASE node.kind = "const" -> [n \in {<<node.name>>} |-> node.value]
               [] node.kind = "enum" -> members
               [] OTHER -> <<>>
           r == Registered(table, node)
<1>1. Table(members)
  BY EnumeratorTable
<1> HIDE DEF members
<1>2. Table(entries)
  <2>1. CASE node.kind = "const"
    <3> DEFINE one == [n \in {<<node.name>>} |-> node.value]
    <3>1. entries = one
      BY <2>1
    <3>2. <<node.name>> \in Name
      BY SingleSeq DEF Name
    <3>3. one \in [{<<node.name>>} -> Value] /\ DOMAIN one = {<<node.name>>}
      BY <2>1
    <3>4. IsFiniteSet({<<node.name>>})
      BY FS_Singleton
    <3> HIDE DEF one, entries
    <3> QED
      BY <3>1, <3>2, <3>3, <3>4 DEF Table
  <2>2. CASE node.kind = "enum"
    BY <1>1, <2>2
  <2>3. CASE node.kind \notin {"const", "enum"}
    <3>1. entries = <<>>
      BY <2>3
    <3>2. DOMAIN <<>> = {} /\ <<>> \in [{} -> Value]
      OBVIOUS
    <3> HIDE DEF entries
    <3> QED
      BY <3>1, <3>2, FS_EmptySet DEF Table
  <2> QED
    BY <2>1, <2>2, <2>3
<1>3. r = [n \in DOMAIN table \cup DOMAIN entries |->
             IF n \in DOMAIN entries THEN entries[n] ELSE table[n]]
  BY DEF Registered, members
<1> HIDE DEF entries, r
<1>4. r \in [DOMAIN table \cup DOMAIN entries -> Value]
  BY <1>2, <1>3 DEF Table
<1>5. IsFiniteSet(DOMAIN table \cup DOMAIN entries)
  BY <1>2, FS_Union DEF Table
<1>6. Table(r)
  BY <1>2, <1>4, <1>5 DEF Table
<1> QED
  BY <1>6 DEF r

-----------------------------------------------------------------------------
(* resolve_constants *)

Result == NumberValue \cup FailureValue

Evaluations == [Atom \X SUBSET Name -> Result]

LEMMA AddedType ==
  ASSUME NEW values \in Seq(Result)
  PROVE  Added(values) \in Result
<1>1. NumberValue \subseteq Value
  BY FailureType
<1>2. CASE Failures(values) = <<>>
  <2>1. values \in Seq(NumberValue)
    BY <1>1, <1>2, FailuresType DEF Result
  <2> QED
    BY <1>2, <2>1, SumType DEF Added, Result
<1>3. CASE Failures(values) # <<>>
  BY <1>1, <1>3, FailuresType DEF Added, Result
<1> QED
  BY <1>2, <1>3

\* What Evaluation says of p.
Evaluated(table, n, before, p) ==
  LET atom == p[1]
      seen == p[2]
      items == ItemsOf(table[atom.str])
  IN CASE atom.tag = "int" -> atom
       [] atom.tag = "str" /\ atom.str \notin DOMAIN table -> Failure("unknown")
       [] atom.tag = "str" /\ atom.str \in DOMAIN table /\ (atom.str \in seen \/ n = 0) ->
            Failure("circular")
       [] OTHER ->
            Added([i \in DOMAIN items |-> before[<<items[i], seen \cup {atom.str}>>]])

LEMMA EvaluatedType ==
  ASSUME NEW table, Table(table), NEW n \in Nat, NEW before,
         n # 0 => before \in Evaluations, NEW p \in Atom \X SUBSET Name
  PROVE  /\ Evaluated(table, n, before, p) \in Result
         /\ n = 0 => \A other : Evaluated(table, 0, other, p) = Evaluated(table, n, before, p)
<1> DEFINE atom == p[1]
           seen == p[2]
           items == ItemsOf(table[atom.str])
           sum(b) == Added([i \in DOMAIN items |-> b[<<items[i], seen \cup {atom.str}>>]])
<1>1. atom \in Atom /\ seen \subseteq Name
  OBVIOUS
<1>2. \A m, b : Evaluated(table, m, b, p) =
        CASE atom.tag = "int" -> atom
          [] atom.tag = "str" /\ atom.str \notin DOMAIN table -> Failure("unknown")
          [] atom.tag = "str" /\ atom.str \in DOMAIN table /\ (atom.str \in seen \/ m = 0) ->
               Failure("circular")
          [] OTHER -> sum(b)
  BY DEF Evaluated
<1> HIDE DEF atom, seen, items, sum
<1>3. atom.tag \in {"int", "str"} /\ "int" # "str"
  BY <1>1, AtomTags
<1>4. CASE atom.tag = "int"
  <2>1. \A m, b : Evaluated(table, m, b, p) = atom
    BY <1>2, <1>4
  <2>2. atom \in NumberValue
    BY <1>1, <1>4, AtomTags
  <2> QED
    BY <2>1, <2>2 DEF Result
<1>5. CASE atom.tag = "str" /\ atom.str \notin DOMAIN table
  <2>1. \A m, b : Evaluated(table, m, b, p) = Failure("unknown")
    BY <1>2, <1>3, <1>5
  <2>2. Failure("unknown") \in Result
    BY FailureType DEF Result, Causes
  <2> QED
    BY <2>1, <2>2
<1>6. CASE atom.tag = "str" /\ atom.str \in DOMAIN table /\ (atom.str \in seen \/ n = 0)
  <2>1. \A m, b : m = n => Evaluated(table, m, b, p) = Failure("circular")
    BY <1>2, <1>3, <1>6
  <2>2. Failure("circular") \in Result
    BY FailureType DEF Result, Causes
  <2> QED
    BY <2>1, <2>2
<1>7. CASE atom.tag = "str" /\ atom.str \in DOMAIN table /\ ~(atom.str \in seen \/ n = 0)
  <2>1. Evaluated(table, n, before, p) = sum(before)
    BY <1>2, <1>3, <1>7
  <2>2. before \in Evaluations /\ n # 0
    BY <1>7
  <2>3. items \in Seq(Atom)
    BY <1>7, ItemsOfType DEF Table, items
  <2>4. seen \cup {atom.str} \in SUBSET Name
    BY <1>1, <1>7, AtomTags
  <2> DEFINE values == [i \in DOMAIN items |-> before[<<items[i], seen \cup {atom.str}>>]]
  <2>5. Len(items) \in Nat /\ DOMAIN items = 1..Len(items) /\ \A i \in 1..Len(items) : items[i] \in Atom
    BY <2>3
  <2>6. \A i \in 1..Len(items) : before[<<items[i], seen \cup {atom.str}>>] \in Result
    BY <2>2, <2>4, <2>5 DEF Evaluations
  <2>7. values \in [1..Len(items) -> Result]
    BY <2>5, <2>6
  <2>8. values \in Seq(Result)
    BY <2>5, <2>7, IsSeq
  <2>9. sum(before) = Added(values)
    BY DEF sum
  <2> HIDE DEF values
  <2>10. sum(before) \in Result
    BY <2>8, <2>9, AddedType
  <2> QED
    BY <2>1, <2>2, <2>10
<1> QED
  BY <1>3, <1>4, <1>5, <1>6, <1>7

LEMMA EvaluationType ==
  ASSUME NEW table, Table(table), NEW n \in Nat, NEW before,
         n # 0 => before \in Evaluations
  PROVE  /\ Evaluation(table, n, before) \in Evaluations
         /\ n = 0 => \A other : Evaluation(table, 0, other) = Evaluation(table, n, before)
<1>1. \A m, b : Evaluation(table, m, b) =
        [p \in Atom \X SUBSET Name |-> Evaluated(table, m, b, p)]
  BY DEF Evaluation, Evaluated
<1>2. \A p \in Atom \X SUBSET Name :
        /\ Evaluated(table, n, before, p) \in Result
        /\ n = 0 => \A other : Evaluated(table, 0, other, p) = Evaluated(table, n, before, p)
  BY EvaluatedType
<1>3. Evaluation(table, n, before) \in Evaluations
  <2> DEFINE All == Atom \X SUBSET Name
  <2>1. \A p \in All : Evaluated(table, n, before, p) \in Result
    BY <1>2
  <2>2. Evaluation(table, n, before) = [p \in All |-> Evaluated(table, n, before, p)]
    BY <1>1
  <2> HIDE DEF All
  <2>3. Evaluation(table, n, before) \in [All -> Result]
    BY <2>1, <2>2
  <2> QED
    BY <2>3 DEF Evaluations, All
<1>4. ASSUME n = 0, NEW other
      PROVE  Evaluation(table, 0, other) = Evaluation(table, n, before)
  BY <1>1, <1>2, <1>4
<1> QED
  BY <1>3, <1>4

\* What _eval_expr makes of an expression, by how many names may be looked up.
EvaluatedAll(table, f) ==
  /\ f \in [Nat -> Evaluations]
  /\ \A n \in Nat, p \in Atom \X SUBSET Name : f[n][p] = Evaluated(table, n, f[n - 1], p)

LEMMA EvalSteps ==
  ASSUME NEW table, Table(table), NEW expr \in Value
  PROVE  \E f : /\ EvaluatedAll(table, f)
                /\ LET items == ItemsOf(expr)
                       all == f[Cardinality(DOMAIN table)]
                   IN _eval_expr(table, expr) = Added([i \in DOMAIN items |-> all[<<items[i], {}>>]])
<1> DEFINE a == Evaluation(table, 0, {})
           F == [p \in Nat \X Evaluations |-> Evaluation(table, p[1] + 1, p[2])]
           Step(h, n) == Evaluation(table, n, h[n - 1])
           eval == CHOOSE h : h = [n \in Nat |-> Step(h, n)]
           items == ItemsOf(expr)
           values == [i \in DOMAIN items |-> eval[Cardinality(DOMAIN table)][<<items[i], {}>>]]
<1>1. a \in Evaluations /\ \A other : Evaluation(table, 0, other) = a
  BY EvaluationType
<1>2. F \in [Nat \X Evaluations -> Evaluations]
  <2>1. ASSUME NEW p \in Nat \X Evaluations
        PROVE  Evaluation(table, p[1] + 1, p[2]) \in Evaluations
    <3>1. p[1] + 1 \in Nat /\ p[2] \in Evaluations
      OBVIOUS
    <3> QED
      BY <3>1, EvaluationType
  <2> QED
    BY <2>1
<1>3. \A i \in Nat, h \in Evaluations : F[<<i, h>>] = Evaluation(table, i + 1, h)
  OBVIOUS
<1> HIDE DEF a, F
<1>4. PICK g : Recursive(g, Evaluations, a, F)
  BY <1>1, <1>2, Recursion
<1>5. ASSUME NEW n \in Nat PROVE g[n] = Step(g, n)
  <2>1. CASE n = 0
    BY <1>1, <1>4, <2>1 DEF Recursive
  <2>2. CASE n # 0
    <3>1. n - 1 \in Nat /\ (n - 1) + 1 = n
      BY <2>2
    <3>2. g[n - 1] \in Evaluations /\ g[n] = F[<<n - 1, g[n - 1]>>]
      BY <1>4, <3>1 DEF Recursive
    <3>3. F[<<n - 1, g[n - 1]>>] = Evaluation(table, n, g[n - 1])
      BY <1>3, <3>1, <3>2
    <3> QED
      BY <3>2, <3>3
  <2> QED
    BY <2>1, <2>2
<1>6. g = [n \in Nat |-> Step(g, n)]
  <2>1. g \in [Nat -> Evaluations]
    BY <1>4 DEF Recursive
  <2> QED
    BY <1>5, <2>1
<1>7. eval = [n \in Nat |-> Step(eval, n)]
  BY <1>6
<1>8. _eval_expr(table, expr) = Added(values)
  BY DEF _eval_expr
<1> HIDE DEF eval
<1> DEFINE T == {n \in Nat : eval[n] \in Evaluations}
<1>9. 0 \in T
  BY <1>1, <1>7
<1>10. ASSUME NEW n \in Nat, n \in T PROVE n + 1 \in T
  <2>1. (n + 1) - 1 = n /\ n + 1 \in Nat
    OBVIOUS
  <2>2. eval[n + 1] = Step(eval, n + 1)
    BY <1>7, <2>1
  <2>3. eval[n + 1] = Evaluation(table, n + 1, eval[n])
    BY <2>1, <2>2
  <2>4. eval[n] \in Evaluations
    BY <1>10
  <2>5. Evaluation(table, n + 1, eval[n]) \in Evaluations
    BY <2>1, <2>4, EvaluationType
  <2> QED
    BY <2>1, <2>3, <2>5
<1> HIDE DEF T
<1>11. \A n \in Nat : eval[n] \in Evaluations
  BY <1>9, <1>10, Induct DEF T
<1>12. eval \in [Nat -> Evaluations]
  BY <1>7, <1>11
<1>13. ASSUME NEW n \in Nat, NEW p \in Atom \X SUBSET Name
       PROVE  eval[n][p] = Evaluated(table, n, eval[n - 1], p)
  <2>1. eval[n] = Evaluation(table, n, eval[n - 1])
    BY <1>7
  <2> QED
    BY <2>1 DEF Evaluation, Evaluated
<1>14. EvaluatedAll(table, eval)
  BY <1>12, <1>13 DEF EvaluatedAll
<1> QED
  BY <1>8, <1>14

LEMMA EvalType ==
  ASSUME NEW table, Table(table), NEW expr \in Value
  PROVE  _eval_expr(table, expr) \in Result
<1>1. PICK f : /\ EvaluatedAll(table, f)
               /\ LET items == ItemsOf(expr)
                      all == f[Cardinality(DOMAIN table)]
                  IN _eval_expr(table, expr) = Added([i \in DOMAIN items |-> all[<<items[i], {}>>]])
  BY EvalSteps
<1> DEFINE items == ItemsOf(expr)
           all == f[Cardinality(DOMAIN table)]
           values == [i \in DOMAIN items |-> all[<<items[i], {}>>]]
<1>2. _eval_expr(table, expr) = Added(values)
  BY <1>1
<1>3. all \in Evaluations
  <2>1. Cardinality(DOMAIN table) \in Nat
    BY FS_CardinalityType DEF Table
  <2> QED
    BY <1>1, <2>1 DEF EvaluatedAll
<1> HIDE DEF all
<1>4. items \in Seq(Atom)
  BY ItemsOfType
<1> HIDE DEF items
<1>5. values \in Seq(Result)
  <2>1. Len(items) \in Nat /\ DOMAIN items = 1..Len(items) /\ \A i \in 1..Len(items) : items[i] \in Atom
    BY <1>4
  <2>2. \A i \in 1..Len(items) : all[<<items[i], {}>>] \in Result
    BY <1>3, <2>1 DEF Evaluations
  <2>3. values \in [1..Len(items) -> Result]
    BY <2>1, <2>2
  <2> HIDE DEF values
  <2> QED
    BY <2>1, <2>3, IsSeq
<1> HIDE DEF values
<1> QED
  BY <1>2, <1>5, AddedType

LEMMA EvaluatedValues ==
  ASSUME NEW table, Table(table), NEW values \in Seq(Value)
  PROVE  [b \in DOMAIN values |-> _eval_expr(table, values[b])] \in Seq(Result)
<1> DEFINE all == [b \in DOMAIN values |-> _eval_expr(table, values[b])]
<1>1. Len(values) \in Nat /\ DOMAIN values = 1..Len(values) /\ \A b \in 1..Len(values) : values[b] \in Value
  OBVIOUS
<1>2. \A b \in 1..Len(values) : _eval_expr(table, values[b]) \in Result
  BY <1>1, EvalType
<1>3. all \in [1..Len(values) -> Result]
  BY <1>1, <1>2
<1> HIDE DEF all
<1>4. all \in Seq(Result)
  BY <1>1, <1>3, IsSeq
<1> QED
  BY <1>4 DEF all

\* A field as Resolved leaves it.
ResolvedField(table, f) ==
  [f EXCEPT !.bound = [b \in DOMAIN f.bound |-> _eval_expr(table, f.bound[b])],
            !.predicates = [p \in DOMAIN f.predicates |-> _eval_expr(table, f.predicates[p])]]

LEMMA ResolvedFieldType ==
  ASSUME NEW table, Table(table), NEW f \in FieldOf(Value, NumberValue)
  PROVE  /\ ResolvedField(table, f) \in FieldOf(Result, NumberValue)
         /\ LET r == ResolvedField(table, f)
            IN Failures(r.bound \o r.predicates) = <<>> => r \in FieldOf(NumberValue, NumberValue)
<1> DEFINE bound == [b \in DOMAIN f.bound |-> _eval_expr(table, f.bound[b])]
           predicates == [p \in DOMAIN f.predicates |-> _eval_expr(table, f.predicates[p])]
           r == ResolvedField(table, f)
<1>1. f.bound \in Seq(Value) /\ f.predicates \in Seq(Value)
  BY FieldTags
<1>2. bound \in Seq(Result) /\ predicates \in Seq(Result)
  BY <1>1, EvaluatedValues
<1>3. r = [f EXCEPT !.bound = bound, !.predicates = predicates]
  BY DEF ResolvedField
<1> HIDE DEF bound, predicates, r
<1>4. r = [name |-> f.name, type |-> f.type, composite |-> f.composite,
           array_lengths |-> f.array_lengths, is_sequence |-> f.is_sequence,
           bound |-> bound, string_bound |-> f.string_bound, predicates |-> predicates]
  <2> DEFINE s == [name |-> f.name, type |-> f.type, composite |-> f.composite,
                   array_lengths |-> f.array_lengths, is_sequence |-> f.is_sequence,
                   bound |-> f.bound, string_bound |-> f.string_bound, predicates |-> f.predicates]
  <2>1. r = [s EXCEPT !.bound = bound, !.predicates = predicates]
    BY <1>3, FieldTags
  <2> QED
    BY <2>1
<1>5. r \in FieldOf(Result, NumberValue)
  BY <1>2, <1>4, FieldTags DEF FieldOf
<1>6. ASSUME Failures(r.bound \o r.predicates) = <<>> PROVE r \in FieldOf(NumberValue, NumberValue)
  <2>1. NumberValue \subseteq Value
    BY FailureType
  <2>2. bound \o predicates \in Seq(Result)
    BY <1>2
  <2>3. Failures(bound \o predicates) = <<>>
    BY <1>4, <1>6
  <2>4. bound \o predicates \in Seq(NumberValue)
    BY <2>1, <2>2, <2>3, FailuresType DEF Result
  <2>5. bound \in Seq(NumberValue) /\ predicates \in Seq(NumberValue)
    BY <1>2, <2>4, ConcatParts
  <2> QED
    BY <1>4, <2>5, FieldTags DEF FieldOf
<1> QED
  BY <1>5, <1>6 DEF r

LEMMA ResolvedShape ==
  ASSUME NEW table, Table(table), NEW node \in ParsedNode
  PROVE  LET value == IF node.kind = "const" THEN _eval_expr(table, node.value) ELSE node.value
             fields == [k \in DOMAIN node.fields |-> ResolvedField(table, node.fields[k])]
         IN /\ Resolved(table, node) =
                 [kind |-> node.kind, name |-> node.name, type |-> node.type, value |-> value,
                  members |-> node.members, fields |-> fields, body |-> node.body,
                  scope |-> node.scope, size |-> node.size]
            /\ value \in Value \cup FailureValue
            /\ node.kind = "const" => value \in Result
            /\ node.kind # "const" => value \in Value
            /\ fields \in Seq(FieldOf(Result, NumberValue)) /\ Len(fields) = Len(node.fields)
<1> DEFINE value == IF node.kind = "const" THEN _eval_expr(table, node.value) ELSE node.value
           fields == [k \in DOMAIN node.fields |-> ResolvedField(table, node.fields[k])]
<1>1. node.value \in Value /\ node.fields \in Seq(FieldOf(Value, NumberValue))
  BY NodeTags DEF ParsedNode
<1>2. value \in Value \cup FailureValue /\ (node.kind = "const" => value \in Result)
      /\ (node.kind # "const" => value \in Value)
  <2>1. _eval_expr(table, node.value) \in Result
    BY <1>1, EvalType
  <2>2. Result \subseteq Value \cup FailureValue
    BY FailureType DEF Result
  <2> QED
    BY <1>1, <2>1, <2>2
<1>3. fields \in Seq(FieldOf(Result, NumberValue)) /\ Len(fields) = Len(node.fields)
  <2>1. /\ Len(node.fields) \in Nat /\ DOMAIN node.fields = 1..Len(node.fields)
        /\ \A k \in 1..Len(node.fields) : node.fields[k] \in FieldOf(Value, NumberValue)
    BY <1>1
  <2>2. \A k \in 1..Len(node.fields) :
          ResolvedField(table, node.fields[k]) \in FieldOf(Result, NumberValue)
    BY <2>1, ResolvedFieldType
  <2>3. fields \in [1..Len(node.fields) -> FieldOf(Result, NumberValue)]
    BY <2>1, <2>2
  <2> HIDE DEF fields
  <2> QED
    BY <2>1, <2>3, IsSeq
<1>4. Resolved(table, node) = [node EXCEPT !.value = value, !.fields = fields]
  BY DEF Resolved, ResolvedField
<1> HIDE DEF value, fields
<1>5. Resolved(table, node) =
        [kind |-> node.kind, name |-> node.name, type |-> node.type, value |-> value,
         members |-> node.members, fields |-> fields, body |-> node.body,
         scope |-> node.scope, size |-> node.size]
  <2> DEFINE s == [kind |-> node.kind, name |-> node.name, type |-> node.type, value |-> node.value,
                   members |-> node.members, fields |-> node.fields, body |-> node.body,
                   scope |-> node.scope, size |-> node.size]
  <2>1. node = s
    BY NodeTags DEF ParsedNode
  <2>2. Resolved(table, node) = [s EXCEPT !.value = value, !.fields = fields]
    BY <1>4, <2>1
  <2> QED
    BY <2>2
<1> QED
  BY <1>2, <1>3, <1>5 DEF value, fields

LEMMA ResolvedType ==
  ASSUME NEW table, Table(table), NEW node \in ParsedNode,
         ResolveFailures(Resolved(table, node)) = <<>>
  PROVE  Resolved(table, node) \in ResolvedNode /\ Alike(node, Resolved(table, node))
<1> DEFINE value == IF node.kind = "const" THEN _eval_expr(table, node.value) ELSE node.value
           fields == [k \in DOMAIN node.fields |-> ResolvedField(table, node.fields[k])]
           r == Resolved(table, node)
           failing == {k \in DOMAIN r.fields : Failures(r.fields[k].bound \o r.fields[k].predicates) # <<>>}
<1>1. /\ r = [kind |-> node.kind, name |-> node.name, type |-> node.type, value |-> value,
              members |-> node.members, fields |-> fields, body |-> node.body,
              scope |-> node.scope, size |-> node.size]
      /\ value \in Value \cup FailureValue
      /\ node.kind = "const" => value \in Result
      /\ node.kind # "const" => value \in Value
      /\ fields \in Seq(FieldOf(Result, NumberValue)) /\ Len(fields) = Len(node.fields)
  BY ResolvedShape
<1>2. \A k \in DOMAIN fields : fields[k] = ResolvedField(table, node.fields[k]) /\ k \in DOMAIN node.fields
  OBVIOUS
<1> DEFINE all == [k \in DOMAIN r.fields |-> r.fields[k].bound \o r.fields[k].predicates]
<1>3. ResolveFailures(r) = IF failing = {} THEN Failures(<<r.value>>)
                           ELSE Failures(all[Least(failing)])
  <2>1. failing = {k \in DOMAIN all : Failures(all[k]) # <<>>}
    OBVIOUS
  <2> QED
    BY <2>1 DEF ResolveFailures, NodeFailures
<1>4. ResolveFailures(r) = <<>>
  OBVIOUS
<1> HIDE DEF r, value, fields
<1>5. failing = {}
  <2> SUFFICES ASSUME failing # {} PROVE FALSE
    OBVIOUS
  <2>1. failing \subseteq DOMAIN fields
    BY <1>1
  <2>2. Places(failing)
    BY <1>1, <2>1, PlacesInSeq
  <2>3. Least(failing) \in failing
    BY <2>2, HasLeast
  <2> QED
    BY <1>3, <1>4, <2>3
<1>6. value \in Value /\ (node.kind = "const" => value \in NumberValue)
  <2>1. Failures(<<value>>) = <<>>
    BY <1>1, <1>3, <1>4, <1>5
  <2>2. <<value>> \in Seq(Value \cup FailureValue) /\ <<value>>[1] = value
    BY <1>1, SingleSeq
  <2>3. <<value>> \in Seq(Value)
    BY <2>1, <2>2, FailuresType
  <2>4. value \in Value
    BY <2>2, <2>3
  <2> QED
    BY <1>1, <2>4, FailureType DEF Result
<1>7. fields \in Seq(FieldOf(NumberValue, NumberValue))
  <2>1. Len(fields) \in Nat /\ DOMAIN fields = 1..Len(fields)
    BY <1>1
  <2>2. ASSUME NEW k \in 1..Len(fields) PROVE fields[k] \in FieldOf(NumberValue, NumberValue)
    <3>1. Failures(fields[k].bound \o fields[k].predicates) = <<>>
      BY <1>1, <1>5, <2>1
    <3>2. node.fields[k] \in FieldOf(Value, NumberValue)
      <4>1. node.fields \in Seq(FieldOf(Value, NumberValue))
        BY NodeTags DEF ParsedNode
      <4> QED
        BY <1>2, <2>1, <4>1
    <3>3. fields[k] = ResolvedField(table, node.fields[k])
      BY <1>2, <2>1
    <3> QED
      BY <3>1, <3>2, <3>3, ResolvedFieldType
  <2>3. fields \in [1..Len(fields) -> FieldOf(NumberValue, NumberValue)]
    BY <1>1, <2>1, <2>2
  <2> QED
    BY <2>1, <2>3, IsSeq
<1>8. r \in ResolvedNode
  BY <1>1, <1>6, <1>7, NodeTags DEF ResolvedNode, NodeOf, ParsedNode
<1>9. Alike(node, r)
  BY <1>1 DEF Alike
<1> QED
  BY <1>8, <1>9 DEF r

-----------------------------------------------------------------------------
(* resolve_types *)

LEMMA FullNameType ==
  ASSUME NEW scope \in Name, NEW name \in STRING
  PROVE  Append(scope, name) \in Name /\ (name \in Kinds => Append(scope, name) \in TypeName)
<1>1. /\ Append(scope, name) \in Seq(STRING) /\ Len(Append(scope, name)) = Len(scope) + 1
      /\ Append(scope, name)[Len(scope) + 1] = name /\ Len(scope) \in Nat
  BY AppendSeq DEF Name
<1>2. CASE Len(scope) = 0
  <2>1. Len(Append(scope, name)) = 1 /\ Append(scope, name)[1] = name
    BY <1>1, <1>2
  <2>2. KindOf(Append(scope, name)) = name
    BY <2>1 DEF KindOf
  <2>3. Append(scope, name) \in Name
    BY <1>1 DEF Name
  <2> QED
    BY <2>2, <2>3 DEF TypeName
<1>3. CASE Len(scope) # 0
  <2>1. Append(scope, name) \in Name
    BY <1>1 DEF Name
  <2>2. Len(Append(scope, name)) # 1
    BY <1>1, <1>3
  <2> QED
    BY <2>1, <2>2, KindsOfWords
<1> QED
  BY <1>2, <1>3

LEMMA InnermostType ==
  ASSUME NEW named, named \subseteq TypeName, NEW name \in TypeName, NEW scope \in Name
  PROVE  Innermost(named, name, scope) \in TypeName
<1> DEFINE S == Scopes(named, name, scope)
<1>1. S \subseteq 0..Len(scope) /\ Len(scope) \in Nat
  BY DEF Scopes, Name
<1>2. IsFiniteSet(0..Len(scope))
  BY <1>1, FS_Interval
<1>3. Places(S)
  <2> HIDE DEF S
  <2>1. S \in SUBSET (0..Len(scope)) /\ S \subseteq Int
    BY <1>1
  <2>2. IsFiniteSet(S)
    BY <1>2, <2>1, FS_Subset
  <2> QED
    BY <2>1, <2>2 DEF Places
<1>4. \A i \in S : SubSeq(scope, 1, i) \o name \in named
  BY DEF Scopes
<1>5. CASE S = {}
  BY <1>5 DEF Innermost
<1>6. CASE S # {}
  <2> DEFINE i == CHOOSE k \in S : \A j \in S : j <= k
  <2>1. Innermost(named, name, scope) = SubSeq(scope, 1, i) \o name
    BY <1>6 DEF Innermost
  <2> HIDE DEF S
  <2>2. \E k \in S : \A j \in S : j <= k
    BY <1>3, <1>6, HasGreatest
  <2>3. i \in S
    BY <2>2
  <2> HIDE DEF i
  <2> QED
    BY <1>4, <2>1, <2>3
<1> QED
  BY <1>5, <1>6

LEMMA TypedShape ==
  ASSUME NEW named, named \subseteq TypeName, NEW node \in ResolvedNode
  PROVE  Typed(named, node) \in ResolvedNode /\ Alike(node, Typed(named, node))
<1> DEFINE Numbers == FieldOf(NumberValue, NumberValue)
           Changed(f) == [f EXCEPT !.type = IF node.kind = "typedef"
                                            THEN OtherType(named, @, node.scope)
                                            ELSE FieldType(named, @, node.scope)]
           fields == [k \in DOMAIN node.fields |-> Changed(node.fields[k])]
           type == IF node.kind = "union" THEN OtherType(named, Normalized(node.type), node.scope)
                   ELSE node.type
           s == [kind |-> node.kind, name |-> node.name, type |-> node.type, value |-> node.value,
                 members |-> node.members, fields |-> node.fields, body |-> node.body,
                 scope |-> node.scope, size |-> node.size]
<1>1. node \in NodeOf(Value, Numbers) /\ (node.kind = "const" => node.value \in NumberValue)
  BY DEF ResolvedNode
<1>2. node = s /\ node.fields \in Seq(Numbers) /\ node.scope \in Name /\ node.type \in TypeName
  BY <1>1, NodeTags
<1>3. ASSUME NEW name \in TypeName
      PROVE  /\ FieldType(named, name, node.scope) \in TypeName
             /\ OtherType(named, name, node.scope) \in TypeName
  BY <1>2, InnermostType DEF FieldType, OtherType
<1>4. ASSUME NEW f \in Numbers PROVE Changed(f) \in Numbers
  <2> DEFINE t == IF node.kind = "typedef" THEN OtherType(named, f.type, node.scope)
                  ELSE FieldType(named, f.type, node.scope)
             g == [name |-> f.name, type |-> f.type, composite |-> f.composite,
                   array_lengths |-> f.array_lengths, is_sequence |-> f.is_sequence,
                   bound |-> f.bound, string_bound |-> f.string_bound, predicates |-> f.predicates]
  <2>1. f = g /\ f.type \in TypeName
    BY FieldTags
  <2>2. t \in TypeName
    BY <1>3, <2>1
  <2>3. Changed(f) = [f EXCEPT !.type = t]
    OBVIOUS
  <2> HIDE DEF t, Changed
  <2>4. Changed(f) = [name |-> f.name, type |-> t, composite |-> f.composite,
                    array_lengths |-> f.array_lengths, is_sequence |-> f.is_sequence,
                    bound |-> f.bound, string_bound |-> f.string_bound, predicates |-> f.predicates]
    BY <2>1, <2>3
  <2> QED
    BY <2>2, <2>4, FieldTags DEF FieldOf
<1>5. Typed(named, node) = [node EXCEPT !.type = type, !.fields = fields]
  BY DEF Typed
<1> HIDE DEF Changed
<1>6. fields \in Seq(Numbers) /\ Len(fields) = Len(node.fields)
  <2>1. /\ Len(node.fields) \in Nat /\ DOMAIN node.fields = 1..Len(node.fields)
        /\ \A k \in 1..Len(node.fields) : node.fields[k] \in Numbers
    BY <1>2
  <2>2. fields \in [1..Len(node.fields) -> Numbers]
    BY <1>4, <2>1
  <2> HIDE DEF fields
  <2> QED
    BY <2>1, <2>2, IsSeq
<1>7. type \in TypeName
  <2>1. Worded(node.type)
    BY <1>2 DEF Worded, TypeName
  <2>2. Normalized(node.type) \in TypeName
    BY <2>1, NormalizedType
  <2> QED
    BY <1>2, <1>3, <2>2
<1> HIDE DEF fields, type, s
<1>8. Typed(named, node) =
        [kind |-> node.kind, name |-> node.name, type |-> type, value |-> node.value,
         members |-> node.members, fields |-> fields, body |-> node.body,
         scope |-> node.scope, size |-> node.size]
  <2>1. Typed(named, node) = [s EXCEPT !.type = type, !.fields = fields]
    BY <1>2, <1>5
  <2> QED
    BY <2>1 DEF s
<1>9. Typed(named, node) \in ResolvedNode
  BY <1>1, <1>6, <1>7, <1>8, NodeTags DEF ResolvedNode, NodeOf
<1>10. Alike(node, Typed(named, node))
  BY <1>8 DEF Alike
<1> QED
  BY <1>9, <1>10

-----------------------------------------------------------------------------
(* build_map *)

ConstNode == {d \in ResolvedNode : d.kind = "const"}

MapItem == [name : Name, node : ResolvedNode, constants : Seq(ConstNode)]

LEMMA ResolvedTags ==
  ASSUME NEW d \in ResolvedNode
  PROVE  /\ d.kind \in {"const", "enum", "struct", "typedef", "union", "module"} /\ d.name \in STRING
         /\ d.type \in TypeName /\ d.members \in Seq(STRING)
         /\ d.fields \in Seq(FieldOf(NumberValue, NumberValue)) /\ d.scope \in Name /\ d.size \in Nat
         /\ d.kind = "typedef" => Len(d.fields) = 1
         /\ d.kind = "const" => d.value \in NumberValue
         /\ FullName(d) \in Name
<1>1. d \in NodeOf(Value, FieldOf(NumberValue, NumberValue)) /\ (d.kind = "const" => d.value \in NumberValue)
  BY DEF ResolvedNode
<1>2. d.scope \in Name /\ d.name \in STRING
  BY <1>1, NodeTags
<1>3. FullName(d) \in Name
  BY <1>2, FullNameType DEF FullName
<1> QED
  BY <1>1, <1>3, NodeTags

LEMMA EnumeratorsType ==
  ASSUME NEW node \in ResolvedNode
  PROVE  Enumerators(node) \in Seq(ConstNode) /\ Len(Enumerators(node)) = Len(node.members)
<1>1. Len(node.members) \in Nat /\ DOMAIN node.members = 1..Len(node.members)
      /\ \A k \in 1..Len(node.members) : node.members[k] \in STRING
  BY ResolvedTags
<1>2. FullName(node) \in Name
  BY ResolvedTags
<1> DEFINE e(k) == [Declaration("const", node.members[k]) EXCEPT
                      !.type = <<"uint32">>, !.value = IntValue(k - 1), !.scope = FullName(node)]
<1>3. ASSUME NEW k \in 1..Len(node.members) PROVE e(k) \in ConstNode
  <2>1. e(k) = [kind |-> "const", name |-> node.members[k], type |-> <<"uint32">>,
                value |-> IntValue(k - 1), members |-> <<>>, fields |-> <<>>, body |-> <<>>,
                scope |-> FullName(node), size |-> 0]
    <3> DEFINE d == Declaration("const", node.members[k])
               t == <<"uint32">>
               v == IntValue(k - 1)
               s == FullName(node)
    <3>1. d = [kind |-> "const", name |-> node.members[k], type |-> <<>>, value |-> IntValue(0),
               members |-> <<>>, fields |-> <<>>, body |-> <<>>, scope |-> <<>>, size |-> 0]
      BY DEF Declaration
    <3>2. e(k) = [d EXCEPT !.type = t, !.value = v, !.scope = s]
      OBVIOUS
    <3> HIDE DEF d, e, t, v, s
    <3>3. e(k) = [kind |-> "const", name |-> node.members[k], type |-> t, value |-> v,
                  members |-> <<>>, fields |-> <<>>, body |-> <<>>, scope |-> s, size |-> 0]
      BY <3>1, <3>2
    <3> QED
      BY <3>3 DEF t, v, s
  <2>2. IntValue(k - 1) \in NumberValue
    BY DEF IntValue, NumberValue
  <2>3. IntValue(k - 1) \in Value /\ <<"uint32">> \in TypeName
    BY <2>2, FailureType, KindsOfWords
  <2> HIDE DEF e
  <2> QED
    BY <1>1, <1>2, <2>1, <2>2, <2>3, EmptyIsSeq DEF ConstNode, ResolvedNode, NodeOf
<1>4. Enumerators(node) = [k \in 1..Len(node.members) |-> e(k)]
  BY <1>1 DEF Enumerators
<1> HIDE DEF e
<1>5. Enumerators(node) \in [1..Len(node.members) -> ConstNode]
  BY <1>3, <1>4
<1> QED
  BY <1>1, <1>5, IsSeq

LEMMA ItemType ==
  ASSUME NEW node \in ResolvedNode, NEW own \in Seq(ConstNode)
  PROVE  Item(node, own) \in MapItem
BY ResolvedTags DEF Item, MapItem

LEMMA ItemsType ==
  ASSUME NEW ns \in Seq(ResolvedNode), NEW i \in DOMAIN ns, ns[i].size < i
  PROVE  Items(ns, i) \in Seq(MapItem) /\ Items(ns, i) # <<>>
<1> DEFINE node == ns[i]
           enumerators == Enumerators(node)
           own == Own(ns, i, i - node.size)
           members == [k \in DOMAIN enumerators |-> Item(enumerators[k], <<>>)]
<1>1. node \in ResolvedNode /\ node.size < i /\ i \in Nat /\ DOMAIN ns = 1..Len(ns)
  OBVIOUS
<1>2. Items(ns, i) =
        CASE node.kind = "module" -> <<Item(node, Kept(ns, own))>>
          [] node.kind = "enum" -> <<Item(node, enumerators)>> \o members
          [] OTHER -> <<Item(node, <<>>)>>
  BY DEF Items
<1> HIDE DEF node
<1>3. ASSUME NEW item \in MapItem PROVE <<item>> \in Seq(MapItem) /\ <<item>> # <<>>
  OBVIOUS
<1>4. CASE node.kind = "module"
  <2>1. node.size \in Nat
    BY <1>1, ResolvedTags
  <2>2. \A j \in own : j \in DOMAIN ns /\ ns[j].kind = "const"
    BY <1>1, <2>1 DEF Own
  <2> HIDE DEF own
  <2>3. /\ Kept(ns, own) \in Seq(ResolvedNode) /\ Len(Kept(ns, own)) = Cardinality(own)
        /\ \A k \in 1..Cardinality(own) : Nth(own, k) \in own /\ Kept(ns, own)[k] = ns[Nth(own, k)]
    <3>1. own \subseteq DOMAIN ns
      BY <2>2
    <3> QED
      BY <3>1, KeptType
  <2>4. \A k \in 1..Len(Kept(ns, own)) : Kept(ns, own)[k] \in ConstNode
    BY <2>2, <2>3 DEF ConstNode
  <2>5. Kept(ns, own) \in Seq(ConstNode)
    BY <2>3, <2>4
  <2>6. Item(node, Kept(ns, own)) \in MapItem
    BY <1>1, <2>5, ItemType
  <2> QED
    BY <1>2, <1>3, <1>4, <2>6
<1>5. CASE node.kind = "enum"
  <2>1. enumerators \in Seq(ConstNode)
    BY <1>1, EnumeratorsType
  <2>2. Item(node, enumerators) \in MapItem
    BY <1>1, <2>1, ItemType
  <2>3. /\ Len(enumerators) \in Nat /\ DOMAIN enumerators = 1..Len(enumerators)
        /\ \A k \in 1..Len(enumerators) : enumerators[k] \in ResolvedNode
    BY <2>1 DEF ConstNode
  <2>4. \A k \in 1..Len(enumerators) : Item(enumerators[k], <<>>) \in MapItem
    BY <2>3, ItemType, EmptyIsSeq
  <2>5. members \in [1..Len(enumerators) -> MapItem]
    BY <2>3, <2>4
  <2>6. members \in Seq(MapItem)
    BY <2>3, <2>5, IsSeq
  <2>7. Items(ns, i) = <<Item(node, enumerators)>> \o members
    BY <1>2, <1>5
  <2> HIDE DEF members
  <2> QED
    BY <2>2, <2>6, <2>7
<1>6. CASE node.kind \notin {"module", "enum"}
  <2>1. Item(node, <<>>) \in MapItem
    BY <1>1, ItemType, EmptyIsSeq
  <2>2. Items(ns, i) = <<Item(node, <<>>)>>
    BY <1>2, <1>6
  <2> QED
    BY <1>3, <2>1, <2>2
<1> QED
  BY <1>4, <1>5, <1>6

LEMMA MapType ==
  ASSUME NEW m \in Seq(MapItem), NEW ns \in Seq(ResolvedNode), NEW i \in DOMAIN ns, ns[i].size < i
  PROVE  /\ build_map(m, ns, i) \in Seq(MapItem) /\ build_map(m, ns, i) # <<>>
         /\ NamesUnique(build_map(m, ns, i))
<1>1. Items(ns, i) \in Seq(MapItem) /\ Items(ns, i) # <<>>
  BY ItemsType
<1>2. m \o Items(ns, i) \in Seq(MapItem) /\ m \o Items(ns, i) # <<>>
  BY <1>1
<1> QED
  BY <1>2, ByNameType DEF build_map

-----------------------------------------------------------------------------
(* Typedefs *)

\* A finished map.
IdlMap(m) == m \in Seq(MapItem) /\ NamesUnique(m)

ChainType ==
  [type : TypeName, visited : SUBSET Name, array_lengths : Seq(NumberValue),
   is_sequence : BOOLEAN, bound : Seq(NumberValue), composes : BOOLEAN]

\* What a name stands for is one declaration.
LEMMA RefType ==
  ASSUME NEW m, IdlMap(m), NEW name
  PROVE  /\ \A node \in Ref(m, name) : node \in ResolvedNode
         /\ \A a, b \in Ref(m, name) : a = b
<1>1. m \in Seq(MapItem) /\ NamesUnique(m)
  BY DEF IdlMap
<1>2. \A i \in DOMAIN m : m[i].node \in ResolvedNode
  <2>1. \A i \in DOMAIN m : m[i] \in MapItem
    BY <1>1
  <2> QED
    BY <2>1 DEF MapItem
<1>3. \A node \in Ref(m, name) : \E i \in DOMAIN m : node = m[i].node /\ m[i].name = name
  BY DEF Ref
<1>4. \A i, j \in DOMAIN m : m[i].name = m[j].name => i = j
  BY <1>1 DEF NamesUnique
<1> QED
  BY <1>2, <1>3, <1>4

LEMMA FollowedType ==
  ASSUME NEW m, IdlMap(m), NEW t \in ChainType
  PROVE  Followed(m, t) \in ChainType
<1> DEFINE node == CHOOSE n \in Ref(m, t.type) : TRUE
           td == node.fields[1]
           composes == t.composes \/ \E inner \in Ref(m, td.type) :
                         inner.kind = "typedef" /\ Composes(td, inner.fields[1])
           bound == IF td.bound # <<>> THEN td.bound ELSE t.bound
<1>1. CASE ~IsKind(m, t.type, {"typedef"}) \/ t.type \in t.visited
  BY <1>1 DEF Followed
<1>2. CASE IsKind(m, t.type, {"typedef"}) /\ t.type \notin t.visited
  <2>1. Followed(m, t) =
          [type |-> td.type, visited |-> t.visited \cup {t.type},
           array_lengths |-> t.array_lengths \o td.array_lengths,
           is_sequence |-> t.is_sequence \/ td.is_sequence,
           bound |-> bound, composes |-> composes]
    BY <1>2 DEF Followed
  <2>2. PICK n \in Ref(m, t.type) : n.kind = "typedef"
    BY <1>2 DEF IsKind
  <2>3. node = n
    BY <2>2, RefType
  <2> HIDE DEF node
  <2>4. node \in ResolvedNode /\ node.kind = "typedef"
    BY <2>2, <2>3, RefType
  <2>5. node.fields \in Seq(FieldOf(NumberValue, NumberValue)) /\ Len(node.fields) = 1
    BY <2>4, ResolvedTags
  <2>6. td \in FieldOf(NumberValue, NumberValue)
    BY <2>5
  <2> HIDE DEF td
  <2>7. /\ td.type \in TypeName /\ td.array_lengths \in Seq(NumberValue)
        /\ td.is_sequence \in BOOLEAN /\ td.bound \in Seq(NumberValue)
    BY <2>6, FieldTags
  <2>8. /\ t.type \in TypeName /\ t.visited \subseteq Name /\ t.array_lengths \in Seq(NumberValue)
        /\ t.is_sequence \in BOOLEAN /\ t.bound \in Seq(NumberValue) /\ t.composes \in BOOLEAN
    BY DEF ChainType
  <2>9. t.array_lengths \o td.array_lengths \in Seq(NumberValue)
    BY <2>7, <2>8
  <2>10. (t.is_sequence \/ td.is_sequence) \in BOOLEAN
    OBVIOUS
  <2>11. composes \in BOOLEAN
    OBVIOUS
  <2>12. bound \in Seq(NumberValue)
    BY <2>7, <2>8
  <2>13. t.visited \cup {t.type} \in SUBSET Name
    BY <2>8 DEF TypeName
  <2> HIDE DEF composes, bound
  <2> QED
    BY <2>1, <2>7, <2>9, <2>10, <2>11, <2>12, <2>13 DEF ChainType
<1> QED
  BY <1>1, <1>2

LEMMA TypedefType ==
  ASSUME NEW m, IdlMap(m), NEW name \in TypeName
  PROVE  _resolve_typedef(m, name) \in ChainType
<1> DEFINE unresolved == [type |-> name, visited |-> {}, array_lengths |-> <<>>,
                          is_sequence |-> FALSE, bound |-> <<>>, composes |-> FALSE]
           F == [p \in Nat \X ChainType |-> Followed(m, p[2])]
           Step(h, n) == IF n = 0 THEN unresolved ELSE Followed(m, h[n - 1])
           chain == CHOOSE h : h = [n \in Nat |-> Step(h, n)]
<1>1. unresolved \in ChainType
  BY EmptyIsSeq DEF ChainType
<1>2. F \in [Nat \X ChainType -> ChainType]
  BY FollowedType
<1>3. \A i \in Nat, t \in ChainType : F[<<i, t>>] = Followed(m, t)
  OBVIOUS
<1> HIDE DEF unresolved, F
<1>4. PICK g : Recursive(g, ChainType, unresolved, F)
  BY <1>1, <1>2, Recursion
<1>5. ASSUME NEW n \in Nat PROVE g[n] = Step(g, n)
  <2>1. CASE n = 0
    BY <1>4, <2>1 DEF Recursive
  <2>2. CASE n # 0
    <3>1. n - 1 \in Nat /\ (n - 1) + 1 = n
      BY <2>2
    <3>2. g[n - 1] \in ChainType /\ g[n] = F[<<n - 1, g[n - 1]>>]
      BY <1>4, <3>1 DEF Recursive
    <3> QED
      BY <1>3, <2>2, <3>1, <3>2
  <2> QED
    BY <2>1, <2>2
<1>6. g = [n \in Nat |-> Step(g, n)]
  <2>1. g \in [Nat -> ChainType]
    BY <1>4 DEF Recursive
  <2> QED
    BY <1>5, <2>1
<1>7. chain = [n \in Nat |-> Step(chain, n)]
  BY <1>6
<1>8. _resolve_typedef(m, name) = chain[Len(m)]
  BY DEF _resolve_typedef, unresolved
<1> HIDE DEF chain
<1> DEFINE T == {n \in Nat : chain[n] \in ChainType}
<1>9. 0 \in T
  BY <1>1, <1>7
<1>10. ASSUME NEW n \in Nat, n \in T PROVE n + 1 \in T
  <2>1. (n + 1) - 1 = n /\ n + 1 \in Nat /\ n + 1 # 0
    OBVIOUS
  <2>2. chain[n + 1] = Step(chain, n + 1)
    BY <1>7, <2>1
  <2>3. chain[n + 1] = Followed(m, chain[n])
    BY <2>1, <2>2
  <2>4. chain[n] \in ChainType
    BY <1>10
  <2> QED
    BY <2>1, <2>3, <2>4, FollowedType
<1> HIDE DEF T
<1>11. Nat \subseteq T
  BY <1>9, <1>10, Induct
<1>12. Len(m) \in Nat
  BY DEF IdlMap
<1> QED
  BY <1>8, <1>11, <1>12 DEF T

-----------------------------------------------------------------------------
(* Conversion *)

\* Definitions that can be compiled: what is not complex is of a kind.
TypedField == {f \in MessageDefinitionField : f.isComplex \/ f.type \in TypeName}

TypedCase == [predicates : SUBSET Int, type : TypedField]

TypedDefinition ==
  [name : Name, aggregatedKind : AggregatedKind, switchType : TypeName,
   definitions : Seq(TypedField), cases : Seq(TypedCase), defaultCase : Seq(TypedField)]

\* Referring, field by field.
LEMMA ReferringMakes ==
  ASSUME NEW m, NEW type, NEW name
  PROVE  Referring(m, type, PlainField(name, <<>>)) =
           [name |-> name,
            type |-> IF IsKind(m, type, {"enum"}) THEN <<"uint32">> ELSE type,
            isComplex |-> IsKind(m, type, {"struct", "union"}),
            enumType |-> IF IsKind(m, type, {"enum"}) THEN type ELSE <<>>,
            isArray |-> FALSE, arrayLength |-> <<>>, arrayUpperBound |-> <<>>,
            isConstant |-> FALSE, value |-> <<>>]
<1> DEFINE f == PlainField(name, <<>>)
           newType == IF IsKind(m, type, {"enum"}) THEN <<"uint32">> ELSE type
           enumType == IF IsKind(m, type, {"enum"}) THEN type ELSE <<>>
           complex == IsKind(m, type, {"struct", "union"})
<1>1. f = [name |-> name, type |-> <<>>, isComplex |-> FALSE, enumType |-> <<>>,
           isArray |-> FALSE, arrayLength |-> <<>>, arrayUpperBound |-> <<>>,
           isConstant |-> FALSE, value |-> <<>>]
  BY DEF PlainField
<1>2. Referring(m, type, f) =
        [f EXCEPT !.type = newType, !.enumType = enumType, !.isComplex = complex]
  BY DEF Referring
<1> HIDE DEF f, newType, enumType, complex
<1>3. Referring(m, type, f) =
        [name |-> name, type |-> newType, isComplex |-> complex, enumType |-> enumType,
         isArray |-> FALSE, arrayLength |-> <<>>, arrayUpperBound |-> <<>>,
         isConstant |-> FALSE, value |-> <<>>]
  BY <1>1, <1>2
<1> QED
  BY <1>3 DEF f, newType, enumType, complex

LEMMA ReferenceType ==
  ASSUME NEW m, NEW type \in TypeName
  PROVE  /\ (IF IsKind(m, type, {"enum"}) THEN <<"uint32">> ELSE type) \in TypeName
         /\ (IF IsKind(m, type, {"enum"}) THEN <<"uint32">> ELSE type) \in Name
         /\ (IF IsKind(m, type, {"enum"}) THEN type ELSE <<>>) \in Name
         /\ IsKind(m, type, {"struct", "union"}) \in BOOLEAN
BY KindsOfWords DEF TypeName, IsKind

LEMMA ConstantType ==
  ASSUME NEW m, IdlMap(m), NEW node \in ConstNode
  PROVE  _convert_constant(m, node) \in TypedField
<1> DEFINE type == _resolve_typedef(m, node.type).type
           r == Referring(m, type, PlainField(node.name, <<>>))
           newType == IF IsKind(m, type, {"enum"}) THEN <<"uint32">> ELSE type
           enumType == IF IsKind(m, type, {"enum"}) THEN type ELSE <<>>
           complex == IsKind(m, type, {"struct", "union"})
           value == <<node.value.int>>
<1>1. node \in ResolvedNode /\ node.kind = "const"
  BY DEF ConstNode
<1>2. node.name \in STRING /\ node.type \in TypeName /\ node.value \in NumberValue
  BY <1>1, ResolvedTags
<1>3. type \in TypeName
  BY <1>2, TypedefType DEF ChainType
<1>4. value \in Seq(Int)
  <2>1. node.value.int \in Int
    BY <1>2, FailureType
  <2> QED
    BY <2>1, SingleSeq
<1>5. _convert_constant(m, node) = [r EXCEPT !.isConstant = TRUE, !.value = value]
  BY DEF _convert_constant
<1>6. r = [name |-> node.name, type |-> newType, isComplex |-> complex, enumType |-> enumType,
           isArray |-> FALSE, arrayLength |-> <<>>, arrayUpperBound |-> <<>>,
           isConstant |-> FALSE, value |-> <<>>]
  BY ReferringMakes
<1> HIDE DEF type, value
<1>7. newType \in TypeName /\ newType \in Name /\ enumType \in Name /\ complex \in BOOLEAN
  BY <1>3, ReferenceType
<1> HIDE DEF r, newType, enumType, complex
<1>8. _convert_constant(m, node) =
        [name |-> node.name, type |-> newType, isComplex |-> complex, enumType |-> enumType,
         isArray |-> FALSE, arrayLength |-> <<>>, arrayUpperBound |-> <<>>,
         isConstant |-> TRUE, value |-> value]
  BY <1>5, <1>6
<1> QED
  BY <1>2, <1>4, <1>7, <1>8, EmptyIsSeq DEF TypedField, MessageDefinitionField

LEMMA NumbersOf ==
  ASSUME NEW s \in Seq(NumberValue)
  PROVE  /\ [b \in DOMAIN s |-> s[b].int] \in Seq(Int)
         /\ \A i \in DOMAIN s : s[i].int \in Int
<1>1. /\ Len(s) \in Nat /\ DOMAIN s = 1..Len(s)
      /\ \A i \in 1..Len(s) : s[i] \in NumberValue
  OBVIOUS
<1>2. \A i \in 1..Len(s) : s[i].int \in Int
  BY <1>1, FailureType
<1>3. [b \in DOMAIN s |-> s[b].int] \in [1..Len(s) -> Int]
  BY <1>1, <1>2
<1> QED
  BY <1>1, <1>2, <1>3, IsSeq

LEMMA ConvertedFieldType ==
  ASSUME NEW m, IdlMap(m), NEW f \in FieldOf(NumberValue, NumberValue)
  PROVE  _convert_field(m, f) \in TypedField
<1> DEFINE td == _resolve_typedef(m, f.type)
           lengths == f.array_lengths \o td.array_lengths
           bound == IF f.is_sequence THEN f.bound ELSE td.bound
           r == Referring(m, td.type, PlainField(f.name, <<>>))
           newType == IF IsKind(m, td.type, {"enum"}) THEN <<"uint32">> ELSE td.type
           enumType == IF IsKind(m, td.type, {"enum"}) THEN td.type ELSE <<>>
           complex == IsKind(m, td.type, {"struct", "union"})
           isArray == lengths # <<>> \/ f.is_sequence \/ td.is_sequence
           arrayLength == IF lengths = <<>> THEN <<>> ELSE <<lengths[1].int>>
           upper == [b \in DOMAIN bound |-> bound[b].int]
<1>1. /\ f.name \in STRING /\ f.type \in TypeName /\ f.array_lengths \in Seq(NumberValue)
      /\ f.bound \in Seq(NumberValue)
  BY FieldTags
<1>2. td \in ChainType
  BY <1>1, TypedefType
<1>3. _convert_field(m, f) =
        [r EXCEPT !.isArray = isArray, !.arrayLength = arrayLength, !.arrayUpperBound = upper]
  BY DEF _convert_field
<1>4. r = [name |-> f.name, type |-> newType, isComplex |-> complex, enumType |-> enumType,
           isArray |-> FALSE, arrayLength |-> <<>>, arrayUpperBound |-> <<>>,
           isConstant |-> FALSE, value |-> <<>>]
  BY ReferringMakes
<1> HIDE DEF td
<1>5. td.type \in TypeName /\ td.array_lengths \in Seq(NumberValue) /\ td.bound \in Seq(NumberValue)
  BY <1>2 DEF ChainType
<1>6. newType \in TypeName /\ newType \in Name /\ enumType \in Name /\ complex \in BOOLEAN
  BY <1>5, ReferenceType
<1>7. lengths \in Seq(NumberValue) /\ bound \in Seq(NumberValue)
  BY <1>1, <1>5
<1> HIDE DEF lengths, bound
<1>8. upper \in Seq(Int)
  BY <1>7, NumbersOf
<1>9. arrayLength \in Seq(Int)
  <2>1. CASE lengths = <<>>
    BY <2>1, EmptyIsSeq
  <2>2. CASE lengths # <<>>
    <3>1. 1 \in DOMAIN lengths
      BY <1>7, <2>2
    <3>2. lengths[1].int \in Int
      BY <1>7, <3>1, NumbersOf
    <3> QED
      BY <2>2, <3>2, SingleSeq
  <2> QED
    BY <2>1, <2>2
<1>10. isArray \in BOOLEAN
  OBVIOUS
<1> HIDE DEF r, newType, enumType, complex, isArray, arrayLength, upper
<1>11. _convert_field(m, f) =
        [name |-> f.name, type |-> newType, isComplex |-> complex, enumType |-> enumType,
         isArray |-> isArray, arrayLength |-> arrayLength, arrayUpperBound |-> upper,
         isConstant |-> FALSE, value |-> <<>>]
  BY <1>3, <1>4
<1> QED
  BY <1>1, <1>6, <1>8, <1>9, <1>10, <1>11, EmptyIsSeq DEF TypedField, MessageDefinitionField

\* The fields that are kept of a declaration, converted.
LEMMA ConvertedFields ==
  ASSUME NEW m, IdlMap(m), NEW fields \in Seq(FieldOf(NumberValue, NumberValue))
  PROVE  [k \in DOMAIN fields |-> _convert_field(m, fields[k])] \in Seq(TypedField)
<1> DEFINE all == [k \in DOMAIN fields |-> _convert_field(m, fields[k])]
<1>1. /\ Len(fields) \in Nat /\ DOMAIN fields = 1..Len(fields)
      /\ \A k \in 1..Len(fields) : fields[k] \in FieldOf(NumberValue, NumberValue)
  OBVIOUS
<1>2. \A k \in 1..Len(fields) : _convert_field(m, fields[k]) \in TypedField
  BY <1>1, ConvertedFieldType
<1>3. all \in [1..Len(fields) -> TypedField]
  BY <1>1, <1>2
<1> HIDE DEF all
<1>4. all \in Seq(TypedField)
  BY <1>1, <1>3, IsSeq
<1> QED
  BY <1>4 DEF all

LEMMA ConvertedUnion ==
  ASSUME NEW m, IdlMap(m), NEW key \in Name, NEW node \in ResolvedNode
  PROVE  _convert_union(m, key, node) \in TypedDefinition
<1> DEFINE Numbers == FieldOf(NumberValue, NumberValue)
           switch == _resolve_typedef(m, node.type).type
           switchType == IF IsKind(m, switch, {"enum"}) THEN <<"uint32">> ELSE switch
           values(f) == {f.predicates[p].int : p \in DOMAIN f.predicates}
           Case1(f) == [predicates |-> values(f), type |-> _convert_field(m, f)]
           fields == DOMAIN node.fields
           C == {k \in fields : node.fields[k].predicates # <<>>}
           D == {k \in fields : node.fields[k].predicates = <<>>}
           cases == Kept(node.fields, C)
           defaults == Kept(node.fields, D)
           made == [k \in DOMAIN cases |-> Case1(cases[k])]
           default == IF defaults = <<>> THEN <<>> ELSE <<_convert_field(m, defaults[Len(defaults)])>>
<1>1. node.type \in TypeName /\ node.fields \in Seq(Numbers)
  BY ResolvedTags
<1>2. switchType \in TypeName
  <2>1. switch \in TypeName
    BY <1>1, TypedefType DEF ChainType
  <2> QED
    BY <2>1, ReferenceType
<1>3. C \subseteq DOMAIN node.fields /\ D \subseteq DOMAIN node.fields
  OBVIOUS
<1> HIDE DEF C, D, Numbers
<1>4. cases \in Seq(Numbers) /\ defaults \in Seq(Numbers)
  BY <1>1, <1>3, KeptType
<1>5. _convert_union(m, key, node) =
        [name |-> key, aggregatedKind |-> "union", switchType |-> switchType, definitions |-> <<>>,
         cases |-> made, defaultCase |-> default]
  BY DEF _convert_union, C, D
<1> HIDE DEF cases, defaults, switchType
<1>6. ASSUME NEW f \in Numbers PROVE Case1(f) \in TypedCase
  <2>1. f.predicates \in Seq(NumberValue)
    BY FieldTags DEF Numbers
  <2>2. \A p \in DOMAIN f.predicates : f.predicates[p].int \in Int
    BY <2>1, NumbersOf
  <2>3. values(f) \subseteq Int
    BY <2>2
  <2>4. _convert_field(m, f) \in TypedField
    BY ConvertedFieldType DEF Numbers
  <2> HIDE DEF values
  <2> QED
    BY <2>3, <2>4 DEF TypedCase
<1> HIDE DEF Case1
<1>7. made \in Seq(TypedCase)
  <2>1. /\ Len(cases) \in Nat /\ DOMAIN cases = 1..Len(cases)
        /\ \A k \in 1..Len(cases) : cases[k] \in Numbers
    BY <1>4
  <2>2. made \in [1..Len(cases) -> TypedCase]
    BY <1>6, <2>1
  <2> HIDE DEF made
  <2> QED
    BY <2>1, <2>2, IsSeq
<1>8. default \in Seq(TypedField)
  <2>1. CASE defaults = <<>>
    BY <2>1, EmptyIsSeq
  <2>2. CASE defaults # <<>>
    <3>1. defaults[Len(defaults)] \in Numbers
      BY <1>4, <2>2
    <3>2. _convert_field(m, defaults[Len(defaults)]) \in TypedField
      BY <3>1, ConvertedFieldType DEF Numbers
    <3> QED
      BY <2>2, <3>2, SingleSeq
  <2> QED
    BY <2>1, <2>2
<1> HIDE DEF made, default
<1> QED
  BY <1>2, <1>5, <1>7, <1>8, EmptyIsSeq DEF TypedDefinition, AggregatedKind

LEMMA AggregateType ==
  ASSUME NEW name \in Name, NEW kind \in AggregatedKind, NEW fields \in Seq(TypedField)
  PROVE  Aggregate(name, kind, fields) \in TypedDefinition
BY EmptyIsSeq, KindsOfWords DEF Aggregate, TypedDefinition

LEMMA ConvertedConstants ==
  ASSUME NEW m, IdlMap(m), NEW own \in Seq(ConstNode)
  PROVE  [k \in DOMAIN own |-> _convert_constant(m, own[k])] \in Seq(TypedField)
<1> DEFINE all == [k \in DOMAIN own |-> _convert_constant(m, own[k])]
<1>1. Len(own) \in Nat /\ DOMAIN own = 1..Len(own) /\ \A k \in 1..Len(own) : own[k] \in ConstNode
  OBVIOUS
<1>2. \A k \in 1..Len(own) : _convert_constant(m, own[k]) \in TypedField
  BY <1>1, ConstantType
<1>3. all \in [1..Len(own) -> TypedField]
  BY <1>1, <1>2
<1> HIDE DEF all
<1>4. all \in Seq(TypedField)
  BY <1>1, <1>3, IsSeq
<1> QED
  BY <1>4 DEF all

LEMMA ConvertedType ==
  ASSUME NEW m, IdlMap(m), NEW item \in MapItem
  PROVE  Converted(m, item) \in Seq(TypedDefinition)
<1> DEFINE own == [k \in DOMAIN item.constants |-> _convert_constant(m, item.constants[k])]
           fields == [k \in DOMAIN item.node.fields |-> _convert_field(m, item.node.fields[k])]
           kind == item.node.kind
<1>1. item.name \in Name /\ item.node \in ResolvedNode /\ item.constants \in Seq(ConstNode)
  BY DEF MapItem
<1>2. own \in Seq(TypedField)
  BY <1>1, ConvertedConstants
<1>3. fields \in Seq(TypedField)
  BY <1>1, ResolvedTags, ConvertedFields
<1>4. Converted(m, item) =
        CASE kind = "struct" -> <<Aggregate(item.name, "struct", fields)>>
          [] kind = "enum" \/ (kind = "module" /\ own # <<>>) -> <<Aggregate(item.name, "module", own)>>
          [] kind = "union" -> <<_convert_union(m, item.name, item.node)>>
          [] OTHER -> <<>>
  BY DEF Converted
<1> HIDE DEF own, fields, kind
<1>5. CASE kind = "struct"
  <2>1. Aggregate(item.name, "struct", fields) \in TypedDefinition
    BY <1>1, <1>3, AggregateType DEF AggregatedKind
  <2>2. Converted(m, item) = <<Aggregate(item.name, "struct", fields)>>
    BY <1>4, <1>5
  <2> QED
    BY <2>1, <2>2, SingleSeq
<1>6. CASE kind = "enum" \/ (kind = "module" /\ own # <<>>)
  <2>1. Aggregate(item.name, "module", own) \in TypedDefinition
    BY <1>1, <1>2, AggregateType DEF AggregatedKind
  <2>2. Converted(m, item) = <<Aggregate(item.name, "module", own)>>
    BY <1>4, <1>6
  <2> QED
    BY <2>1, <2>2, SingleSeq
<1>7. CASE kind = "union"
  <2>1. _convert_union(m, item.name, item.node) \in TypedDefinition
    BY <1>1, ConvertedUnion
  <2>2. Converted(m, item) = <<_convert_union(m, item.name, item.node)>>
    BY <1>4, <1>7
  <2> QED
    BY <2>1, <2>2, SingleSeq
<1>8. CASE kind \notin {"struct", "enum", "union"} /\ ~(kind = "module" /\ own # <<>>)
  <2>1. Converted(m, item) = <<>>
    BY <1>4, <1>8
  <2> QED
    BY <2>1, EmptyIsSeq
<1> QED
  BY <1>5, <1>6, <1>7, <1>8

LEMMA TopLevelType ==
  ASSUME NEW m, IdlMap(m)
  PROVE  TopLevel(m) \in Seq(TypedDefinition)
<1> DEFINE S == {i \in DOMAIN m : m[i].node.kind = "const" /\ Len(m[i].name) = 1}
           items == Kept(m, S)
           fields == [k \in DOMAIN items |-> _convert_constant(m, items[k].node)]
<1>1. m \in Seq(MapItem) /\ S \subseteq DOMAIN m
  BY DEF IdlMap
<1>2. \A i \in S : m[i].node.kind = "const"
  OBVIOUS
<1>3. TopLevel(m) = IF items = <<>> THEN <<>> ELSE <<Aggregate(<<>>, "module", fields)>>
  BY DEF TopLevel
<1> HIDE DEF S
<1>4. /\ items \in Seq(MapItem) /\ Len(items) = Cardinality(S)
      /\ \A k \in 1..Cardinality(S) : Nth(S, k) \in S /\ items[k] = m[Nth(S, k)]
  BY <1>1, KeptType
<1> HIDE DEF items
<1>5. /\ Len(items) \in Nat /\ DOMAIN items = 1..Len(items)
      /\ \A k \in 1..Len(items) : items[k] \in MapItem /\ items[k].node.kind = "const"
  BY <1>2, <1>4
<1>6. \A k \in 1..Len(items) : items[k].node \in ConstNode
  BY <1>5 DEF MapItem, ConstNode
<1>7. \A k \in 1..Len(items) : _convert_constant(m, items[k].node) \in TypedField
  BY <1>6, ConstantType
<1>8. fields \in [1..Len(items) -> TypedField]
  BY <1>5, <1>7
<1> HIDE DEF fields
<1>9. fields \in Seq(TypedField)
  BY <1>5, <1>8, IsSeq
<1>10. <<>> \in Name /\ "module" \in AggregatedKind
  BY EmptyIsSeq DEF Name, AggregatedKind
<1>11. <<Aggregate(<<>>, "module", fields)>> \in Seq(TypedDefinition)
  BY <1>9, <1>10, AggregateType, SingleSeq
<1> QED
  BY <1>3, <1>11, EmptyIsSeq

LEMMA DefinitionTags ==
  ASSUME NEW d \in TypedDefinition
  PROVE  /\ d.name \in Name /\ d.aggregatedKind \in AggregatedKind /\ d.switchType \in TypeName
         /\ d.definitions \in Seq(TypedField) /\ d.cases \in Seq(TypedCase)
         /\ d.defaultCase \in Seq(TypedField)
         /\ d = [name |-> d.name, aggregatedKind |-> d.aggregatedKind, switchType |-> d.switchType,
                 definitions |-> d.definitions, cases |-> d.cases, defaultCase |-> d.defaultCase]
BY DEF TypedDefinition

LEMMA MessageFieldTags ==
  ASSUME NEW f \in TypedField
  PROVE  /\ f.name \in STRING /\ f.type \in Name /\ f.isComplex \in BOOLEAN /\ f.enumType \in Name
         /\ f.isArray \in BOOLEAN /\ f.arrayLength \in Seq(Int) /\ f.arrayUpperBound \in Seq(Int)
         /\ f.isConstant \in BOOLEAN /\ f.value \in Seq(Int) /\ (f.isComplex \/ f.type \in TypeName)
         /\ f = [name |-> f.name, type |-> f.type, isComplex |-> f.isComplex,
                 enumType |-> f.enumType, isArray |-> f.isArray, arrayLength |-> f.arrayLength,
                 arrayUpperBound |-> f.arrayUpperBound, isConstant |-> f.isConstant,
                 value |-> f.value]
BY DEF TypedField, MessageDefinitionField

\* Other fields in place of a definition's own.
LEMMA WithDefinitions ==
  ASSUME NEW d \in TypedDefinition, NEW fields \in Seq(TypedField)
  PROVE  [d EXCEPT !.definitions = fields] \in TypedDefinition
BY DefinitionTags DEF TypedDefinition

LEMMA RenamedType ==
  ASSUME NEW d \in TypedDefinition
  PROVE  Renamed(d) \in TypedDefinition
<1> DEFINE name(f) == IF f.name = "nanosec" THEN "nsec" ELSE f.name
           Changed(f) == [f EXCEPT !.name = IF @ = "nanosec" THEN "nsec" ELSE @]
           fields == [k \in DOMAIN d.definitions |-> Changed(d.definitions[k])]
<1>1. Renamed(d) = IF d.name \in Times THEN [d EXCEPT !.definitions = fields] ELSE d
  BY DEF Renamed
<1>2. ASSUME NEW f \in TypedField PROVE Changed(f) \in TypedField
  <2>1. name(f) \in STRING
    BY StringsAssumption, MessageFieldTags
  <2>2. Changed(f) = [f EXCEPT !.name = name(f)]
    OBVIOUS
  <2> HIDE DEF name, Changed
  <2>3. Changed(f) = [name |-> name(f), type |-> f.type, isComplex |-> f.isComplex,
                    enumType |-> f.enumType, isArray |-> f.isArray, arrayLength |-> f.arrayLength,
                    arrayUpperBound |-> f.arrayUpperBound, isConstant |-> f.isConstant,
                    value |-> f.value]
    BY <2>2, MessageFieldTags
  <2> QED
    BY <2>1, <2>3, MessageFieldTags DEF TypedField, MessageDefinitionField
<1> HIDE DEF Changed
<1>3. fields \in Seq(TypedField)
  <2>1. /\ Len(d.definitions) \in Nat /\ DOMAIN d.definitions = 1..Len(d.definitions)
        /\ \A k \in 1..Len(d.definitions) : d.definitions[k] \in TypedField
    BY DefinitionTags
  <2>2. fields \in [1..Len(d.definitions) -> TypedField]
    BY <1>2, <2>1
  <2> HIDE DEF fields
  <2> QED
    BY <2>1, <2>2, IsSeq
<1> HIDE DEF fields
<1> QED
  BY <1>1, <1>3, WithDefinitions

-----------------------------------------------------------------------------
(* Blocks *)

LEMMA NormalizeType ==
  ASSUME NEW type \in TypeName
  PROVE  normalize_type(type) \in TypeName
<1>1. "uint8" \in Kinds /\ "int8" \in Kinds
  BY DEF Kinds, NumberKinds, Widths
<1> QED
  BY <1>1, KindsOfWords DEF normalize_type

LEMMA Ros1FieldType ==
  ASSUME NEW l \in Line, KindOf(l.type) \in Kinds
  PROVE  Ros1Field(l) \in TypedField
<1> DEFINE unsplit == l.stringBound \/ l.array = "atMost"
           type == CASE unsplit -> Unsplit
                     [] ~unsplit /\ l.array = "no" -> normalize_type(l.type)
                     [] OTHER -> l.type
           complex == type \notin BUILTIN_TYPES
           isArray == l.array \in {"any", "fixed"}
           length == IF l.array = "fixed" THEN <<l.length>> ELSE <<>>
           f == PlainField(l.name, type)
<1>1. /\ l.type \in Name /\ l.length \in Nat /\ l.name \in STRING /\ l.constant \in BOOLEAN
      /\ l.stringBound \in BOOLEAN
  BY DEF Line
<1>2. Unsplit \in Name
  <2>1. Unsplit[1] \in STRING
    BY StringsAssumption
  <2> QED
    BY <2>1, SingleSeq DEF Name, Unsplit
<1>3. l.type \in TypeName
  BY <1>1 DEF TypeName
<1>4. type \in Name /\ (unsplit \/ type \in TypeName)
  BY <1>2, <1>3, NormalizeType DEF TypeName
<1>5. unsplit => complex
  <2>1. Unsplit \notin BUILTIN_TYPES
    BY Zenon DEF Unsplit, BUILTIN_TYPES
  <2> QED
    BY <2>1
<1>6. length \in Seq(Int)
  BY <1>1, SingleSeq, EmptyIsSeq
<1>7. f = [name |-> l.name, type |-> type, isComplex |-> FALSE, enumType |-> <<>>,
           isArray |-> FALSE, arrayLength |-> <<>>, arrayUpperBound |-> <<>>,
           isConstant |-> FALSE, value |-> <<>>]
  BY DEF PlainField
<1>8. Ros1Field(l) =
        [f EXCEPT !.isComplex = complex, !.isArray = isArray, !.arrayLength = length,
                  !.isConstant = l.constant]
  BY DEF Ros1Field
<1>9. complex \in BOOLEAN /\ isArray \in BOOLEAN /\ <<>> \in Seq(Int) /\ <<>> \in Name
  BY DEF Name
<1> HIDE DEF type, complex, isArray, length, f, unsplit
<1>10. Ros1Field(l) =
        [name |-> l.name, type |-> type, isComplex |-> complex, enumType |-> <<>>,
         isArray |-> isArray, arrayLength |-> length, arrayUpperBound |-> <<>>,
         isConstant |-> l.constant, value |-> <<>>]
  BY <1>7, <1>8
<1>11. Ros1Field(l) \in MessageDefinitionField
  BY <1>1, <1>4, <1>6, <1>9, <1>10 DEF MessageDefinitionField
<1> QED
  BY <1>4, <1>5, <1>10, <1>11 DEF TypedField

\* What Unique keeps of definitions are some of them, at least one if there is one.
LEMMA UniqueType ==
  ASSUME NEW X, NEW types \in Seq(X)
  PROVE  /\ Unique(types) \in Seq(X)
         /\ types # <<>> => Unique(types) # <<>>
<1> DEFINE S == {i \in DOMAIN types : \A j \in DOMAIN types : types[j] = types[i] => i <= j}
<1>1. S \subseteq DOMAIN types
  OBVIOUS
<1>2. ASSUME types # <<>> PROVE S # {}
  <2>1. 1 \in DOMAIN types /\ DOMAIN types = 1..Len(types)
    BY <1>2
  <2>2. 1 \in S
    BY <2>1
  <2> HIDE DEF S
  <2> QED
    BY <2>2
<1>3. Unique(types) = Kept(types, S)
  BY DEF Unique
<1> HIDE DEF S
<1> QED
  BY <1>1, <1>2, <1>3, KeptType

\* The words of blocks are kinds.
WordedBlock == {b \in Block : \A k \in DOMAIN b.lines : KindOf(b.lines[k].type) \in Kinds}

LEMMA BuiltType ==
  ASSUME NEW blocks \in Seq(WordedBlock)
  PROVE  /\ Built(blocks, FALSE) \in Seq(TypedDefinition)
         /\ blocks # <<>> => Built(blocks, FALSE) # <<>>
<1> DEFINE Fields(i) == [k \in DOMAIN blocks[i].lines |-> Ros1Field(blocks[i].lines[k])]
           types == [i \in DOMAIN blocks |-> Aggregate(blocks[i].name, "struct", Fields(i))]
<1>1. ASSUME NEW i \in DOMAIN blocks
      PROVE  Aggregate(blocks[i].name, "struct", Fields(i)) \in TypedDefinition
  <2> DEFINE lines == blocks[i].lines
  <2>1. blocks[i] \in WordedBlock
    BY <1>1
  <2>2. blocks[i].name \in Name /\ lines \in Seq(Line)
    <3>1. blocks[i] \in Block
      BY <2>1 DEF WordedBlock
    <3>2. blocks[i].name \in Seq(STRING \ {Unsplit[1]}) /\ lines \in Seq(Line)
      BY <3>1 DEF Block
    <3> HIDE DEF lines
    <3> QED
      BY <3>2, SeqMono DEF Name
  <2>3. ASSUME NEW k \in DOMAIN lines PROVE Ros1Field(lines[k]) \in TypedField
    <3>1. lines[k] \in Line
      BY <2>2, <2>3
    <3>2. KindOf(lines[k].type) \in Kinds
      BY <2>1, <2>3 DEF WordedBlock
    <3> QED
      BY <3>1, <3>2, Ros1FieldType
  <2>4. DOMAIN lines = 1..Len(lines) /\ Len(lines) \in Nat
    BY <2>2
  <2> HIDE DEF lines
  <2>5. [k \in DOMAIN lines |-> Ros1Field(lines[k])] \in [1..Len(lines) -> TypedField]
    BY <2>3, <2>4
  <2>6. [k \in DOMAIN lines |-> Ros1Field(lines[k])] \in Seq(TypedField)
    BY <2>4, <2>5, IsSeq
  <2>7. Fields(i) \in Seq(TypedField)
    BY <2>6 DEF lines
  <2>8. "struct" \in AggregatedKind
    BY DEF AggregatedKind
  <2> HIDE DEF Fields
  <2> QED
    BY <2>2, <2>7, <2>8, AggregateType
<1>2. Built(blocks, FALSE) = Unique(types)
  BY DEF Built
<1>3. DOMAIN blocks = 1..Len(blocks) /\ Len(blocks) \in Nat
  OBVIOUS
<1>4. types \in [1..Len(blocks) -> TypedDefinition]
  <2> HIDE DEF Fields
  <2> QED
    BY <1>1, <1>3
<1>5. blocks # <<>> => Len(blocks) # 0
  OBVIOUS
<1> HIDE DEF types
<1>6. types \in Seq(TypedDefinition) /\ Len(types) = Len(blocks)
  BY <1>3, <1>4, IsSeq
<1>7. blocks # <<>> => types # <<>>
  BY <1>5, <1>6
<1> QED
  BY <1>2, <1>6, <1>7, UniqueType

\* Where nothing is ambiguous, _find_type_by_name finds a definition.
LEMMA MatchFound ==
  ASSUME NEW types \in Seq(TypedDefinition), NEW msg, ~Ambiguous(types, msg),
         NEW k \in DOMAIN msg.definitions, msg.definitions[k].isComplex
  PROVE  LET S == Matches(types, msg.definitions[k].type, Namespace(msg))
         IN (CHOOSE i \in S : TRUE) \in S /\ S \subseteq DOMAIN types /\ Cardinality(S) = 1
<1> DEFINE S == Matches(types, msg.definitions[k].type, Namespace(msg))
<1>1. Cardinality(S) = 1
  BY DEF Ambiguous
<1>2. S \subseteq DOMAIN types
  BY DEF Matches
<1>3. IsFiniteSet(S)
  BY <1>2, PlacesInSeq DEF Places
<1> HIDE DEF S
<1>4. S # {}
  BY <1>1, <1>3, FS_EmptySet
<1>5. (CHOOSE i \in S : TRUE) \in S
  BY <1>4
<1> QED
  BY <1>1, <1>2, <1>5 DEF S

QualifiedField(types, msg, f) ==
  IF ~f.isComplex THEN f
  ELSE [f EXCEPT !.type = types[CHOOSE i \in Matches(types, f.type, Namespace(msg)) : TRUE].name]

LEMMA QualifiedType ==
  ASSUME NEW types \in Seq(TypedDefinition), NEW msg \in TypedDefinition, ~Ambiguous(types, msg)
  PROVE  /\ Qualified(types, msg) \in TypedDefinition
         /\ Qualified(types, msg) =
              [msg EXCEPT !.definitions = [k \in DOMAIN msg.definitions |->
                                             QualifiedField(types, msg, msg.definitions[k])]]
         /\ Qualified(types, msg).name = msg.name
<1> DEFINE fields == [k \in DOMAIN msg.definitions |->
                        QualifiedField(types, msg, msg.definitions[k])]
<1>1. Qualified(types, msg) = [msg EXCEPT !.definitions = fields]
  BY DEF Qualified, QualifiedField
<1>2. msg.definitions \in Seq(TypedField)
  BY DefinitionTags
<1>3. ASSUME NEW k \in DOMAIN msg.definitions
      PROVE  QualifiedField(types, msg, msg.definitions[k]) \in TypedField
  <2> DEFINE f == msg.definitions[k]
             S == Matches(types, f.type, Namespace(msg))
             i == CHOOSE j \in S : TRUE
             name == types[i].name
  <2>1. f \in TypedField
    BY <1>2, <1>3
  <2>2. CASE ~f.isComplex
    BY <2>1, <2>2 DEF QualifiedField
  <2>3. CASE f.isComplex
    <3>1. i \in S /\ S \subseteq DOMAIN types
      BY <1>3, <2>3, MatchFound
    <3>2. types[i] \in TypedDefinition
      BY <3>1
    <3>3. name \in Name
      <4> HIDE DEF i
      <4> QED
        BY <3>2, DefinitionTags
    <3>4. QualifiedField(types, msg, f) = [f EXCEPT !.type = name]
      BY <2>3 DEF QualifiedField
    <3> HIDE DEF f, name
    <3>5. QualifiedField(types, msg, f) =
            [name |-> f.name, type |-> name, isComplex |-> f.isComplex, enumType |-> f.enumType,
             isArray |-> f.isArray, arrayLength |-> f.arrayLength,
             arrayUpperBound |-> f.arrayUpperBound, isConstant |-> f.isConstant,
             value |-> f.value]
      BY <2>1, <3>4, MessageFieldTags
    <3>6. QualifiedField(types, msg, f) \in MessageDefinitionField
      BY <2>1, <3>3, <3>5, MessageFieldTags DEF MessageDefinitionField
    <3>7. QualifiedField(types, msg, f) \in TypedField
      BY <2>3, <3>5, <3>6 DEF TypedField
    <3> QED
      BY <3>7 DEF f
  <2> QED
    BY <2>2, <2>3
<1>4. DOMAIN msg.definitions = 1..Len(msg.definitions) /\ Len(msg.definitions) \in Nat
  BY <1>2
<1>5. fields \in [1..Len(msg.definitions) -> TypedField]
  BY <1>3, <1>4
<1> HIDE DEF fields
<1>6. fields \in Seq(TypedField)
  BY <1>4, <1>5, IsSeq
<1>7. [msg EXCEPT !.definitions = fields].name = msg.name
  BY DefinitionTags
<1> QED
  BY <1>1, <1>6, <1>7, WithDefinitions DEF fields

-----------------------------------------------------------------------------
(* Plans *)

LEMMA TypedIsMessage ==
  /\ TypedDefinition \subseteq MessageDefinition
  /\ \A ds \in Seq(TypedDefinition) : ds \in Seq(MessageDefinition)
<1>1. TypedField \subseteq MessageDefinitionField
  BY DEF TypedField
<1>2. TypeName \subseteq Name
  BY DEF TypeName
<1>3. TypedCase \subseteq UnionCase
  BY <1>1 DEF TypedCase, UnionCase
<1>4. Seq(TypedField) \subseteq Seq(MessageDefinitionField) /\ Seq(TypedCase) \subseteq Seq(UnionCase)
  BY <1>1, <1>3, SeqMono
<1>5. TypedDefinition \subseteq MessageDefinition
  <2> HIDE DEF TypedField, TypedCase
  <2> QED
    BY <1>2, <1>4 DEF TypedDefinition, MessageDefinition
<1> QED
  BY <1>5, SeqMono

LEMMA FieldPlanType ==
  ASSUME NEW ds \in Seq(TypedDefinition), NEW f \in TypedField, NEW enumAsString \in BOOLEAN,
         f.isComplex => f.type \in NamesOf(ds)
  PROVE  FieldPlan(ds, f, enumAsString) \in Field
<1> DEFINE kind == IF f.isComplex THEN "complex" ELSE KindOf(f.type)
           target == IF f.isComplex THEN IndexOf(ds, f.type) ELSE 1
           count == IF ~f.isArray THEN -1 ELSE IF f.arrayLength = <<>> THEN -2 ELSE f.arrayLength[1]
           mapped == /\ enumAsString /\ f.enumType # <<>>
                     /\ \E i \in Enums(ds) : ds[i].name = f.enumType
<1>1. kind \in Kinds
  <2>1. "complex" \in Kinds
    BY DEF Kinds
  <2>2. ~f.isComplex => KindOf(f.type) \in Kinds
    BY MessageFieldTags DEF TypeName
  <2> QED
    BY <2>1, <2>2
<1>2. target \in Nat
  <2>1. ASSUME f.isComplex PROVE IndexOf(ds, f.type) \in Nat
    <3>1. ds \in Seq(MessageDefinition)
      BY TypedIsMessage
    <3>2. IndexOf(ds, f.type) \in 1..Cardinality(Firsts(ds))
      BY <2>1, <3>1, IndexInRange
    <3> QED
      BY <3>2
  <2> QED
    BY <2>1
<1>3. count \in Int
  <2>1. f.arrayLength \in Seq(Int)
    BY MessageFieldTags
  <2>2. f.arrayLength # <<>> => f.arrayLength[1] \in Int
    BY <2>1
  <2> QED
    BY <2>2
<1>4. mapped \in BOOLEAN
  OBVIOUS
<1>5. FieldPlan(ds, f, enumAsString) =
        [kind |-> kind, target |-> target, count |-> count, mapped |-> mapped]
  BY DEF FieldPlan
<1> HIDE DEF kind, target, count, mapped
<1> QED
  BY <1>1, <1>2, <1>3, <1>4, <1>5 DEF Field

LEMMA PlanType ==
  ASSUME NEW ds \in Seq(TypedDefinition), NEW d \in TypedDefinition, NEW enumAsString \in BOOLEAN,
         \A f \in Planned(d) : f.isComplex => f.type \in NamesOf(ds)
  PROVE  PlanOf(ds, d, enumAsString) \in Plan
<1> DEFINE D == DataFields(d)
           fields == [k \in 1..Cardinality(D) |->
                        FieldPlan(ds, d.definitions[Nth(D, k)], enumAsString)]
           cases == [k \in DOMAIN d.cases |->
                       [values |-> d.cases[k].predicates,
                        field |-> FieldPlan(ds, d.cases[k].type, enumAsString)]]
           default == [k \in DOMAIN d.defaultCase |->
                         FieldPlan(ds, d.defaultCase[k], enumAsString)]
           union == d.aggregatedKind = "union"
           switch == KindOf(d.switchType)
<1>1. /\ d.definitions \in Seq(TypedField) /\ d.cases \in Seq(TypedCase)
      /\ d.defaultCase \in Seq(TypedField) /\ d.switchType \in TypeName
  BY DefinitionTags
<1>2. fields \in Seq(Field)
  <2>1. D \subseteq DOMAIN d.definitions
    BY DEF DataFields
  <2>2. Places(D)
    BY <1>1, <2>1, PlacesInSeq
  <2>3. Cardinality(D) \in Nat
    BY <2>2, FS_CardinalityType DEF Places
  <2>4. ASSUME NEW k \in 1..Cardinality(D)
        PROVE  FieldPlan(ds, d.definitions[Nth(D, k)], enumAsString) \in Field
    <3>1. Nth(D, k) \in D
      BY <2>2, NthRank
    <3>2. d.definitions[Nth(D, k)] \in TypedField
      BY <1>1, <2>1, <3>1
    <3>3. d.definitions[Nth(D, k)] \in Planned(d)
      BY <3>1 DEF Planned
    <3> QED
      BY <3>2, <3>3, FieldPlanType
  <2> HIDE DEF D
  <2>5. fields \in [1..Cardinality(D) -> Field]
    BY <2>4
  <2> HIDE DEF fields
  <2> QED
    BY <2>3, <2>5, IsSeq
<1>3. cases \in Seq(Case)
  <2>1. ASSUME NEW k \in DOMAIN d.cases
        PROVE  [values |-> d.cases[k].predicates,
                field |-> FieldPlan(ds, d.cases[k].type, enumAsString)] \in Case
    <3>1. d.cases[k] \in TypedCase
      BY <1>1, <2>1
    <3>2. d.cases[k].predicates \in SUBSET Int /\ d.cases[k].type \in TypedField
      BY <3>1 DEF TypedCase
    <3>3. d.cases[k].type \in Planned(d)
      BY <2>1 DEF Planned
    <3>4. FieldPlan(ds, d.cases[k].type, enumAsString) \in Field
      BY <3>2, <3>3, FieldPlanType
    <3> QED
      BY <3>2, <3>4 DEF Case
  <2>2. DOMAIN d.cases = 1..Len(d.cases) /\ Len(d.cases) \in Nat
    BY <1>1
  <2>3. cases \in [1..Len(d.cases) -> Case]
    BY <2>1, <2>2
  <2> HIDE DEF cases
  <2> QED
    BY <2>2, <2>3, IsSeq
<1>4. default \in Seq(Field)
  <2>1. ASSUME NEW k \in DOMAIN d.defaultCase
        PROVE  FieldPlan(ds, d.defaultCase[k], enumAsString) \in Field
    <3>1. d.defaultCase[k] \in TypedField
      BY <1>1, <2>1
    <3>2. d.defaultCase[k] \in Planned(d)
      BY <2>1 DEF Planned
    <3> QED
      BY <3>1, <3>2, FieldPlanType
  <2>2. DOMAIN d.defaultCase = 1..Len(d.defaultCase) /\ Len(d.defaultCase) \in Nat
    BY <1>1
  <2>3. default \in [1..Len(d.defaultCase) -> Field]
    BY <2>1, <2>2
  <2> HIDE DEF default
  <2> QED
    BY <2>2, <2>3, IsSeq
<1>5. union \in BOOLEAN /\ switch \in Kinds
  BY <1>1 DEF TypeName
<1>6. PlanOf(ds, d, enumAsString) =
        [union |-> union, switch |-> switch, fields |-> fields, cases |-> cases,
         default |-> default]
  BY DEF PlanOf
<1> HIDE DEF union, switch, fields, cases, default
<1> QED
  BY <1>2, <1>3, <1>4, <1>5, <1>6 DEF Plan

\* What compiles is a schema: its kinds are kinds and its targets are numbers.
LEMMA CompiledIsSchema ==
  ASSUME NEW ds \in Seq(TypedDefinition), NEW wanted, NEW enumAsString \in BOOLEAN,
         NEW bytes \in BOOLEAN, Compiles(ds)
  PROVE  Compiled(ds, wanted, enumAsString, bytes) \in Schema
<1> DEFINE F == Firsts(ds)
           Made(k) == Named(ds, ds[Nth(F, k)].name)
           plans == [k \in 1..Cardinality(F) |-> PlanOf(ds, Made(k), enumAsString)]
           root == IndexOf(ds, PythonRoot(ds, wanted).name)
<1>1. ds \in Seq(MessageDefinition)
  BY TypedIsMessage
<1>2. Data(ds) # {} /\ Dangling(ds) = {}
  BY DEF Compiles
<1>3. Places(F) /\ F \subseteq DOMAIN ds
  BY <1>1, FirstsArePlaces
<1>4. Cardinality(F) \in Nat
  BY <1>3, FS_CardinalityType DEF Places
<1>5. ASSUME NEW k \in 1..Cardinality(F) PROVE PlanOf(ds, Made(k), enumAsString) \in Plan
  <2> DEFINE name == ds[Nth(F, k)].name
  <2>1. Nth(F, k) \in DOMAIN ds
    BY <1>3, NthRank
  <2>2. name \in NamesOf(ds)
    BY <2>1 DEF NamesOf
  <2>3. PICK i \in DOMAIN ds : Named(ds, name) = ds[i]
    <3> HIDE DEF name
    <3> QED
      BY <1>1, <2>2, NamedHasName
  <2>4. Made(k) \in TypedDefinition
    BY <2>3
  <2>5. ASSUME NEW f \in Planned(Made(k)), f.isComplex PROVE f.type \in NamesOf(ds)
    <3>1. f \in UNION {Planned(Named(ds, n)) : n \in NamesOf(ds)}
      BY <2>2, <2>5
    <3> QED
      BY <1>2, <2>5, <3>1 DEF Dangling
  <2> HIDE DEF Made
  <2> QED
    BY <2>4, <2>5, PlanType
<1>6. plans \in Seq(Plan)
  <2> HIDE DEF F, Made
  <2>1. plans \in [1..Cardinality(F) -> Plan]
    BY <1>5
  <2> HIDE DEF plans
  <2> QED
    BY <1>4, <2>1, IsSeq
<1>7. root \in Nat
  <2>1. PICK i \in DOMAIN ds : PythonRoot(ds, wanted) = ds[i]
    BY <1>1, <1>2, RootIsDefined
  <2>2. PythonRoot(ds, wanted).name \in NamesOf(ds)
    BY <2>1 DEF NamesOf
  <2>3. root \in 1..Cardinality(F)
    BY <1>1, <2>2, IndexInRange
  <2> QED
    BY <1>4, <2>3
<1>8. Compiled(ds, wanted, enumAsString, bytes) = [plans |-> plans, root |-> root, bytes |-> bytes]
  BY DEF Compiled
<1> HIDE DEF plans, root
<1> QED
  BY <1>6, <1>7, <1>8 DEF Schema

-----------------------------------------------------------------------------
(* The passes *)

Passes == {"parse", "constants", "types", "map"}

\* How far the passes have come.  Each pass looks at one declaration, item or
\* definition after the other, and there is always one to look at.
PlacesOK ==
  /\ stage \in Passes \cup {"convert", "rename", "blocks", "fixup", "compile"}
  /\ outcome \in {"", "reader", "none", "raised"}
  /\ at \in Nat \ {0}
  /\ stage \in Passes => at \in DOMAIN nodes
  /\ stage = "convert" => at \in DOMAIN map
  /\ stage = "blocks" => at = 1 /\ text.ros # <<>>
  /\ stage = "fixup" => at \in DOMAIN defs

\* What a pass has done to the declarations: those before the place it has come
\* to have no failures left, those behind it are as the pass before left them.
NodesOK ==
  /\ nodes = [i \in DOMAIN text.idl |-> nodes[i]]
  /\ \A i \in DOMAIN text.idl : Alike(text.idl[i], nodes[i])
  /\ stage = "parse" =>
       \A i \in DOMAIN nodes : nodes[i] \in IF i < at THEN ParsedNode ELSE WordedNode
  /\ stage = "constants" =>
       \A i \in DOMAIN nodes : nodes[i] \in IF i < at THEN ResolvedNode ELSE ParsedNode
  /\ stage \in {"types", "map", "convert"} => \A i \in DOMAIN nodes : nodes[i] \in ResolvedNode

\* A decoder is built once, from definitions that compile.
SchemaOK ==
  Ready => /\ Compiles(defs)
           /\ schema = Compiled(defs, text.wanted, text.enumAsString, TRUE)

PassesInv ==
  /\ text \in Texts
  /\ PlacesOK
  /\ NodesOK
  /\ Table(constants)
  /\ IdlMap(map)
  /\ defs \in Seq(TypedDefinition)
  /\ SchemaOK

\* What TextsAssumption says of one text.
LEMMA TextType ==
  ASSUME NEW t \in Texts
  PROVE  /\ t \in SchemaText
         /\ t.encoding = "ros2msg" => t.ros # <<>>
         /\ t.idl \in Seq(WordedNode)
         /\ \A i \in DOMAIN t.idl : t.idl[i].size < i /\ t.idl[i].name \in Kinds
         /\ t.ros \in Seq(WordedBlock)
<1>1. t \in SchemaText
  BY TextsAssumption
<1>2. t.encoding = "ros2msg" => t.ros # <<>>
  BY TextsAssumption
<1>3. \A i \in DOMAIN t.idl : t.idl[i].size < i /\ t.idl[i].name \in Kinds
  BY TextsAssumption
<1>4. /\ \A name \in IdlTypes(t) : name \in DOMAIN _NORMALIZATION \/ KindOf(name) \in Kinds
      /\ \A name \in RosTypes(t) : KindOf(name) \in Kinds
  BY TextsAssumption
<1>5. t.idl \in Seq(DeclarationText) /\ t.ros \in Seq(Block)
  BY <1>1 DEF SchemaText
<1>6. ASSUME NEW i \in DOMAIN t.idl PROVE t.idl[i] \in WordedNode
  <2> DEFINE d == t.idl[i]
  <2>1. d \in DeclarationText /\ d \in Range(t.idl)
    BY <1>5, <1>6 DEF Range
  <2>2. d.type \in Name /\ d.fields \in Seq(DeclaratorText)
    BY <2>1 DEF DeclarationText
  <2>3. d.type \in IdlTypes(t)
    BY <2>1 DEF IdlTypes
  <2>4. Worded(d.type)
    BY <1>4, <2>2, <2>3 DEF Worded
  <2>5. ASSUME NEW k \in DOMAIN d.fields PROVE Worded(d.fields[k].type.name)
    <3>1. d.fields[k] \in DeclaratorText /\ d.fields[k] \in Range(d.fields)
      BY <2>2, <2>5 DEF Range
    <3>2. d.fields[k].type \in TypeText
      BY <3>1 DEF DeclaratorText
    <3>3. d.fields[k].type.name \in Name
      BY <3>2 DEF TypeText
    <3>4. d.fields[k].type.name \in IdlTypes(t)
      BY <2>1, <3>1 DEF IdlTypes
    <3> QED
      BY <1>4, <3>3, <3>4 DEF Worded
  <2> HIDE DEF d
  <2>6. d \in WordedNode
    BY <2>1, <2>4, <2>5 DEF WordedNode
  <2> QED
    BY <2>6 DEF d
<1>7. t.idl \in Seq(WordedNode)
  <2>1. DOMAIN t.idl = 1..Len(t.idl) /\ Len(t.idl) \in Nat /\ t.idl = [i \in DOMAIN t.idl |-> t.idl[i]]
    BY <1>5
  <2>2. t.idl \in [1..Len(t.idl) -> WordedNode]
    BY <1>6, <2>1
  <2> QED
    BY <2>1, <2>2, IsSeq
<1>8. ASSUME NEW i \in DOMAIN t.ros PROVE t.ros[i] \in WordedBlock
  <2> DEFINE b == t.ros[i]
  <2>1. b \in Block /\ b \in Range(t.ros)
    BY <1>5, <1>8 DEF Range
  <2>2. ASSUME NEW k \in DOMAIN b.lines PROVE KindOf(b.lines[k].type) \in Kinds
    <3>1. b.lines[k] \in Range(b.lines)
      BY <2>2 DEF Range
    <3>2. b.lines[k].type \in RosTypes(t)
      BY <2>1, <3>1 DEF RosTypes
    <3> QED
      BY <1>4, <3>2
  <2> HIDE DEF b
  <2>3. b \in WordedBlock
    BY <2>1, <2>2 DEF WordedBlock
  <2> QED
    BY <2>3 DEF b
<1>9. t.ros \in Seq(WordedBlock)
  <2>1. DOMAIN t.ros = 1..Len(t.ros) /\ Len(t.ros) \in Nat /\ t.ros = [i \in DOMAIN t.ros |-> t.ros[i]]
    BY <1>5
  <2>2. t.ros \in [1..Len(t.ros) -> WordedBlock]
    BY <1>8, <2>1
  <2> QED
    BY <2>1, <2>2, IsSeq
<1> QED
  BY <1>1, <1>2, <1>3, <1>7, <1>9

LEMMA PassesInit ==
  ASSUME Init
  PROVE  PassesInv
<1>1. text \in Texts /\ nodes = text.idl /\ at = 1 /\ constants = <<>> /\ map = <<>> /\ defs = <<>>
      /\ outcome = ""
  BY DEF Init
<1>2. text \in SchemaText /\ (text.encoding = "ros2msg" => text.ros # <<>>)
      /\ text.idl \in Seq(WordedNode)
  BY <1>1, TextType
<1>3. text.encoding \in {"ros2idl", "ros2msg"}
  BY <1>2 DEF SchemaText
<1>4. /\ stage \in {"blocks", "parse", "compile"}
      /\ stage = "blocks" => text.ros # <<>>
      /\ stage = "parse" => text.idl # <<>>
  BY <1>2, <1>3 DEF Init
<1>5. PlacesOK
  <2>1. \A s \in Seq(WordedNode) : s # <<>> => 1 \in DOMAIN s
    OBVIOUS
  <2>2. stage = "parse" => at \in DOMAIN nodes
    BY <1>1, <1>2, <1>4, <2>1
  <2>3. at \in Nat \ {0} /\ outcome \in {"", "reader", "none", "raised"}
    <3>1. at = 1
      BY DEF Init
    <3>2. outcome = ""
      BY DEF Init
    <3>3. at \in Nat \ {0}
      BY <3>1
    <3> QED
      BY <3>2, <3>3
  <2>4. /\ stage \in Passes \cup {"convert", "rename", "blocks", "fixup", "compile"}
        /\ stage \in Passes => stage = "parse"
        /\ stage # "convert" /\ stage # "fixup"
    BY <1>4 DEF Passes
  <2> QED
    BY <1>1, <1>4, <2>2, <2>3, <2>4 DEF PlacesOK
<1>6. NodesOK
  <2>1. text.idl = [i \in DOMAIN text.idl |-> text.idl[i]] /\ \A i \in DOMAIN text.idl : ~(i < 1)
    BY <1>2
  <2>2. \A i \in DOMAIN nodes : nodes[i] \in WordedNode
    <3>1. \A s \in Seq(WordedNode) : \A i \in DOMAIN s : s[i] \in WordedNode
      OBVIOUS
    <3> QED
      BY <1>1, <1>2, <3>1
  <2> QED
    BY <1>1, <1>4, <2>1, <2>2 DEF NodesOK, Alike
<1>7. Table(constants)
  <2>1. DOMAIN <<>> = {} /\ <<>> \in [{} -> Value]
    OBVIOUS
  <2> QED
    BY <1>1, <2>1, FS_EmptySet DEF Table
<1>8. IdlMap(map) /\ defs \in Seq(TypedDefinition)
  <2>1. DOMAIN map = {} /\ map \in Seq(MapItem) /\ defs \in Seq(TypedDefinition)
    <3>1. map = <<>> /\ defs = <<>>
      BY DEF Init
    <3>2. DOMAIN <<>> = {}
      OBVIOUS
    <3> QED
      BY <3>1, <3>2, EmptyIsSeq
  <2> QED
    BY <2>1 DEF IdlMap, NamesUnique
<1> QED
  BY <1>1, <1>5, <1>6, <1>7, <1>8 DEF PassesInv, SchemaOK, Ready

LEMMA StopKeeps ==
  ASSUME PassesInv, NEW result \in {"none", "raised"}, NEW why, Stop(result, why)
  PROVE  PassesInv'
<1>1. UNCHANGED <<text, stage, at, nodes, constants, map, defs, schema>> /\ outcome' = result
  BY DEF Stop
<1>2. PlacesOK'
  BY <1>1 DEF PassesInv, PlacesOK, Passes
<1>3. NodesOK'
  BY <1>1 DEF PassesInv, NodesOK
<1>4. SchemaOK'
  BY <1>1 DEF SchemaOK, Ready
<1>5. (text \in Texts)' /\ (defs \in Seq(TypedDefinition))' /\ Table(constants)' /\ IdlMap(map)'
  BY <1>1 DEF PassesInv
<1> QED
  BY <1>2, <1>3, <1>4, <1>5 DEF PassesInv

\* The next place of a pass over count things, or the first of the next pass.
LEMMA AdvanceMoves ==
  ASSUME NEW count \in Nat, NEW next, at \in 1..count, Advance(count, next)
  PROVE  \/ at < count /\ at' = at + 1 /\ stage' = stage /\ at' \in 1..count
         \/ at = count /\ at' = 1 /\ stage' = next
BY DEF Advance

LEMMA NodesType ==
  ASSUME PassesInv
  PROVE  /\ Len(text.idl) \in Nat /\ DOMAIN text.idl = 1..Len(text.idl)
         /\ DOMAIN nodes = 1..Len(text.idl) /\ Len(nodes) = Len(text.idl)
         /\ \A i \in DOMAIN nodes : nodes[i].size < i /\ nodes[i].name \in Kinds
         /\ \A X : (\A i \in DOMAIN nodes : nodes[i] \in X) => nodes \in Seq(X)
<1>1. text \in Texts /\ NodesOK
  BY DEF PassesInv
<1>2. text.idl \in Seq(WordedNode) /\ \A i \in DOMAIN text.idl : text.idl[i].size < i /\ text.idl[i].name \in Kinds
  BY <1>1, TextType
<1> DEFINE n == Len(text.idl)
<1>3. n \in Nat /\ DOMAIN text.idl = 1..n
  BY <1>2
<1>4. nodes = [i \in 1..n |-> nodes[i]] /\ DOMAIN nodes = 1..n
  BY <1>1, <1>3 DEF NodesOK
<1> HIDE DEF n
<1>5. \A i \in DOMAIN nodes : nodes[i].size < i /\ nodes[i].name \in Kinds
  BY <1>1, <1>2, <1>3, <1>4 DEF NodesOK, Alike
<1>6. ASSUME NEW X, \A i \in DOMAIN nodes : nodes[i] \in X
      PROVE  nodes \in Seq(X) /\ Len(nodes) = n
  <2>1. nodes \in [1..n -> X]
    BY <1>4, <1>6
  <2> QED
    BY <1>3, <2>1, IsSeq
<1>7. Len(nodes) = n
  <2>1. \A i \in DOMAIN nodes : nodes[i] \in {nodes[j] : j \in DOMAIN nodes}
    OBVIOUS
  <2> QED
    BY <1>6, <2>1
<1> QED
  BY <1>3, <1>4, <1>5, <1>6, <1>7 DEF n

\* A pass that makes one declaration into another like it.
LEMMA OneNode ==
  ASSUME PassesInv, at \in DOMAIN nodes, NEW node, Alike(nodes[at], node),
         nodes' = [nodes EXCEPT ![at] = node], text' = text
  PROVE  /\ nodes' = [i \in DOMAIN text'.idl |-> nodes'[i]]
         /\ \A i \in DOMAIN text'.idl : Alike(text'.idl[i], nodes'[i])
         /\ DOMAIN nodes' = DOMAIN nodes /\ nodes'[at] = node
         /\ \A i \in DOMAIN nodes : i # at => nodes'[i] = nodes[i]
<1>1. /\ nodes = [i \in DOMAIN text.idl |-> nodes[i]]
      /\ \A i \in DOMAIN text.idl : Alike(text.idl[i], nodes[i])
  BY DEF PassesInv, NodesOK
<1>2. /\ DOMAIN nodes' = DOMAIN nodes /\ nodes'[at] = node
      /\ \A i \in DOMAIN nodes : i # at => nodes'[i] = nodes[i]
  OBVIOUS
<1>3. DOMAIN nodes = DOMAIN text.idl
  BY <1>1
<1>4. ASSUME NEW i \in DOMAIN text.idl PROVE Alike(text.idl[i], nodes'[i])
  <2>1. CASE i = at
    BY <1>1, <1>2, <2>1 DEF Alike
  <2>2. CASE i # at
    BY <1>1, <1>2, <1>3, <2>2
  <2> QED
    BY <2>1, <2>2
<1>5. nodes' = [i \in DOMAIN text.idl |-> nodes'[i]]
  BY <1>3
<1> QED
  BY <1>2, <1>4, <1>5

\* The table holds values whatever node is registered.
LEMMA NodeRegistered ==
  ASSUME Table(constants), NEW node, node \in ParsedNode \cup ResolvedNode
  PROVE  Table(Registered(constants, node))
<1>1. node \in NodeOf(Value, FieldOf(Value, NumberValue))
        \cup NodeOf(Value, FieldOf(NumberValue, NumberValue))
  BY DEF ParsedNode, ResolvedNode
<1>2. node.name \in STRING /\ node.members \in Seq(STRING) /\ node.value \in Value
  BY <1>1, NodeTags
<1> QED
  BY <1>2, RegisteredType

LEMMA ParseKeeps ==
  ASSUME PassesInv, Parse
  PROVE  PassesInv'
<1> DEFINE node == Parsed(constants, nodes[at])
<1>1. stage = "parse" /\ outcome = ""
  BY DEF Parse, Running
<1>2. at \in DOMAIN nodes /\ at \in Nat \ {0}
  BY <1>1 DEF PassesInv, PlacesOK, Passes
<1>3. Table(constants) /\ nodes[at] \in WordedNode
  <2>1. nodes[at] \in IF at < at THEN ParsedNode ELSE WordedNode
    BY <1>1, <1>2 DEF PassesInv, NodesOK
  <2>2. ~(at < at)
    BY <1>2
  <2> QED
    BY <2>1, <2>2 DEF PassesInv
<1>4. CASE ParseFailures(node) # <<>>
  BY <1>4, StopKeeps DEF Parse
<1>5. CASE ParseFailures(node) = <<>>
  <2>1. /\ nodes' = [nodes EXCEPT ![at] = node]
        /\ constants' = Registered(constants, node)
        /\ Advance(Len(nodes), "constants")
        /\ UNCHANGED <<text, map, defs, outcome, cause, schema, unionEnums>>
    BY <1>5 DEF Parse
  <2>2. node \in ParsedNode /\ Alike(nodes[at], node)
    <3>1. nodes[at] \in DeclarationText
      BY <1>3 DEF WordedNode
    <3> QED
      BY <1>3, <1>5, <3>1, ParsedType, ParsedAlike
  <2> HIDE DEF node
  <2>3. /\ nodes' = [i \in DOMAIN text'.idl |-> nodes'[i]]
        /\ \A i \in DOMAIN text'.idl : Alike(text'.idl[i], nodes'[i])
        /\ DOMAIN nodes' = DOMAIN nodes /\ nodes'[at] = node
        /\ \A i \in DOMAIN nodes : i # at => nodes'[i] = nodes[i]
    BY <1>2, <2>1, <2>2, OneNode
  <2>4. /\ DOMAIN nodes = 1..Len(nodes) /\ Len(nodes) \in Nat
    BY NodesType
  <2>5. \/ at < Len(nodes) /\ at' = at + 1 /\ stage' = stage /\ at' \in 1..Len(nodes)
        \/ at = Len(nodes) /\ at' = 1 /\ stage' = "constants"
    BY <1>2, <2>1, <2>4, AdvanceMoves
  <2>6. \A i \in DOMAIN nodes : nodes[i] \in IF i < at THEN ParsedNode ELSE WordedNode
    BY <1>1 DEF PassesInv, NodesOK
  <2>7. PlacesOK'
    <3>1. at' \in Nat \ {0} /\ at' \in DOMAIN nodes' /\ stage' \in {"parse", "constants"}
      <4>1. at' \in 1..Len(nodes)
        BY <1>2, <2>4, <2>5
      <4>2. stage' \in {"parse", "constants"}
        BY <1>1, <2>5
      <4> QED
        BY <2>3, <2>4, <4>1, <4>2
    <3> QED
      BY <1>1, <2>1, <3>1 DEF PlacesOK, Passes
  <2>8. NodesOK'
    <3>1. CASE at < Len(nodes)
      <4>1. stage' = "parse" /\ at' = at + 1
        <5>1. at # Len(nodes)
          BY <1>2, <2>4, <3>1
        <5> QED
          BY <1>1, <2>5, <5>1
      <4>2. ASSUME NEW i \in DOMAIN nodes
            PROVE  nodes'[i] \in IF i < at + 1 THEN ParsedNode ELSE WordedNode
        <5>1. i \in Int /\ at \in Int
          BY <1>2, <2>4, <4>2
        <5> QED
          BY <2>2, <2>3, <2>6, <4>2, <5>1
      <4> QED
        BY <2>3, <4>1, <4>2 DEF NodesOK
    <3>2. CASE at = Len(nodes)
      <4>1. stage' = "constants" /\ at' = 1
        BY <2>4, <2>5, <3>2
      <4>2. ASSUME NEW i \in DOMAIN nodes
            PROVE  ~(i < 1) /\ nodes'[i] \in ParsedNode
        <5>1. i \in 1..Len(nodes) /\ at \in Int
          BY <1>2, <2>4, <4>2
        <5> QED
          BY <2>2, <2>3, <2>4, <2>6, <3>2, <4>2, <5>1
      <4> QED
        BY <2>3, <4>1, <4>2 DEF NodesOK
    <3> QED
      BY <2>5, <3>1, <3>2
  <2>9. Table(constants)'
    BY <1>3, <2>1, <2>2, NodeRegistered
  <2>10. SchemaOK' /\ IdlMap(map)' /\ (defs \in Seq(TypedDefinition))' /\ (text \in Texts)'
    BY <1>1, <2>1 DEF PassesInv, SchemaOK, Ready
  <2> QED
    BY <2>7, <2>8, <2>9, <2>10 DEF PassesInv
<1> QED
  BY <1>4, <1>5

LEMMA ResolveConstantsKeeps ==
  ASSUME PassesInv, ResolveConstants
  PROVE  PassesInv'
<1> DEFINE node == Resolved(constants, nodes[at])
<1>1. stage = "constants" /\ outcome = ""
  BY DEF ResolveConstants, Running
<1>2. at \in DOMAIN nodes /\ at \in Nat \ {0}
  BY <1>1 DEF PassesInv, PlacesOK, Passes
<1>3. Table(constants) /\ nodes[at] \in ParsedNode
  <2>1. nodes[at] \in IF at < at THEN ResolvedNode ELSE ParsedNode
    BY <1>1, <1>2 DEF PassesInv, NodesOK
  <2>2. ~(at < at)
    BY <1>2
  <2> QED
    BY <2>1, <2>2 DEF PassesInv
<1>4. CASE ResolveFailures(node) # <<>>
  BY <1>4, StopKeeps DEF ResolveConstants
<1>5. CASE ResolveFailures(node) = <<>>
  <2>1. /\ nodes' = [nodes EXCEPT ![at] = node]
        /\ constants' = IF node.kind = "const" THEN Registered(constants, node) ELSE constants
        /\ Advance(Len(nodes), "types")
        /\ UNCHANGED <<text, map, defs, outcome, cause, schema, unionEnums>>
    BY <1>5 DEF ResolveConstants
  <2>2. node \in ResolvedNode /\ Alike(nodes[at], node)
    BY <1>3, <1>5, ResolvedType
  <2> HIDE DEF node
  <2>3. /\ nodes' = [i \in DOMAIN text'.idl |-> nodes'[i]]
        /\ \A i \in DOMAIN text'.idl : Alike(text'.idl[i], nodes'[i])
        /\ DOMAIN nodes' = DOMAIN nodes /\ nodes'[at] = node
        /\ \A i \in DOMAIN nodes : i # at => nodes'[i] = nodes[i]
    BY <1>2, <2>1, <2>2, OneNode
  <2>4. /\ DOMAIN nodes = 1..Len(nodes) /\ Len(nodes) \in Nat
    BY NodesType
  <2>5. \/ at < Len(nodes) /\ at' = at + 1 /\ stage' = stage /\ at' \in 1..Len(nodes)
        \/ at = Len(nodes) /\ at' = 1 /\ stage' = "types"
    BY <1>2, <2>1, <2>4, AdvanceMoves
  <2>6. \A i \in DOMAIN nodes : nodes[i] \in IF i < at THEN ResolvedNode ELSE ParsedNode
    BY <1>1 DEF PassesInv, NodesOK
  <2>7. PlacesOK'
    <3>1. at' \in Nat \ {0} /\ at' \in DOMAIN nodes' /\ stage' \in {"constants", "types"}
      <4>1. at' \in 1..Len(nodes)
        BY <1>2, <2>4, <2>5
      <4>2. stage' \in {"constants", "types"}
        BY <1>1, <2>5
      <4> QED
        BY <2>3, <2>4, <4>1, <4>2
    <3> QED
      BY <1>1, <2>1, <3>1 DEF PlacesOK, Passes
  <2>8. NodesOK'
    <3>1. CASE at < Len(nodes)
      <4>1. stage' = "constants" /\ at' = at + 1
        <5>1. at # Len(nodes)
          BY <1>2, <2>4, <3>1
        <5> QED
          BY <1>1, <2>5, <5>1
      <4>2. ASSUME NEW i \in DOMAIN nodes
            PROVE  nodes'[i] \in IF i < at + 1 THEN ResolvedNode ELSE ParsedNode
        <5>1. i \in Int /\ at \in Int
          BY <1>2, <2>4, <4>2
        <5> QED
          BY <2>2, <2>3, <2>6, <4>2, <5>1
      <4> QED
        BY <2>3, <4>1, <4>2 DEF NodesOK
    <3>2. CASE at = Len(nodes)
      <4>1. stage' = "types"
        BY <2>4, <2>5, <3>2
      <4>2. ASSUME NEW i \in DOMAIN nodes PROVE nodes'[i] \in ResolvedNode
        <5>1. i \in 1..Len(nodes) /\ at \in Int
          BY <1>2, <2>4, <4>2
        <5> QED
          BY <2>2, <2>3, <2>4, <2>6, <3>2, <4>2, <5>1
      <4> QED
        BY <2>3, <4>1, <4>2 DEF NodesOK
    <3> QED
      BY <2>5, <3>1, <3>2
  <2>9. Table(constants)'
    BY <1>3, <2>1, <2>2, NodeRegistered
  <2>10. SchemaOK' /\ IdlMap(map)' /\ (defs \in Seq(TypedDefinition))' /\ (text \in Texts)'
    BY <1>1, <2>1 DEF PassesInv, SchemaOK, Ready
  <2> QED
    BY <2>7, <2>8, <2>9, <2>10 DEF PassesInv
<1> QED
  BY <1>4, <1>5

\* Types are looked for among the full names of types, which are types.
LEMMA NamedTypes ==
  ASSUME PassesInv, \A i \in DOMAIN nodes : nodes[i] \in ResolvedNode
  PROVE  named_types(nodes) \subseteq TypeName
<1>1. ASSUME NEW i \in DOMAIN nodes PROVE FullName(nodes[i]) \in TypeName
  <2>1. nodes[i].name \in Kinds
    BY <1>1, NodesType
  <2>2. nodes[i].scope \in Name /\ nodes[i].name \in STRING
    BY <1>1, ResolvedTags
  <2> QED
    BY <2>1, <2>2, FullNameType DEF FullName
<1> QED
  BY <1>1 DEF named_types

LEMMA ResolveTypesKeeps ==
  ASSUME PassesInv, ResolveTypes
  PROVE  PassesInv'
<1> DEFINE node == Typed(named_types(nodes), nodes[at])
<1>1. stage = "types" /\ outcome = ""
  BY DEF ResolveTypes, Running
<1>2. at \in DOMAIN nodes /\ at \in Nat \ {0}
  BY <1>1 DEF PassesInv, PlacesOK, Passes
<1>3. \A i \in DOMAIN nodes : nodes[i] \in ResolvedNode
  BY <1>1 DEF PassesInv, NodesOK
<1>4. CASE Untypable(nodes[at])
  BY <1>4, StopKeeps DEF ResolveTypes
<1>5. CASE ~Untypable(nodes[at])
  <2>1. /\ nodes' = [nodes EXCEPT ![at] = node]
        /\ Advance(Len(nodes), "map")
        /\ UNCHANGED <<text, constants, map, defs, outcome, cause, schema, unionEnums>>
    BY <1>5 DEF ResolveTypes
  <2>2. node \in ResolvedNode /\ Alike(nodes[at], node)
    BY <1>2, <1>3, NamedTypes, TypedShape
  <2> HIDE DEF node
  <2>3. /\ nodes' = [i \in DOMAIN text'.idl |-> nodes'[i]]
        /\ \A i \in DOMAIN text'.idl : Alike(text'.idl[i], nodes'[i])
        /\ DOMAIN nodes' = DOMAIN nodes /\ nodes'[at] = node
        /\ \A i \in DOMAIN nodes : i # at => nodes'[i] = nodes[i]
    BY <1>2, <2>1, <2>2, OneNode
  <2>4. /\ DOMAIN nodes = 1..Len(nodes) /\ Len(nodes) \in Nat
    BY NodesType
  <2>5. \/ at < Len(nodes) /\ at' = at + 1 /\ stage' = stage /\ at' \in 1..Len(nodes)
        \/ at = Len(nodes) /\ at' = 1 /\ stage' = "map"
    BY <1>2, <2>1, <2>4, AdvanceMoves
  <2>6. at' \in Nat \ {0} /\ at' \in DOMAIN nodes' /\ stage' \in {"types", "map"}
    <3>1. at' \in 1..Len(nodes)
      BY <1>2, <2>4, <2>5
    <3>2. stage' \in {"types", "map"}
      BY <1>1, <2>5
    <3> QED
      BY <2>3, <2>4, <3>1, <3>2
  <2>7. PlacesOK'
    BY <1>1, <2>1, <2>6 DEF PlacesOK, Passes
  <2>8. NodesOK'
    <3>1. \A i \in DOMAIN nodes' : nodes'[i] \in ResolvedNode
      BY <1>3, <2>2, <2>3
    <3> QED
      BY <2>3, <2>6, <3>1 DEF NodesOK
  <2>9. SchemaOK' /\ IdlMap(map)' /\ (defs \in Seq(TypedDefinition))' /\ (text \in Texts)'
        /\ Table(constants)'
    BY <1>1, <2>1 DEF PassesInv, SchemaOK, Ready
  <2> QED
    BY <2>7, <2>8, <2>9 DEF PassesInv
<1> QED
  BY <1>4, <1>5

LEMMA BuildMapKeeps ==
  ASSUME PassesInv, BuildMap
  PROVE  PassesInv'
<1>1. stage = "map" /\ outcome = ""
  BY DEF BuildMap, Running
<1>2. at \in DOMAIN nodes /\ at \in Nat \ {0}
  BY <1>1 DEF PassesInv, PlacesOK, Passes
<1>3. nodes \in Seq(ResolvedNode) /\ nodes[at].size < at
  <2>1. \A i \in DOMAIN nodes : nodes[i] \in ResolvedNode
    BY <1>1 DEF PassesInv, NodesOK
  <2> QED
    BY <1>2, <2>1, NodesType
<1>4. /\ map' = build_map(map, nodes, at)
      /\ Advance(Len(nodes), "convert")
      /\ UNCHANGED <<text, nodes, constants, defs, outcome, cause, schema, unionEnums>>
  BY DEF BuildMap
<1>5. map' \in Seq(MapItem) /\ map' # <<>> /\ NamesUnique(map')
  <2>1. map \in Seq(MapItem)
    BY DEF PassesInv, IdlMap
  <2> QED
    BY <1>2, <1>3, <1>4, <2>1, MapType
<1>6. /\ DOMAIN nodes = 1..Len(nodes) /\ Len(nodes) \in Nat
  BY NodesType
<1>7. \/ at < Len(nodes) /\ at' = at + 1 /\ stage' = stage /\ at' \in 1..Len(nodes)
      \/ at = Len(nodes) /\ at' = 1 /\ stage' = "convert"
  BY <1>2, <1>4, <1>6, AdvanceMoves
<1>8. PlacesOK'
  <2>1. \A s \in Seq(MapItem) : s # <<>> => 1 \in DOMAIN s
    OBVIOUS
  <2>2. 1 \in DOMAIN map'
    BY <1>5, <2>1
  <2>3. at' \in 1..Len(nodes)
    BY <1>2, <1>6, <1>7
  <2>4. at' \in Nat \ {0} /\ at' \in DOMAIN nodes'
    BY <1>4, <1>6, <2>3
  <2>5. stage' \in {"map", "convert"} /\ (stage' = "convert" => at' = 1)
    BY <1>1, <1>7
  <2> QED
    BY <1>1, <1>4, <2>2, <2>4, <2>5 DEF PlacesOK, Passes
<1>9. NodesOK'
  <2>1. stage' \in {"map", "convert"}
    BY <1>1, <1>7
  <2> QED
    BY <1>1, <1>4, <2>1 DEF PassesInv, NodesOK
<1>10. SchemaOK' /\ IdlMap(map)' /\ (defs \in Seq(TypedDefinition))' /\ (text \in Texts)'
       /\ Table(constants)'
  BY <1>1, <1>4, <1>5 DEF PassesInv, SchemaOK, Ready, IdlMap
<1> QED
  BY <1>8, <1>9, <1>10 DEF PassesInv

LEMMA ConvertKeeps ==
  ASSUME PassesInv, Convert
  PROVE  PassesInv'
<1>1. stage = "convert" /\ outcome = ""
  BY DEF Convert, Running
<1>2. at \in DOMAIN map /\ at \in Nat \ {0}
  BY <1>1 DEF PassesInv, PlacesOK
<1>3. CASE ItemRefusals(map, map[at]) # {}
  BY <1>3, StopKeeps DEF Convert
<1>4. CASE ItemRefusals(map, map[at]) = {}
  <2> DEFINE more == Converted(map, map[at])
             last == IF at = Len(map) THEN TopLevel(map) ELSE <<>>
  <2>1. /\ defs' = defs \o more \o last
        /\ Advance(Len(map), "rename")
        /\ UNCHANGED <<text, nodes, constants, map, outcome, cause, schema, unionEnums>>
    BY <1>4 DEF Convert
  <2>2. IdlMap(map) /\ map \in Seq(MapItem) /\ map[at] \in MapItem
    BY <1>2 DEF PassesInv, IdlMap
  <2>3. more \in Seq(TypedDefinition) /\ last \in Seq(TypedDefinition)
    BY <2>2, ConvertedType, TopLevelType, EmptyIsSeq
  <2> HIDE DEF more, last
  <2>4. defs' \in Seq(TypedDefinition)
    BY <2>1, <2>3 DEF PassesInv
  <2>5. DOMAIN map = 1..Len(map) /\ Len(map) \in Nat
    BY <2>2
  <2>6. \/ at < Len(map) /\ at' = at + 1 /\ stage' = stage /\ at' \in 1..Len(map)
        \/ at = Len(map) /\ at' = 1 /\ stage' = "rename"
    BY <1>2, <2>1, <2>5, AdvanceMoves
  <2>7. PlacesOK'
    <3>1. at' \in 1..Len(map)
      BY <1>2, <2>5, <2>6
    <3>2. at' \in Nat \ {0} /\ at' \in DOMAIN map'
      BY <2>1, <2>5, <3>1
    <3>3. stage' \in {"convert", "rename"}
      BY <1>1, <2>6
    <3> QED
      BY <1>1, <2>1, <3>2, <3>3 DEF PlacesOK, Passes
  <2>8. NodesOK'
    <3>1. stage' \in {"convert", "rename"}
      BY <1>1, <2>6
    <3> QED
      BY <1>1, <2>1, <3>1 DEF PassesInv, NodesOK
  <2>9. SchemaOK' /\ IdlMap(map)' /\ (text \in Texts)' /\ Table(constants)'
    BY <1>1, <2>1 DEF PassesInv, SchemaOK, Ready
  <2> QED
    BY <2>4, <2>7, <2>8, <2>9 DEF PassesInv
<1> QED
  BY <1>3, <1>4

LEMMA RenameKeeps ==
  ASSUME PassesInv, Rename
  PROVE  PassesInv'
<1>1. stage = "rename" /\ outcome = "" /\ stage' = "compile"
      /\ UNCHANGED <<text, at, nodes, constants, map, outcome, cause, schema, unionEnums>>
  BY DEF Rename, Running
<1>2. defs' \in Seq(TypedDefinition)
  <2>1. defs \in Seq(TypedDefinition)
    BY DEF PassesInv
  <2>2. DOMAIN defs = 1..Len(defs) /\ Len(defs) \in Nat
    BY <2>1
  <2>3. \A i \in DOMAIN defs : Renamed(defs[i]) \in TypedDefinition
    BY <2>1, RenamedType
  <2>4. defs' = [i \in 1..Len(defs) |-> Renamed(defs[i])]
    BY <2>2 DEF Rename
  <2>5. defs' \in [1..Len(defs) -> TypedDefinition]
    BY <2>2, <2>3, <2>4
  <2> QED
    BY <2>2, <2>5, IsSeq
<1>3. PlacesOK' /\ NodesOK'
  BY <1>1 DEF PassesInv, PlacesOK, NodesOK, Passes
<1>4. SchemaOK' /\ IdlMap(map)' /\ (text \in Texts)' /\ Table(constants)'
  BY <1>1 DEF PassesInv, SchemaOK, Ready
<1> QED
  BY <1>2, <1>3, <1>4 DEF PassesInv

LEMMA ReadBlocksKeeps ==
  ASSUME PassesInv, ReadBlocks
  PROVE  PassesInv'
<1>1. stage = "blocks" /\ outcome = "" /\ stage' = "fixup" /\ defs' = Built(text.ros, FALSE)
      /\ UNCHANGED <<text, at, nodes, constants, map, outcome, cause, schema, unionEnums>>
  BY DEF ReadBlocks, Running
<1>2. text.ros # <<>> /\ text.ros \in Seq(WordedBlock)
  BY <1>1, TextType DEF PassesInv, PlacesOK
<1>3. defs' \in Seq(TypedDefinition) /\ defs' # <<>>
  BY <1>1, <1>2, BuiltType
<1>4. (text \in Texts)' /\ IdlMap(map)' /\ Table(constants)' /\ SchemaOK'
  BY <1>1 DEF PassesInv, SchemaOK, Ready
<1>5. NodesOK'
  BY <1>1 DEF PassesInv, NodesOK
<1>6. PlacesOK'
  <2>1. \A s \in Seq(TypedDefinition) : s # <<>> => 1 \in DOMAIN s
    OBVIOUS
  <2>2. 1 \in DOMAIN defs'
    BY <1>3, <2>1
  <2>3. at' = 1 /\ at' \in Nat \ {0}
    BY <1>1 DEF PassesInv, PlacesOK
  <2> QED
    BY <1>1, <2>2, <2>3 DEF PlacesOK, Passes
<1> QED
  BY <1>3, <1>4, <1>5, <1>6 DEF PassesInv

LEMMA FixupTypesKeeps ==
  ASSUME PassesInv, FixupTypes
  PROVE  PassesInv'
<1>1. stage = "fixup" /\ outcome = ""
  BY DEF FixupTypes, Running
<1>2. at \in DOMAIN defs /\ at \in Nat \ {0} /\ defs \in Seq(TypedDefinition)
  BY <1>1 DEF PassesInv, PlacesOK
<1>3. CASE Ambiguous(defs, defs[at])
  BY <1>3, StopKeeps DEF FixupTypes
<1>4. CASE ~Ambiguous(defs, defs[at])
  <2> DEFINE d == Qualified(defs, defs[at])
  <2>1. /\ defs' = [defs EXCEPT ![at] = d]
        /\ Advance(Len(defs), "compile")
        /\ UNCHANGED <<text, nodes, constants, map, outcome, cause, schema, unionEnums>>
    BY <1>4 DEF FixupTypes
  <2>2. d \in TypedDefinition
    BY <1>2, <1>4, QualifiedType
  <2> HIDE DEF d
  <2>3. defs' \in Seq(TypedDefinition) /\ DOMAIN defs' = DOMAIN defs
    BY <1>2, <2>1, <2>2
  <2>4. DOMAIN defs = 1..Len(defs) /\ Len(defs) \in Nat
    BY <1>2
  <2>5. \/ at < Len(defs) /\ at' = at + 1 /\ stage' = stage /\ at' \in 1..Len(defs)
        \/ at = Len(defs) /\ at' = 1 /\ stage' = "compile"
    BY <1>2, <2>1, <2>4, AdvanceMoves
  <2>6. PlacesOK'
    <3>1. at' \in 1..Len(defs)
      BY <1>2, <2>4, <2>5
    <3>2. at' \in Nat \ {0} /\ at' \in DOMAIN defs'
      BY <2>3, <2>4, <3>1
    <3>3. stage' \in {"fixup", "compile"}
      BY <1>1, <2>5
    <3> QED
      BY <1>1, <2>1, <3>2, <3>3 DEF PlacesOK, Passes
  <2>7. NodesOK'
    <3>1. stage' \in {"fixup", "compile"}
      BY <1>1, <2>5
    <3> QED
      BY <1>1, <2>1, <3>1 DEF PassesInv, NodesOK
  <2>8. SchemaOK' /\ IdlMap(map)' /\ (text \in Texts)' /\ Table(constants)'
    BY <1>1, <2>1 DEF PassesInv, SchemaOK, Ready
  <2> QED
    BY <2>3, <2>6, <2>7, <2>8 DEF PassesInv
<1> QED
  BY <1>3, <1>4

LEMMA CompileKeeps ==
  ASSUME PassesInv, Compile
  PROVE  PassesInv'
<1>1. CASE ~Compiles(defs)
  BY <1>1, StopKeeps DEF Compile
<1>2. CASE Compiles(defs)
  <2>1. /\ schema' = Compiled(defs, text.wanted, text.enumAsString, TRUE)
        /\ outcome' = "reader"
        /\ UNCHANGED <<text, stage, at, nodes, constants, map, defs, cause>>
    BY <1>2 DEF Compile
  <2>2. SchemaOK'
    BY <1>2, <2>1 DEF SchemaOK
  <2>3. PlacesOK' /\ NodesOK'
    BY <2>1 DEF PassesInv, PlacesOK, NodesOK, Passes
  <2>4. IdlMap(map)' /\ (text \in Texts)' /\ Table(constants)' /\ (defs \in Seq(TypedDefinition))'
    BY <2>1 DEF PassesInv
  <2> QED
    BY <2>2, <2>3, <2>4 DEF PassesInv
<1> QED
  BY <1>1, <1>2

LEMMA PassesNext ==
  ASSUME PassesInv, [Next]_vars
  PROVE  PassesInv'
<1>1. CASE UNCHANGED vars
  BY <1>1 DEF vars, PassesInv, PlacesOK, NodesOK, SchemaOK, Ready
<1>2. CASE Next
  BY <1>2, ParseKeeps, ResolveConstantsKeeps, ResolveTypesKeeps, BuildMapKeeps, ConvertKeeps,
     RenameKeeps, ReadBlocksKeeps, FixupTypesKeeps, CompileKeeps DEF Next
<1> QED
  BY <1>1, <1>2

\* Every pass leaves what the next one needs.
THEOREM PassesHold == Spec => []PassesInv
<1>1. Init => PassesInv
  BY PassesInit
<1>2. PassesInv /\ [Next]_vars => PassesInv'
  BY PassesNext
<1> QED
  BY <1>1, <1>2, PTL DEF Spec

\* For every text that the grammar admits: the passes come to an end that is
\* one of those they name, without stepping behind a list; all that they
\* make are definitions, and what they compile is a schema.
THEOREM SchemaTypeOKHolds == Spec => []SchemaTypeOK
<1>1. ASSUME PassesInv PROVE SchemaTypeOK
  <2>1. /\ stage \in {"parse", "constants", "types", "map", "convert", "rename",
                      "blocks", "fixup", "compile"}
        /\ outcome \in {"", "reader", "none", "raised"}
        /\ at \in Nat \ {0}
    BY <1>1 DEF PassesInv, PlacesOK, Passes
  <2>2. \A i \in DOMAIN nodes : nodes[i].size < i
    BY <1>1, NodesType
  <2>3. defs \in Seq(TypedDefinition) /\ defs \in Seq(MessageDefinition)
    BY <1>1, TypedIsMessage DEF PassesInv
  <2>4. ASSUME Ready PROVE schema \in Schema
    <3>1. text.enumAsString \in BOOLEAN
      BY <1>1, TextType DEF PassesInv, SchemaText
    <3>2. Compiles(defs) /\ schema = Compiled(defs, text.wanted, text.enumAsString, TRUE)
      BY <1>1, <2>4 DEF PassesInv, SchemaOK
    <3> QED
      BY <2>3, <3>1, <3>2, CompiledIsSchema
  <2> QED
    BY <2>1, <2>2, <2>3, <2>4 DEF SchemaTypeOK
<1> QED
  BY <1>1, PassesHold, PTL

\* Decoder::new refuses nothing that the passes build from any text: the root
\* is one of the plans, and so is the target of every complex field.
THEOREM PlansWellFormedHolds == Spec => []PlansWellFormed
<1>1. ASSUME PassesInv PROVE PlansWellFormed
  <2>1. ASSUME Ready PROVE WellFormed(schema)
    <3>1. defs \in Seq(MessageDefinition)
      BY <1>1, TypedIsMessage DEF PassesInv
    <3>2. Compiles(defs) /\ schema = Compiled(defs, text.wanted, text.enumAsString, TRUE)
      BY <1>1, <2>1 DEF PassesInv, SchemaOK
    <3> QED
      BY <3>1, <3>2, CompiledIsWellFormed
  <2> QED
    BY <2>1 DEF PlansWellFormed
<1> QED
  BY <1>1, PassesHold, PTL

-----------------------------------------------------------------------------
(* Definitions whose names are distinct are numbered in their own order.   *)

LEMMA RankOfInterval ==
  ASSUME NEW n \in Nat, NEW i \in 1..n
  PROVE  Rank(1..n, i) = i
<1>1. {j \in 1..n : j <= i} = 1..i
  OBVIOUS
<1>2. Cardinality(1..i) = i
  <2>1. i \in Int /\ 1 <= i
    OBVIOUS
  <2> QED
    BY <2>1, FS_Interval
<1> QED
  BY <1>1, <1>2 DEF Rank

LEMMA DistinctPlaces ==
  ASSUME NEW ds \in Seq(MessageDefinition), NamesUnique(ds), NEW i \in DOMAIN ds
  PROVE  IndexOf(ds, ds[i].name) = i /\ Named(ds, ds[i].name) = ds[i]
<1>1. DOMAIN ds = 1..Len(ds) /\ Len(ds) \in Nat
  OBVIOUS
<1>2. Firsts(ds) = DOMAIN ds
  <2>1. ASSUME NEW k \in DOMAIN ds, NEW j \in DOMAIN ds, ds[j].name = ds[k].name PROVE k <= j
    <3>1. k = j /\ k \in Int
      BY <1>1, <2>1 DEF NamesUnique
    <3> QED
      BY <3>1
  <2> QED
    BY <2>1 DEF Firsts
<1>3. (CHOOSE j \in Firsts(ds) : ds[j].name = ds[i].name) = i
  BY <1>2 DEF NamesUnique
<1>4. IndexOf(ds, ds[i].name) = Rank(1..Len(ds), i)
  BY <1>1, <1>2, <1>3 DEF IndexOf
<1>5. Named(ds, ds[i].name) = ds[i]
  <2>1. PICK j \in DOMAIN ds : Named(ds, ds[i].name) = ds[j] /\ ds[j].name = ds[i].name
    BY NamedIn
  <2> QED
    BY <2>1 DEF NamesUnique
<1> QED
  BY <1>1, <1>4, <1>5, RankOfInterval

LEMMA DistinctPlans ==
  ASSUME NEW ds \in Seq(MessageDefinition), NamesUnique(ds), NEW i \in DOMAIN ds
  PROVE  \A wanted, enumAsString, bytes :
           Compiled(ds, wanted, enumAsString, bytes).plans[i] = PlanOf(ds, ds[i], enumAsString)
<1> TAKE wanted, enumAsString, bytes
<1>1. ds[i].name \in NamesOf(ds)
  BY DEF NamesOf
<1>2. IndexOf(ds, ds[i].name) = i /\ Named(ds, ds[i].name) = ds[i]
  BY DistinctPlaces
<1> QED
  BY <1>1, <1>2, PlanOfName

-----------------------------------------------------------------------------
(* What the fields of a ros2msg text refer to.                             *)

\* Of equal definitions one is kept.
LEMMA UniqueHas ==
  ASSUME NEW X, NEW types \in Seq(X)
  PROVE  /\ \A i \in DOMAIN Unique(types) : \E j \in DOMAIN types : Unique(types)[i] = types[j]
         /\ \A j \in DOMAIN types : \E i \in DOMAIN Unique(types) : Unique(types)[i] = types[j]
<1> DEFINE S == {i \in DOMAIN types : \A j \in DOMAIN types : types[j] = types[i] => i <= j}
           n == Cardinality(S)
<1>1. S \subseteq DOMAIN types /\ Places(S)
  BY PlacesInSeq
<1>2. Unique(types) = Kept(types, S)
  BY DEF Unique
<1>3. ASSUME NEW j \in DOMAIN types PROVE \E i \in S : types[i] = types[j]
  <2> DEFINE T == {i \in DOMAIN types : types[i] = types[j]}
  <2>1. Places(T) /\ T # {}
    BY PlacesInSeq
  <2>2. Least(T) \in T /\ \A i \in T : Least(T) <= i
    BY <2>1, HasLeast
  <2>3. Least(T) \in S /\ types[Least(T)] = types[j]
    BY <2>2
  <2> QED
    BY <2>3
<1> HIDE DEF S
<1>4. n \in Nat
  BY <1>1, FS_CardinalityType DEF Places
<1>5. /\ DOMAIN Kept(types, S) = 1..n
      /\ \A k \in 1..n : Nth(S, k) \in S /\ Kept(types, S)[k] = types[Nth(S, k)]
  BY <1>1, NthRank DEF Kept
<1>6. ASSUME NEW j \in DOMAIN types
      PROVE  \E i \in DOMAIN Unique(types) : Unique(types)[i] = types[j]
  <2>1. PICK i \in S : types[i] = types[j]
    BY <1>3
  <2>2. Rank(S, i) \in 1..n /\ Nth(S, Rank(S, i)) = i
    BY <1>1, RankRange, RankNth
  <2>3. Unique(types)[Rank(S, i)] = types[j]
    BY <1>2, <1>5, <2>1, <2>2
  <2> QED
    BY <1>2, <1>5, <2>2, <2>3
<1> QED
  BY <1>1, <1>2, <1>5, <1>6

BlockDefinition(b) ==
  Aggregate(b.name, "struct", [k \in DOMAIN b.lines |-> Ros1Field(b.lines[k])])

\* The definitions of the blocks.
LEMMA BuiltOf ==
  ASSUME NEW blocks \in Seq(WordedBlock)
  PROVE  /\ \A i \in DOMAIN Built(blocks, FALSE) :
              \E j \in DOMAIN blocks : Built(blocks, FALSE)[i] = BlockDefinition(blocks[j])
         /\ \A j \in DOMAIN blocks :
              \E i \in DOMAIN Built(blocks, FALSE) :
                Built(blocks, FALSE)[i] = BlockDefinition(blocks[j])
<1> DEFINE types == [i \in DOMAIN blocks |-> BlockDefinition(blocks[i])]
<1>1. Built(blocks, FALSE) = Unique(types)
  BY DEF Built, BlockDefinition
<1>2. DOMAIN blocks = 1..Len(blocks) /\ Len(blocks) \in Nat
  OBVIOUS
<1>3. types \in [1..Len(blocks) -> {BlockDefinition(blocks[i]) : i \in DOMAIN blocks}]
  BY <1>2
<1>4. DOMAIN types = DOMAIN blocks /\ \A j \in DOMAIN blocks : types[j] = BlockDefinition(blocks[j])
  OBVIOUS
<1> HIDE DEF types
<1> DEFINE X == {BlockDefinition(blocks[i]) : i \in DOMAIN blocks}
<1> HIDE DEF X
<1>5. types \in Seq(X)
  BY <1>2, <1>3, IsSeq DEF X
<1>6. /\ \A i \in DOMAIN Unique(types) : \E j \in DOMAIN types : Unique(types)[i] = types[j]
      /\ \A j \in DOMAIN types : \E i \in DOMAIN Unique(types) : Unique(types)[i] = types[j]
  BY <1>5, UniqueHas
<1>7. \A i \in DOMAIN Built(blocks, FALSE) :
        \E j \in DOMAIN blocks : Built(blocks, FALSE)[i] = BlockDefinition(blocks[j])
  BY <1>1, <1>4, <1>6
<1>8. \A j \in DOMAIN blocks :
        \E i \in DOMAIN Built(blocks, FALSE) : Built(blocks, FALSE)[i] = BlockDefinition(blocks[j])
  BY <1>1, <1>4, <1>6
<1> QED
  BY <1>7, <1>8

\* e is d with the names of its types qualified, as far as the references go.
QualifiedAs(types, d, e) ==
  /\ e.name = d.name /\ e.aggregatedKind = d.aggregatedKind
  /\ DOMAIN e.definitions = DOMAIN d.definitions
  /\ \A k \in DOMAIN d.definitions :
       /\ e.definitions[k].isConstant = d.definitions[k].isConstant
       /\ e.definitions[k].isComplex = d.definitions[k].isComplex
       /\ ~d.definitions[k].isComplex => e.definitions[k].type = d.definitions[k].type
       /\ d.definitions[k].isComplex =>
            \E m \in Matches(types, d.definitions[k].type, Namespace(d)) :
              e.definitions[k].type = types[m].name

\* Which definitions match depends on their names alone.
LEMMA MatchesByName ==
  ASSUME NEW types, NEW others, DOMAIN others = DOMAIN types,
         \A i \in DOMAIN types : others[i].name = types[i].name,
         NEW name, NEW namespace
  PROVE  Matches(others, name, namespace) = Matches(types, name, namespace)
BY DEF Matches

LEMMA QualifiedIsSo ==
  ASSUME NEW types, NEW ds \in Seq(TypedDefinition), DOMAIN ds = DOMAIN types,
         \A j \in DOMAIN types : ds[j].name = types[j].name,
         NEW i \in DOMAIN ds, ~Ambiguous(ds, ds[i])
  PROVE  QualifiedAs(types, ds[i], Qualified(ds, ds[i]))
<1> DEFINE d == ds[i]
           fields == [k \in DOMAIN d.definitions |-> QualifiedField(ds, d, d.definitions[k])]
<1>1. d \in TypedDefinition
  OBVIOUS
<1>2. Qualified(ds, d) = [d EXCEPT !.definitions = fields]
  BY <1>1, QualifiedType
<1>3. ASSUME NEW k \in DOMAIN d.definitions
      PROVE  LET f == d.definitions[k]
                 g == QualifiedField(ds, d, f)
             IN /\ g.isConstant = f.isConstant /\ g.isComplex = f.isComplex
                /\ ~f.isComplex => g.type = f.type
                /\ f.isComplex => \E m \in Matches(types, f.type, Namespace(d)) : g.type = types[m].name
  <2> DEFINE f == d.definitions[k]
             m == CHOOSE j \in Matches(ds, f.type, Namespace(d)) : TRUE
  <2>1. f \in TypedField
    <3>1. d.definitions \in Seq(TypedField)
      BY <1>1, DefinitionTags
    <3> QED
      BY <1>3, <3>1
  <2>2. CASE ~f.isComplex
    BY <2>2 DEF QualifiedField
  <2>3. CASE f.isComplex
    <3>1. m \in Matches(ds, f.type, Namespace(d)) /\ Matches(ds, f.type, Namespace(d)) \subseteq DOMAIN ds
      BY <1>3, <2>3, MatchFound
    <3>2. m \in Matches(types, f.type, Namespace(d)) /\ ds[m].name = types[m].name
      BY <3>1, MatchesByName
    <3>3. QualifiedField(ds, d, f) = [f EXCEPT !.type = ds[m].name]
      BY <2>3 DEF QualifiedField
    <3> HIDE DEF m
    <3> DEFINE name == ds[m].name
    <3> HIDE DEF name
    <3>4. QualifiedField(ds, d, f) = [f EXCEPT !.type = name]
      BY <3>3 DEF name
    <3> HIDE DEF f
    <3>5. /\ QualifiedField(ds, d, f).isConstant = f.isConstant
          /\ QualifiedField(ds, d, f).isComplex = f.isComplex
          /\ QualifiedField(ds, d, f).type = name
      BY <2>1, <3>4, MessageFieldTags
    <3>6. QualifiedField(ds, d, f).type = types[m].name
      BY <3>2, <3>5 DEF name
    <3>7. \E j \in Matches(types, f.type, Namespace(d)) : QualifiedField(ds, d, f).type = types[j].name
      BY <3>2, <3>6
    <3> QED
      BY <2>3, <3>5, <3>7 DEF f
  <2> QED
    BY <2>2, <2>3
<1> HIDE DEF fields
<1>4. /\ Qualified(ds, d).name = d.name /\ Qualified(ds, d).aggregatedKind = d.aggregatedKind
      /\ Qualified(ds, d).definitions = fields
  <2>1. d \in TypedDefinition /\ Qualified(ds, d) = [d EXCEPT !.definitions = fields]
    BY <1>1, <1>2
  <2> HIDE DEF d
  <2> QED
    BY <2>1, DefinitionTags
<1>5. /\ DOMAIN fields = DOMAIN d.definitions
      /\ \A k \in DOMAIN d.definitions : fields[k] = QualifiedField(ds, d, d.definitions[k])
  BY DEF fields
<1> HIDE DEF d
<1>6. QualifiedAs(types, d, Qualified(ds, d))
  BY <1>3, <1>4, <1>5 DEF QualifiedAs
<1> QED
  BY <1>6 DEF d

\* A ros2msg text takes the passes of its own.  The definitions that fixup_types
\* has come by refer to the names that _find_type_by_name found for them, and
\* the others are as they were written.
BlocksOK ==
  ~Idl =>
    LET types == Built(text.ros, FALSE)
    IN /\ stage \in {"blocks", "fixup", "compile"}
       /\ stage # "blocks" =>
            /\ DOMAIN defs = DOMAIN types
            /\ \A i \in DOMAIN types :
                 /\ defs[i].name = types[i].name
                 /\ stage = "compile" \/ i < at => QualifiedAs(types, types[i], defs[i])
                 /\ stage = "fixup" /\ at <= i => defs[i] = types[i]

LEMMA BlocksFixup ==
  ASSUME PassesInv, BlocksOK, FixupTypes
  PROVE  BlocksOK'
<1> DEFINE types == Built(text.ros, FALSE)
<1>1. stage = "fixup" /\ outcome = ""
  BY DEF FixupTypes, Running
<1>2. SUFFICES ASSUME ~Idl PROVE BlocksOK'
  BY DEF BlocksOK, FixupTypes, Stop, Idl
<1>3. at \in DOMAIN defs /\ at \in Nat \ {0} /\ defs \in Seq(TypedDefinition)
  BY <1>1 DEF PassesInv, PlacesOK
<1>4. /\ DOMAIN defs = DOMAIN types
      /\ \A i \in DOMAIN types :
           /\ defs[i].name = types[i].name
           /\ i < at => QualifiedAs(types, types[i], defs[i])
           /\ at <= i => defs[i] = types[i]
  BY <1>1, <1>2 DEF BlocksOK
<1>5. CASE Ambiguous(defs, defs[at])
  <2>1. UNCHANGED <<text, stage, at, defs>>
    BY <1>5 DEF FixupTypes, Stop
  <2> QED
    BY <2>1 DEF BlocksOK, Idl
<1>6. CASE ~Ambiguous(defs, defs[at])
  <2> DEFINE d == Qualified(defs, defs[at])
  <2>1. /\ defs' = [defs EXCEPT ![at] = d]
        /\ Advance(Len(defs), "compile")
        /\ text' = text
    BY <1>6 DEF FixupTypes
  <2>2. defs[at] = types[at]
    <3>1. at <= at
      BY <1>3
    <3> QED
      BY <1>3, <1>4, <3>1
  <2>3. QualifiedAs(types, types[at], d)
    BY <1>3, <1>4, <1>6, <2>2, QualifiedIsSo
  <2>4. d.name = types[at].name
    BY <2>3 DEF QualifiedAs
  <2> HIDE DEF d, types
  <2>5. /\ DOMAIN defs' = DOMAIN types /\ defs'[at] = d
        /\ \A i \in DOMAIN types : i # at => defs'[i] = defs[i]
    BY <1>3, <1>4, <2>1
  <2>6. DOMAIN defs = 1..Len(defs) /\ Len(defs) \in Nat
    BY <1>3
  <2>7. \/ at < Len(defs) /\ at' = at + 1 /\ stage' = stage
        \/ at = Len(defs) /\ at' = 1 /\ stage' = "compile"
    BY <1>3, <2>1, <2>6, AdvanceMoves
  <2>8. /\ \A i \in DOMAIN types : i \in 1..Len(defs)
        /\ stage' = "fixup" => at' = at + 1
        /\ stage' = "compile" => at = Len(defs)
    <3>1. stage = "fixup" /\ stage # "compile"
      BY <1>1
    <3> QED
      BY <1>4, <2>6, <2>7, <3>1
  <2>9. stage' \in {"fixup", "compile"}
    BY <1>1, <2>7
  <2>10. ASSUME NEW i \in DOMAIN types
        PROVE  /\ defs'[i].name = types[i].name
               /\ stage' = "compile" \/ i < at' => QualifiedAs(types, types[i], defs'[i])
               /\ stage' = "fixup" /\ at' <= i => defs'[i] = types[i]
    <3>1. i \in Int /\ i <= Len(defs) /\ at \in Int
      BY <1>3, <2>6, <2>8, <2>10
    <3>2. defs'[i].name = types[i].name
      BY <1>4, <2>4, <2>5, <2>10
    <3>3. CASE i = at
      <4>1. ~(stage' = "fixup" /\ at' <= i)
        BY <2>8, <3>1, <3>3
      <4> QED
        BY <2>3, <2>5, <3>2, <3>3, <4>1
    <3>4. CASE i # at
      <4>1. defs'[i] = defs[i]
        BY <2>5, <2>10, <3>4
      <4>2. stage' = "compile" \/ i < at' => i < at
        <5>1. stage' = "compile" => i < at
          BY <2>6, <2>8, <3>1, <3>4
        <5>2. stage' = "fixup" /\ i < at' => i < at
          BY <2>8, <3>1, <3>4
        <5> QED
          BY <2>9, <5>1, <5>2
      <4>3. stage' = "fixup" /\ at' <= i => at <= i
        BY <2>8, <3>1
      <4> QED
        BY <1>4, <2>10, <3>2, <4>1, <4>2, <4>3
    <3> QED
      BY <3>3, <3>4
  <2> QED
    BY <2>1, <2>5, <2>9, <2>10 DEF BlocksOK, types, Idl
<1> QED
  BY <1>5, <1>6

LEMMA BlocksNext ==
  ASSUME PassesInv, BlocksOK, [Next]_vars
  PROVE  BlocksOK'
<1>1. CASE UNCHANGED vars
  BY <1>1 DEF vars, BlocksOK, Idl
<1>2. CASE Parse \/ ResolveConstants \/ ResolveTypes \/ BuildMap \/ Convert \/ Rename
  <2>1. stage \notin {"blocks", "fixup", "compile"}
    BY <1>2 DEF Parse, ResolveConstants, ResolveTypes, BuildMap, Convert, Rename, Running
  <2>2. text' = text
    BY <1>2 DEF Parse, ResolveConstants, ResolveTypes, BuildMap, Convert, Rename, Stop
  <2> QED
    BY <2>1, <2>2 DEF BlocksOK, Idl
<1>3. CASE ReadBlocks
  <2>1. /\ stage = "blocks" /\ stage' = "fixup" /\ defs' = Built(text.ros, FALSE)
        /\ text' = text /\ at' = at
    BY <1>3 DEF ReadBlocks, Running
  <2>2. at = 1 /\ text.ros \in Seq(WordedBlock)
    BY <2>1, TextType DEF PassesInv, PlacesOK
  <2>3. defs' \in Seq(TypedDefinition)
    BY <2>1, <2>2, BuiltType
  <2>4. \A i \in DOMAIN defs' : ~(i < 1)
    BY <2>3
  <2> QED
    BY <2>1, <2>2, <2>4 DEF BlocksOK, Idl
<1>4. CASE FixupTypes
  BY <1>4, BlocksFixup
<1>5. CASE Compile
  <2>1. UNCHANGED <<text, stage, at, defs>>
    BY <1>5 DEF Compile, Stop
  <2> QED
    BY <2>1 DEF BlocksOK, Idl
<1> QED
  BY <1>1, <1>2, <1>3, <1>4, <1>5 DEF Next

LEMMA BlocksInit ==
  ASSUME Init
  PROVE  BlocksOK
<1>1. text \in Texts
  BY DEF Init
<1>2. text.encoding \in {"ros2idl", "ros2msg"}
  BY <1>1, TextType DEF SchemaText
<1>3. ~Idl => stage = "blocks"
  BY <1>2 DEF Init, Idl
<1> QED
  BY <1>3 DEF BlocksOK

LEMMA BlocksHold == Spec => []BlocksOK
<1>1. Init => BlocksOK
  BY BlocksInit
<1>2. PassesInv /\ BlocksOK /\ [Next]_vars => BlocksOK'
  BY BlocksNext
<1> QED
  BY <1>1, <1>2, PassesHold, PTL DEF Spec

LEMMA FrontOf ==
  ASSUME NEW X, NEW s \in Seq(X), s # <<>>
  PROVE  Front(s) \in Seq(X) /\ Len(Front(s)) = Len(s) - 1
<1>1. Len(s) \in Nat /\ Len(s) # 0
  OBVIOUS
<1>2. SubSeq(s, 1, Len(s) - 1) \in Seq(X)
  BY <1>1
<1>3. Len(SubSeq(s, 1, Len(s) - 1)) = Len(s) - 1
  BY <1>1
<1> QED
  BY <1>2, <1>3 DEF Front

LEMMA LastOfConcat ==
  ASSUME NEW X, NEW s \in Seq(X), NEW t \in Seq(X)
  PROVE  Len(t) = 1 =>
           /\ (s \o t)[Len(s \o t)] = t[1]
           /\ s \o t # <<>> /\ Front(s \o t) = s
<1> DEFINE st == s \o t
<1>1. /\ st \in Seq(X) /\ Len(st) = Len(s) + Len(t)
      /\ \A i \in 1..Len(s) : st[i] = s[i]
      /\ \A i \in 1..Len(t) : st[Len(s) + i] = t[i]
  BY ConcatSeq
<1> HIDE DEF st
<1> SUFFICES ASSUME Len(t) = 1
             PROVE  st[Len(st)] = t[1] /\ st # <<>> /\ Front(st) = s
  BY DEF st
<1>2. Len(s) \in Nat /\ Len(st) = Len(s) + 1
  BY <1>1
<1>3. st[Len(s) + 1] = t[1]
  BY <1>1
<1>4. st # <<>>
  BY <1>2
<1>5. Front(st) \in Seq(X) /\ Len(Front(st)) = Len(s)
  <2>1. Front(st) \in Seq(X) /\ Len(Front(st)) = Len(st) - 1
    BY <1>1, <1>4, FrontOf
  <2> QED
    BY <1>2, <2>1
<1>6. ASSUME NEW i \in 1..Len(s) PROVE Front(st)[i] = s[i]
  <2>1. Front(st)[i] = st[i]
    BY <1>1, <1>2, <1>6 DEF Front
  <2> QED
    BY <1>1, <2>1
<1>7. Front(st) = s
  BY <1>5, <1>6
<1> QED
  BY <1>2, <1>3, <1>4, <1>7

\* The alternatives of _find_type_by_name.
LEMMA MatchForms ==
  ASSUME NEW types, NEW name, NEW space, NEW m \in Matches(types, name, space)
  PROVE  LET full == types[m].name
         IN /\ m \in DOMAIN types
            /\ Len(name) > 1 => full = name
            /\ name = <<"Header">> => full = <<"std_msgs", "Header">>
            /\ Len(name) = 1 /\ name # <<"Header">> /\ space # <<>> => full = space \o name
            /\ Len(name) = 1 /\ name # <<"Header">> /\ space = <<>> =>
                 Len(full) > 1 /\ full[Len(full)] = name[1]
<1> DEFINE full == types[m].name
<1>1. /\ m \in DOMAIN types
      /\ CASE Len(name) > 1 -> full = name
           [] name = <<"Header">> -> full = <<"std_msgs", "Header">>
           [] Len(name) = 1 /\ name # <<"Header">> /\ space # <<>> -> full = space \o name
           [] OTHER -> Len(full) > 1 /\ full[Len(full)] = name[1]
  BY DEF Matches
<1> DEFINE many == Len(name) > 1
           header == name = <<"Header">>
           one == Len(name) = 1 /\ name # <<"Header">> /\ space # <<>>
           same == full = name
           std == full = <<"std_msgs", "Header">>
           inSpace == full = space \o name
           anywhere == Len(full) > 1 /\ full[Len(full)] = name[1]
<1>2. (CASE many -> same [] header -> std [] one -> inSpace [] OTHER -> anywhere)
  BY <1>1
<1>3. one => ~header
  OBVIOUS
<1> HIDE DEF many, header, one, same, std, inSpace, anywhere
<1>4. ~many /\ header => std
  BY <1>2, <1>3
<1>5. ~many /\ one => inSpace
  BY <1>2, <1>3
<1>6. ~many /\ ~header /\ ~one => anywhere
  BY <1>2
<1>7. many /\ ~header /\ ~one => same
  BY <1>2
<1>8. many => ~header /\ ~one
  <2>1. header => ~many
    <3>1. Len(<<"Header">>) = 1
      OBVIOUS
    <3> QED
      BY <3>1 DEF many, header
  <2>2. one => ~many
    BY DEF one, many
  <2> QED
    BY <2>1, <2>2
<1>9. (many => same) /\ (header => std) /\ (one => inSpace)
      /\ (~many /\ ~header /\ ~one => anywhere)
  BY <1>4, <1>5, <1>6, <1>7, <1>8
<1>10. Len(name) = 1 => ~many
  BY DEF many
<1> QED
  BY <1>1, <1>9, <1>10 DEF many, header, one, same, std, inSpace, anywhere

\* Where _find_type_by_name finds a name, in terms of the name that is sought.
LEMMA MatchedName ==
  ASSUME NEW types, \A i \in DOMAIN types : types[i].name \in Seq(STRING \ {Unsplit[1]}),
         NEW name \in Name, name # <<>>, NEW own \in Name, NEW d, d.name = own,
         NEW m \in Matches(types, name, Namespace(d))
  PROVE  LET target == types[m].name
         IN /\ name # Unsplit
            /\ target[Len(target)] = name[Len(name)]
            /\ Len(name) > 1 => target = name
            /\ (Len(name) = 1 /\ Len(own) > 1 /\ name # <<"Header">>) => Front(target) = Front(own)
<1> DEFINE target == types[m].name
           space == Namespace(d)
<1>1. m \in DOMAIN types /\ target \in Seq(STRING \ {Unsplit[1]})
  BY MatchForms
<1>2. /\ Len(name) \in Nat /\ Len(name) >= 1 /\ name \in Seq(STRING) /\ own \in Seq(STRING)
  BY DEF Name
<1>3. /\ Len(name) > 1 => target = name
      /\ name = <<"Header">> => target = <<"std_msgs", "Header">>
      /\ Len(name) = 1 /\ name # <<"Header">> /\ space # <<>> => target = space \o name
      /\ Len(name) = 1 /\ name # <<"Header">> /\ space = <<>> =>
           Len(target) > 1 /\ target[Len(target)] = name[1]
  BY MatchForms
<1>4. space \in Seq(STRING) /\ (Len(own) > 1 => space = Front(own) /\ space # <<>>)
  <2>1. own # <<>> => space = Front(own)
    BY DEF Namespace, Front
  <2>2. own = <<>> => space = <<>>
    BY DEF Namespace
  <2>3. own # <<>> => Front(own) \in Seq(STRING) /\ Len(Front(own)) = Len(own) - 1
    BY <1>2, FrontOf
  <2>4. Len(own) > 1 => own # <<>> /\ Len(Front(own)) # 0
    BY <1>2, <2>3
  <2>5. <<>> \in Seq(STRING) /\ Len(<<>>) = 0
    OBVIOUS
  <2> HIDE DEF space
  <2> QED
    BY <2>1, <2>2, <2>3, <2>4, <2>5
<1>5. ASSUME target # <<>> PROVE target[Len(target)] # Unsplit[1]
  BY <1>1, <1>5
<1>6. Len(Unsplit) = 1
  BY DEF Unsplit
<1> HIDE DEF target, space
<1>7. /\ name # Unsplit
      /\ target[Len(target)] = name[Len(name)]
      /\ Len(name) > 1 => target = name
      /\ (Len(name) = 1 /\ Len(own) > 1 /\ name # <<"Header">>) => Front(target) = Front(own)
  <2>1. CASE Len(name) > 1
    <3>1. target = name /\ Len(name) # 1
      BY <1>2, <1>3, <2>1
    <3>2. name # Unsplit
      BY <1>6, <3>1
    <3> QED
      BY <3>1, <3>2
  <2>2. CASE Len(name) = 1 /\ name = <<"Header">>
    <3>1. target = <<"std_msgs", "Header">>
      BY <1>3, <2>2
    <3>2. Len(target) = 2 /\ target[2] = "Header" /\ name[1] = "Header" /\ target # <<>>
      BY <2>2, <3>1
    <3>3. Unsplit[1] # "Header"
      BY <1>5, <3>2
    <3> QED
      BY <2>2, <3>2, <3>3
  <2>3. CASE Len(name) = 1 /\ name # <<"Header">> /\ space # <<>>
    <3>1. target = space \o name
      BY <1>3, <2>3
    <3>2. /\ target[Len(target)] = name[1] /\ target # <<>> /\ Front(target) = space
      BY <1>2, <1>4, <2>3, <3>1, LastOfConcat
    <3>3. name # Unsplit
      BY <1>5, <3>2
    <3>4. ~(Len(name) > 1) /\ Len(name) = 1
      BY <2>3
    <3>5. Len(own) > 1 => Front(target) = Front(own)
      BY <1>4, <3>2
    <3> QED
      BY <3>2, <3>3, <3>4, <3>5
  <2>4. CASE Len(name) = 1 /\ name # <<"Header">> /\ space = <<>>
    <3>1. Len(target) > 1 /\ target[Len(target)] = name[1]
      BY <1>3, <2>4
    <3>2. target # <<>>
      BY <3>1
    <3>3. name # Unsplit
      BY <1>5, <3>1, <3>2
    <3>4. ~(Len(name) > 1) /\ Len(name) = 1 /\ ~(Len(own) > 1)
      BY <1>4, <2>4
    <3> QED
      BY <3>1, <3>3, <3>4
  <2>5. Len(name) > 1 \/ Len(name) = 1
    <3>1. \A n \in Nat : n >= 1 => n > 1 \/ n = 1
      OBVIOUS
    <3> QED
      BY <1>2, <3>1, Zenon
  <2> QED
    BY <2>1, <2>2, <2>3, <2>4, <2>5, Zenon
<1> QED
  BY <1>7, Zenon DEF target

\* What is left of a line in its field.
LEMMA FieldOfLine ==
  ASSUME NEW l \in Line
  PROVE  LET f == Ros1Field(l)
         IN /\ f.isConstant = l.constant
            /\ f.isComplex => f.type \in {Unsplit, l.type}
            /\ ~f.isComplex => KindOf(f.type) # "complex"
<1> DEFINE unsplit == l.stringBound \/ l.array = "atMost"
           type == CASE unsplit -> Unsplit
                     [] ~unsplit /\ l.array = "no" -> normalize_type(l.type)
                     [] OTHER -> l.type
           complex == type \notin BUILTIN_TYPES
           isArray == l.array \in {"any", "fixed"}
           length == IF l.array = "fixed" THEN <<l.length>> ELSE <<>>
           f == PlainField(l.name, type)
<1>1. f = [name |-> l.name, type |-> type, isComplex |-> FALSE, enumType |-> <<>>,
           isArray |-> FALSE, arrayLength |-> <<>>, arrayUpperBound |-> <<>>,
           isConstant |-> FALSE, value |-> <<>>]
  BY DEF PlainField
<1>2. Ros1Field(l) =
        [f EXCEPT !.isComplex = complex, !.isArray = isArray, !.arrayLength = length,
                  !.isConstant = l.constant]
  BY DEF Ros1Field
<1>3. complex => type \in {Unsplit, l.type}
  <2>1. <<"uint8">> \in BUILTIN_TYPES /\ <<"int8">> \in BUILTIN_TYPES
    BY DEF BUILTIN_TYPES
  <2>2. normalize_type(l.type) \in BUILTIN_TYPES \cup {l.type}
    BY <2>1 DEF normalize_type
  <2>3. type \in {Unsplit, normalize_type(l.type), l.type}
    OBVIOUS
  <2> HIDE DEF type
  <2> QED
    BY <2>2, <2>3
<1>4. ~complex => KindOf(type) # "complex"
  <2>1. \A t \in BUILTIN_TYPES : KindOf(t) # "complex"
    BY DEF BUILTIN_TYPES, KindOf
  <2> HIDE DEF type
  <2> QED
    BY <2>1
<1> HIDE DEF type, complex, isArray, length, f
<1>5. Ros1Field(l).isConstant = l.constant /\ Ros1Field(l).isComplex = complex
      /\ Ros1Field(l).type = type
  BY <1>1, <1>2
<1> QED
  BY <1>3, <1>4, <1>5

\* The plan of a field that is no constant, at its rank among those.
LEMMA PlannedAt ==
  ASSUME NEW ds, NEW d, NEW enumAsString, d.definitions \in Seq(MessageDefinitionField),
         NEW k \in DOMAIN d.definitions, ~d.definitions[k].isConstant
  PROVE  PlanOf(ds, d, enumAsString).fields[Rank(DataFields(d), k)]
           = FieldPlan(ds, d.definitions[k], enumAsString)
<1> DEFINE D == DataFields(d)
<1>1. D \subseteq DOMAIN d.definitions /\ k \in D
  BY DEF DataFields
<1>2. Places(D)
  BY <1>1, PlacesInSeq
<1>3. Rank(D, k) \in 1..Cardinality(D) /\ Nth(D, Rank(D, k)) = k
  BY <1>1, <1>2, RankRange, RankNth
<1>4. PlanOf(ds, d, enumAsString).fields =
        [i \in 1..Cardinality(D) |-> FieldPlan(ds, d.definitions[Nth(D, i)], enumAsString)]
  BY DEF PlanOf
<1> HIDE DEF D
<1>5. PlanOf(ds, d, enumAsString).fields[Rank(D, k)] = FieldPlan(ds, d.definitions[k], enumAsString)
  BY <1>3, <1>4
<1> QED
  BY <1>5 DEF D

LEMMA BlocksMeanTheirNames ==
  ASSUME PassesInv, BlocksOK, ~Idl, Ready, stage = "compile", NamesDistinct,
         NEW b \in Range(text.ros), NEW k \in DOMAIN b.lines, ~b.lines[k].constant
  PROVE  LET l == b.lines[k]
             i == At(b.name)
             before == Cardinality({j \in 1..k : ~b.lines[j].constant})
             target == defs[schema.plans[i].fields[before].target].name
         IN schema.plans[i].fields[before].kind = "complex" =>
              /\ target[Len(target)] = l.type[Len(l.type)]
              /\ Len(l.type) > 1 => target = l.type
              /\ (Len(l.type) = 1 /\ Len(b.name) > 1 /\ l.type # <<"Header">>) =>
                   Front(target) = Front(b.name)
<1> DEFINE l == b.lines[k]
           types == Built(text.ros, FALSE)
           before == Cardinality({j \in 1..k : ~b.lines[j].constant})
<1>1. /\ text.ros \in Seq(WordedBlock) /\ defs \in Seq(TypedDefinition)
      /\ defs \in Seq(MessageDefinition) /\ NamesUnique(defs)
      /\ Compiles(defs) /\ schema = Compiled(defs, text.wanted, text.enumAsString, TRUE)
  BY TextType, TypedIsMessage DEF PassesInv, SchemaOK, NamesDistinct, NamesUnique
<1>2. /\ DOMAIN defs = DOMAIN types
      /\ \A i \in DOMAIN types : QualifiedAs(types, types[i], defs[i])
  BY DEF BlocksOK
<1>3. PICK n \in DOMAIN text.ros : b = text.ros[n]
  BY DEF Range
<1>4. b \in WordedBlock /\ b \in Block
  <2>1. \A s \in Seq(WordedBlock) : \A i \in DOMAIN s : s[i] \in WordedBlock
    OBVIOUS
  <2> QED
    BY <1>1, <1>3, <2>1 DEF WordedBlock
<1>5. /\ b.lines \in Seq(Line) /\ b.name \in Seq(STRING \ {Unsplit[1]})
      /\ l \in Line /\ l.type \in Name \ {<<>>}
  <2>1. b.lines \in Seq(Line) /\ b.name \in Seq(STRING \ {Unsplit[1]})
    BY <1>4 DEF Block
  <2>2. l \in Line
    BY <2>1
  <2> QED
    BY <2>1, <2>2 DEF Line
<1>6. PICK i \in DOMAIN types : types[i] = BlockDefinition(b)
  BY <1>1, <1>3, BuiltOf
<1> DEFINE d == types[i]
           e == defs[i]
           f == Ros1Field(l)
           g == e.definitions[k]
<1> HIDE DEF types
<1>7. /\ d.name = b.name /\ DOMAIN d.definitions = DOMAIN b.lines
      /\ \A j \in DOMAIN b.lines : d.definitions[j] = Ros1Field(b.lines[j])
  <2>1. /\ BlockDefinition(b).name = b.name
        /\ BlockDefinition(b).definitions = [j \in DOMAIN b.lines |-> Ros1Field(b.lines[j])]
    BY DEF BlockDefinition, Aggregate
  <2> QED
    BY <1>6, <2>1
<1>8. /\ e.name = b.name /\ DOMAIN e.definitions = DOMAIN b.lines
      /\ \A j \in DOMAIN b.lines : e.definitions[j].isConstant = b.lines[j].constant
      /\ g.isComplex = f.isComplex /\ (~f.isComplex => g.type = f.type)
      /\ f.isComplex => \E m \in Matches(types, f.type, Namespace(d)) : g.type = types[m].name
  <2>1. QualifiedAs(types, d, e)
    BY <1>2
  <2>2. \A j \in DOMAIN b.lines : Ros1Field(b.lines[j]).isConstant = b.lines[j].constant
    BY <1>5, FieldOfLine
  <2> QED
    BY <1>7, <2>1, <2>2 DEF QualifiedAs
<1>9. At(b.name) = i
  <2>1. i \in DOMAIN defs /\ defs[i].name = b.name
    BY <1>2, <1>8
  <2>2. \A j \in DOMAIN defs : defs[j].name = b.name => j = i
    BY <1>1, <2>1 DEF NamesUnique
  <2> QED
    BY <2>1, <2>2 DEF At
<1>10. schema.plans[i] = PlanOf(defs, e, text.enumAsString)
  <2>1. i \in DOMAIN defs
    BY <1>2
  <2>2. defs \in Seq(MessageDefinition) /\ NamesUnique(defs)
    BY <1>1
  <2>3. \A wanted, enumAsString, bytes :
          Compiled(defs, wanted, enumAsString, bytes).plans[i] = PlanOf(defs, defs[i], enumAsString)
    BY <2>1, <2>2, DistinctPlans, Zenon
  <2>4. Compiled(defs, text.wanted, text.enumAsString, TRUE).plans[i]
          = PlanOf(defs, defs[i], text.enumAsString)
    BY <2>3, Zenon
  <2> QED
    BY <1>1, <2>4
<1>11. e \in TypedDefinition /\ e.definitions \in Seq(TypedField)
  <2>1. \A s \in Seq(TypedDefinition) : \A j \in DOMAIN s : s[j] \in TypedDefinition
    OBVIOUS
  <2>2. e \in TypedDefinition
    BY <1>1, <1>2, <2>1
  <2> QED
    BY <2>2, DefinitionTags
<1>12. before = Rank(DataFields(e), k)
  <2>1. DataFields(e) = {j \in DOMAIN b.lines : ~b.lines[j].constant}
    BY <1>8 DEF DataFields
  <2>2. DOMAIN b.lines = 1..Len(b.lines) /\ Len(b.lines) \in Nat
    BY <1>5
  <2> HIDE DEF e
  <2>3. {j \in DataFields(e) : j <= k} = {j \in 1..k : ~b.lines[j].constant}
    BY <2>1, <2>2
  <2> QED
    BY <2>3 DEF Rank
<1>13. schema.plans[i].fields[before] = FieldPlan(defs, g, text.enumAsString)
  <2>1. e.definitions \in Seq(MessageDefinitionField)
    <3>1. TypedField \subseteq MessageDefinitionField
      BY DEF TypedField
    <3> QED
      BY <1>11, <3>1, SeqMono
  <2>2. k \in DOMAIN e.definitions /\ ~e.definitions[k].isConstant
    BY <1>8
  <2> HIDE DEF e, before
  <2>3. PlanOf(defs, e, text.enumAsString).fields[Rank(DataFields(e), k)]
          = FieldPlan(defs, e.definitions[k], text.enumAsString)
    BY <2>1, <2>2, PlannedAt
  <2> QED
    BY <1>10, <1>12, <2>3
<1>14. FieldPlan(defs, g, text.enumAsString).kind = IF g.isComplex THEN "complex" ELSE KindOf(g.type)
  BY DEF FieldPlan
<1>15. f.isComplex => f.type \in {Unsplit, l.type}
  BY <1>5, FieldOfLine
<1>16. ~f.isComplex => KindOf(f.type) # "complex"
  BY <1>5, FieldOfLine
<1> DEFINE index == FieldPlan(defs, g, text.enumAsString).target
<1>17. ASSUME f.isComplex
       PROVE  LET target == defs[index].name
              IN /\ target[Len(target)] = l.type[Len(l.type)]
                 /\ Len(l.type) > 1 => target = l.type
                 /\ (Len(l.type) = 1 /\ Len(b.name) > 1 /\ l.type # <<"Header">>) =>
                      Front(target) = Front(b.name)
  <2>1. PICK m \in Matches(types, f.type, Namespace(d)) : g.type = types[m].name
    BY <1>8, <1>17
  <2>2. m \in DOMAIN types /\ m \in DOMAIN defs /\ defs[m].name = g.type
    BY <1>2, <2>1 DEF Matches, QualifiedAs
  <2>3. index = m
    <3>1. index = IndexOf(defs, g.type)
      BY <1>8, <1>17 DEF FieldPlan
    <3>2. IndexOf(defs, defs[m].name) = m
      BY <1>1, <2>2, DistinctPlaces
    <3> QED
      BY <2>2, <3>1, <3>2
  <2>4. \A j \in DOMAIN types : types[j].name \in Seq(STRING \ {Unsplit[1]})
    <3> SUFFICES ASSUME NEW j \in DOMAIN types PROVE types[j].name \in Seq(STRING \ {Unsplit[1]})
      OBVIOUS
    <3>1. PICK o \in DOMAIN text.ros : types[j] = BlockDefinition(text.ros[o])
      BY <1>1, BuiltOf DEF types
    <3>2. \A s \in Seq(WordedBlock) : \A x \in DOMAIN s : s[x] \in WordedBlock
      OBVIOUS
    <3>3. text.ros[o] \in Block
      BY <1>1, <3>2 DEF WordedBlock
    <3>4. text.ros[o].name \in Seq(STRING \ {Unsplit[1]})
      BY <3>3 DEF Block
    <3> QED
      BY <3>1, <3>4 DEF BlockDefinition, Aggregate
  <2>5. f.type \in Name /\ f.type # <<>>
    <3>1. Unsplit \in Name /\ Unsplit # <<>>
      <4>1. Unsplit[1] \in STRING
        BY StringsAssumption
      <4> QED
        BY <4>1, SingleSeq DEF Name, Unsplit
    <3> QED
      BY <1>5, <1>15, <1>17, <3>1
  <2>6. b.name \in Name
    BY <1>5, SeqMono DEF Name
  <2> HIDE DEF d, f, index, l
  <2>7. LET target == types[m].name
        IN /\ f.type # Unsplit
           /\ target[Len(target)] = f.type[Len(f.type)]
           /\ Len(f.type) > 1 => target = f.type
           /\ (Len(f.type) = 1 /\ Len(b.name) > 1 /\ f.type # <<"Header">>) =>
                Front(target) = Front(b.name)
    BY <1>7, <2>1, <2>4, <2>5, <2>6, MatchedName
  <2>8. f.type = l.type
    BY <1>15, <1>17, <2>7
  <2>9. defs[index].name = types[m].name
    BY <2>1, <2>2, <2>3
  <2> QED
    BY <2>7, <2>8, <2>9, Zenon
<1>18. schema.plans[i].fields[before].kind = "complex" => f.isComplex
  BY <1>8, <1>13, <1>14, <1>16
<1> HIDE DEF e, f, d, l, before
<1>19. LET target == defs[schema.plans[i].fields[before].target].name
       IN schema.plans[i].fields[before].kind = "complex" =>
            /\ target[Len(target)] = l.type[Len(l.type)]
            /\ Len(l.type) > 1 => target = l.type
            /\ (Len(l.type) = 1 /\ Len(b.name) > 1 /\ l.type # <<"Header">>) =>
                 Front(target) = Front(b.name)
  BY <1>13, <1>17, <1>18, Zenon
<1> QED
  BY <1>9, <1>19, Zenon DEF l, before

\* The decoder is built in the last pass.
LEMMA ReadyAtEnd == Spec => [](Ready => stage = "compile")
<1>1. Init => (Ready => stage = "compile")
  BY DEF Init, Ready
<1>2. ASSUME Ready => stage = "compile", [Next]_vars PROVE (Ready => stage = "compile")'
  <2>1. CASE UNCHANGED vars
    BY <1>2, <2>1 DEF vars, Ready
  <2>2. CASE Compile
    BY <2>2 DEF Compile, Running, Stop, Ready
  <2>3. CASE Next /\ ~Compile
    BY <2>3 DEF Next, Parse, ResolveConstants, ResolveTypes, BuildMap, Convert, Rename, ReadBlocks,
       FixupTypes, Running, Stop, Ready
  <2> QED
    BY <1>2, <2>1, <2>2, <2>3
<1> QED
  BY <1>1, <1>2, PTL DEF Spec

\* For every ros2msg text whose definitions have names of their own: the decoder
\* reads a field of another type with the plan of the block that the field's
\* line names, although fixup_types has replaced the name, equal definitions
\* have become one, and plans are found by numbers that come from an index by
\* name.  A bound kept in a type's name never finds a block.
THEOREM FieldsFindTheirBlocksHolds == Spec => []FieldsFindTheirBlocks
<1>1. ASSUME PassesInv, BlocksOK, Ready => stage = "compile" PROVE FieldsFindTheirBlocks
  BY <1>1, BlocksMeanTheirNames DEF FieldsFindTheirBlocks
<1> QED
  BY <1>1, PassesHold, BlocksHold, ReadyAtEnd, PTL

-----------------------------------------------------------------------------
(* What becomes of a struct, from its declaration to its definition.       *)

LEMMA ByNameHas ==
  ASSUME NEW X, NEW s \in Seq(X)
  PROVE  /\ \A k \in DOMAIN ByName(s) : \E i \in DOMAIN s : ByName(s)[k] = s[i]
         /\ \A i \in DOMAIN s : \E k \in DOMAIN ByName(s) : ByName(s)[k].name = s[i].name
<1> DEFINE F == Firsts(s)
           item(k) == Named(s, s[Nth(F, k)].name)
<1>1. F \subseteq DOMAIN s /\ Places(F)
  BY PlacesInSeq DEF Firsts
<1>2. ByName(s) = [k \in 1..Cardinality(F) |-> item(k)]
  BY DEF ByName
<1>3. ASSUME NEW k \in 1..Cardinality(F)
      PROVE  \E j \in DOMAIN s : item(k) = s[j] /\ s[j].name = s[Nth(F, k)].name
  <2>1. Nth(F, k) \in DOMAIN s
    BY <1>1, NthRank
  <2> QED
    BY <2>1, NamedIn
<1>4. ASSUME NEW i \in DOMAIN s PROVE \E j \in F : s[j].name = s[i].name
  <2> DEFINE T == {j \in DOMAIN s : s[j].name = s[i].name}
  <2>1. Places(T) /\ T # {}
    BY PlacesInSeq
  <2>2. Least(T) \in T /\ \A j \in T : Least(T) <= j
    BY <2>1, HasLeast
  <2>3. Least(T) \in F /\ s[Least(T)].name = s[i].name
    BY <2>2 DEF Firsts
  <2> QED
    BY <2>3
<1> HIDE DEF F, item
<1>5. ASSUME NEW i \in DOMAIN s
      PROVE  \E k \in DOMAIN ByName(s) : ByName(s)[k].name = s[i].name
  <2>1. PICK j \in F : s[j].name = s[i].name
    BY <1>4
  <2>2. Rank(F, j) \in 1..Cardinality(F) /\ Nth(F, Rank(F, j)) = j
    BY <1>1, RankRange, RankNth
  <2>3. item(Rank(F, j)).name = s[j].name
    BY <1>3, <2>2
  <2> QED
    BY <1>2, <2>1, <2>2, <2>3
<1> QED
  BY <1>2, <1>3, <1>5

\* The names that a declaration enters into the map.
Enters(d, name) ==
  \/ FullName(d) = name
  \/ d.kind = "enum" /\ \E k \in DOMAIN d.members : Append(FullName(d), d.members[k]) = name

LEMMA AlikeEnters ==
  ASSUME NEW d, NEW e, Alike(d, e), NEW name
  PROVE  Enters(e, name) => Enters(d, name)
BY DEF Alike, Enters, FullName

LEMMA ItemsEnter ==
  ASSUME NEW ns, NEW i
  PROVE  /\ ns[i].kind = "struct" => Items(ns, i) = <<Item(ns[i], <<>>)>>
         /\ ns[i] \in ResolvedNode => \A x \in DOMAIN Items(ns, i) : Enters(ns[i], Items(ns, i)[x].name)
<1> DEFINE node == ns[i]
           enumerators == Enumerators(node)
           own == Kept(ns, Own(ns, i, i - node.size))
           members == [k \in DOMAIN enumerators |-> Item(enumerators[k], <<>>)]
<1>1. Items(ns, i) =
        CASE node.kind = "module" -> <<Item(node, own)>>
          [] node.kind = "enum" -> <<Item(node, enumerators)>> \o members
          [] OTHER -> <<Item(node, <<>>)>>
  BY DEF Items
<1> HIDE DEF node, own
<1>2. \A c : Item(node, c).name = FullName(node)
  BY DEF Item
<1>3. CASE node.kind # "enum"
  <2>1. \E c : Items(ns, i) = <<Item(node, c)>>
    BY <1>1, <1>3
  <2>2. PICK c : Items(ns, i) = <<Item(node, c)>>
    BY <2>1
  <2>3. \A x \in DOMAIN Items(ns, i) : Items(ns, i)[x].name = FullName(node)
    BY <1>2, <2>2
  <2>4. node.kind = "struct" => Items(ns, i) = <<Item(node, <<>>)>>
    BY <1>1
  <2> QED
    BY <2>3, <2>4 DEF Enters, node
<1>4. CASE node.kind = "enum"
  <2> SUFFICES ASSUME node \in ResolvedNode, NEW x \in DOMAIN Items(ns, i)
               PROVE  Enters(node, Items(ns, i)[x].name)
    BY <1>4 DEF node
  <2>1. Items(ns, i) = <<Item(node, enumerators)>> \o members
    BY <1>1, <1>4
  <2>2. enumerators \in Seq(ConstNode) /\ Len(enumerators) = Len(node.members)
    BY EnumeratorsType
  <2>3. DOMAIN enumerators = DOMAIN node.members
    <3>1. node.members \in Seq(STRING)
      BY ResolvedTags
    <3> QED
      BY <2>2, <3>1
  <2>4. \A k \in DOMAIN node.members : FullName(enumerators[k]) = Append(FullName(node), node.members[k])
    BY DEF Enumerators, Declaration, FullName
  <2>5. \A k \in DOMAIN members : members[k].name = FullName(enumerators[k])
    BY DEF Item
  <2>6. DOMAIN members = 1..Len(enumerators) /\ Len(enumerators) \in Nat
    BY <2>2
  <2>7. members \in [1..Len(enumerators) -> {members[k] : k \in DOMAIN members}]
    BY <2>6
  <2>8. DOMAIN members = DOMAIN node.members
    BY <2>3
  <2> DEFINE Y == {members[k] : k \in DOMAIN members} \cup {Item(node, enumerators)}
  <2>9. members \in Seq(Y) /\ Len(members) = Len(enumerators)
    <3> HIDE DEF members
    <3>1. members \in [1..Len(enumerators) -> Y]
      BY <2>6, <2>7
    <3> HIDE DEF Y
    <3> QED
      BY <2>6, <3>1, IsSeq
  <2> HIDE DEF members, enumerators, Y
  <2>10. <<Item(node, enumerators)>> \in Seq(Y) /\ Len(<<Item(node, enumerators)>>) = 1
         /\ <<Item(node, enumerators)>>[1] = Item(node, enumerators)
    <3>1. Item(node, enumerators) \in Y
      BY DEF Y
    <3> QED
      BY <3>1, SingleSeq
  <2> DEFINE head == <<Item(node, enumerators)>>
  <2> HIDE DEF head
  <2>11. /\ Items(ns, i) \in Seq(Y) /\ Len(Items(ns, i)) = 1 + Len(members)
         /\ Items(ns, i)[1] = Item(node, enumerators)
         /\ \A k \in 1..Len(members) : Items(ns, i)[1 + k] = members[k]
    <3>1. head \in Seq(Y) /\ Len(head) = 1 /\ head[1] = Item(node, enumerators)
      BY <2>10 DEF head
    <3>2. Items(ns, i) = head \o members
      BY <2>1 DEF head
    <3>3. /\ head \o members \in Seq(Y) /\ Len(head \o members) = Len(head) + Len(members)
          /\ \A k \in 1..Len(head) : (head \o members)[k] = head[k]
          /\ \A k \in 1..Len(members) : (head \o members)[Len(head) + k] = members[k]
      <4>1. head \in Seq(Y)
        BY <3>1
      <4>2. members \in Seq(Y)
        BY <2>9
      <4> QED
        BY <4>1, <4>2, ConcatSeq
    <3> QED
      <4>1. \A k \in 1..Len(head) : Items(ns, i)[k] = head[k]
        BY <3>2, <3>3
      <4>2. \A k \in 1..Len(members) : Items(ns, i)[Len(head) + k] = members[k]
        BY <3>2, <3>3
      <4> QED
        BY <3>1, <3>2, <3>3, <4>1, <4>2
  <2>12. x \in 1..(1 + Len(members)) /\ Len(members) \in Nat
    BY <2>9, <2>11
  <2>13. CASE x = 1
    BY <1>2, <2>11, <2>13 DEF Enters
  <2>14. CASE x # 1
    <3> DEFINE k == x - 1
    <3>1. k \in 1..Len(members) /\ x = 1 + k
      BY <2>12, <2>14
    <3>2. Items(ns, i)[x] = members[k]
      BY <2>11, <3>1
    <3>3. k \in DOMAIN members /\ k \in DOMAIN node.members
      BY <2>6, <2>8, <2>9, <3>1
    <3>4. Items(ns, i)[x].name = Append(FullName(node), node.members[k])
      BY <2>4, <2>5, <3>2, <3>3
    <3> QED
      BY <1>4, <3>3, <3>4 DEF Enters
  <2> QED
    BY <2>13, <2>14
<1> QED
  BY <1>3, <1>4

\* A definition that the reader may take for its root.
HasStruct(ds, name) ==
  \E i \in DOMAIN ds :
    /\ ds[i].name = name /\ ds[i].aggregatedKind = "struct"
    /\ \A k \in DOMAIN ds[i].definitions : ~ds[i].definitions[k].isConstant

LEMMA ConcatStructs ==
  ASSUME NEW ds \in Seq(TypedDefinition), NEW more \in Seq(TypedDefinition), NEW name
  PROVE  HasStruct(ds, name) \/ HasStruct(more, name) => HasStruct(ds \o more, name)
<1> DEFINE all == ds \o more
<1>1. /\ all \in Seq(TypedDefinition) /\ Len(all) = Len(ds) + Len(more)
      /\ \A i \in 1..Len(ds) : all[i] = ds[i]
      /\ \A i \in 1..Len(more) : all[Len(ds) + i] = more[i]
  BY ConcatSeq
<1>2. /\ Len(ds) \in Nat /\ DOMAIN ds = 1..Len(ds)
      /\ Len(more) \in Nat /\ DOMAIN more = 1..Len(more)
  OBVIOUS
<1> HIDE DEF all
<1>3. DOMAIN all = 1..(Len(ds) + Len(more))
  BY <1>1
<1>4. ASSUME HasStruct(ds, name) PROVE HasStruct(all, name)
  <2>1. PICK i \in DOMAIN ds :
          /\ ds[i].name = name /\ ds[i].aggregatedKind = "struct"
          /\ \A k \in DOMAIN ds[i].definitions : ~ds[i].definitions[k].isConstant
    BY <1>4 DEF HasStruct
  <2>2. i \in DOMAIN all /\ all[i] = ds[i]
    BY <1>1, <1>2, <1>3
  <2> QED
    BY <2>1, <2>2 DEF HasStruct
<1>5. ASSUME HasStruct(more, name) PROVE HasStruct(all, name)
  <2>1. PICK i \in DOMAIN more :
          /\ more[i].name = name /\ more[i].aggregatedKind = "struct"
          /\ \A k \in DOMAIN more[i].definitions : ~more[i].definitions[k].isConstant
    BY <1>5 DEF HasStruct
  <2>2. Len(ds) + i \in DOMAIN all /\ all[Len(ds) + i] = more[i]
    BY <1>1, <1>2, <1>3
  <2> QED
    BY <2>1, <2>2 DEF HasStruct
<1> QED
  BY <1>4, <1>5 DEF all

LEMMA FieldNotConstant ==
  ASSUME NEW m, NEW f
  PROVE  _convert_field(m, f).isConstant = FALSE
<1> DEFINE td == _resolve_typedef(m, f.type)
           lengths == f.array_lengths \o td.array_lengths
           bound == IF f.is_sequence THEN f.bound ELSE td.bound
           r == Referring(m, td.type, PlainField(f.name, <<>>))
           isArray == lengths # <<>> \/ f.is_sequence \/ td.is_sequence
           arrayLength == IF lengths = <<>> THEN <<>> ELSE <<lengths[1].int>>
           upper == [b \in DOMAIN bound |-> bound[b].int]
<1>1. _convert_field(m, f) =
        [r EXCEPT !.isArray = isArray, !.arrayLength = arrayLength, !.arrayUpperBound = upper]
  BY DEF _convert_field
<1> DEFINE newType == IF IsKind(m, td.type, {"enum"}) THEN <<"uint32">> ELSE td.type
           enumType == IF IsKind(m, td.type, {"enum"}) THEN td.type ELSE <<>>
           complex == IsKind(m, td.type, {"struct", "union"})
<1>2. r = [name |-> f.name, type |-> newType, isComplex |-> complex, enumType |-> enumType,
           isArray |-> FALSE, arrayLength |-> <<>>, arrayUpperBound |-> <<>>,
           isConstant |-> FALSE, value |-> <<>>]
  BY ReferringMakes
<1> HIDE DEF r, isArray, arrayLength, upper, newType, enumType, complex
<1> QED
  BY <1>1, <1>2

LEMMA StructConverted ==
  ASSUME NEW m, NEW item, item.node.kind = "struct"
  PROVE  HasStruct(Converted(m, item), item.name)
<1> DEFINE fields == [k \in DOMAIN item.node.fields |-> _convert_field(m, item.node.fields[k])]
           d == Aggregate(item.name, "struct", fields)
<1>1. Converted(m, item) = <<d>>
  BY DEF Converted
<1>2. \A k \in DOMAIN fields : ~fields[k].isConstant
  BY FieldNotConstant
<1> HIDE DEF fields
<1>3. d.name = item.name /\ d.aggregatedKind = "struct" /\ d.definitions = fields
  BY DEF Aggregate
<1> HIDE DEF d
<1>4. 1 \in DOMAIN <<d>> /\ <<d>>[1] = d
  OBVIOUS
<1> QED
  BY <1>1, <1>2, <1>3, <1>4 DEF HasStruct

LEMMA StructRenamed ==
  ASSUME NEW ds \in Seq(TypedDefinition), NEW name, HasStruct(ds, name)
  PROVE  HasStruct([i \in DOMAIN ds |-> Renamed(ds[i])], name)
<1>1. PICK i \in DOMAIN ds :
        /\ ds[i].name = name /\ ds[i].aggregatedKind = "struct"
        /\ \A k \in DOMAIN ds[i].definitions : ~ds[i].definitions[k].isConstant
  BY DEF HasStruct
<1> DEFINE d == ds[i]
           Changed(f) == [f EXCEPT !.name = IF @ = "nanosec" THEN "nsec" ELSE @]
           fields == [k \in DOMAIN d.definitions |-> Changed(d.definitions[k])]
<1>2. Renamed(d) = IF d.name \in Times THEN [d EXCEPT !.definitions = fields] ELSE d
  BY DEF Renamed
<1>3. d \in TypedDefinition /\ d.definitions \in Seq(TypedField)
  <2>1. d \in TypedDefinition
    OBVIOUS
  <2> QED
    BY <2>1, DefinitionTags
<1>4. \A k \in DOMAIN d.definitions : ~Changed(d.definitions[k]).isConstant
  <2>1. \A f \in TypedField : Changed(f).isConstant = f.isConstant
    BY MessageFieldTags
  <2>2. \A k \in DOMAIN d.definitions : d.definitions[k] \in TypedField
    BY <1>3
  <2> HIDE DEF Changed
  <2> QED
    BY <1>1, <2>1, <2>2
<1>5. /\ DOMAIN fields = DOMAIN d.definitions
      /\ \A k \in DOMAIN fields : ~fields[k].isConstant
  <2> HIDE DEF Changed
  <2> QED
    BY <1>4
<1> HIDE DEF fields
<1>6. /\ [d EXCEPT !.definitions = fields].name = d.name
      /\ [d EXCEPT !.definitions = fields].aggregatedKind = d.aggregatedKind
      /\ [d EXCEPT !.definitions = fields].definitions = fields
  <2> HIDE DEF d
  <2> QED
    BY <1>3, DefinitionTags
<1>7. /\ Renamed(d).name = name /\ Renamed(d).aggregatedKind = "struct"
      /\ \A k \in DOMAIN Renamed(d).definitions : ~Renamed(d).definitions[k].isConstant
  BY <1>1, <1>2, <1>5, <1>6
<1> QED
  BY <1>7 DEF HasStruct

\* A declaration enters its map under its name: a struct as itself, and nothing
\* else as a struct.
LEMMA EntersItself ==
  ASSUME NEW ns \in Seq(ResolvedNode), NEW i \in DOMAIN ns
  PROVE  /\ \A x \in DOMAIN Items(ns, i) :
              /\ Enters(ns[i], Items(ns, i)[x].name)
              /\ ns[i].kind = "struct" => Items(ns, i)[x].node.kind = "struct"
         /\ ns[i].kind = "struct" =>
              \E x \in DOMAIN Items(ns, i) : Items(ns, i)[x].name = FullName(ns[i])
<1>1. ns[i] \in ResolvedNode
  OBVIOUS
<1>2. \A x \in DOMAIN Items(ns, i) : Enters(ns[i], Items(ns, i)[x].name)
  BY <1>1, ItemsEnter
<1>3. ASSUME ns[i].kind = "struct"
      PROVE  /\ \A x \in DOMAIN Items(ns, i) : Items(ns, i)[x].node.kind = "struct"
             /\ \E x \in DOMAIN Items(ns, i) : Items(ns, i)[x].name = FullName(ns[i])
  <2> DEFINE own == Item(ns[i], <<>>)
  <2>1. Items(ns, i) = <<own>>
    BY <1>3, ItemsEnter
  <2>2. own.name = FullName(ns[i]) /\ own.node = ns[i]
    BY DEF Item
  <2> HIDE DEF own
  <2>3. DOMAIN <<own>> = {1} /\ <<own>>[1] = own
    OBVIOUS
  <2> QED
    BY <1>3, <2>1, <2>2, <2>3
<1> QED
  BY <1>2, <1>3

\* What the passes know of idl_map: every item has a name that a declaration
\* of the text enters, and a declared struct is a struct in it; every struct
\* that the pass has come to has its name there; every struct in it that has
\* been converted has its name among the definitions.
MapOK ==
  /\ Idl => stage \notin {"blocks", "fixup"}
  /\ stage \notin {"map", "convert", "rename"} => (Idl /\ stage = "compile") \/ map = <<>>
  /\ \A m \in DOMAIN map :
       \E j \in DOMAIN text.idl :
         /\ Enters(text.idl[j], map[m].name)
         /\ text.idl[j].kind = "struct" => map[m].node.kind = "struct"
  /\ (Idl /\ stage \in {"map", "convert", "rename", "compile"}) =>
       \A j \in DOMAIN text.idl :
         (text.idl[j].kind = "struct" /\ (stage = "map" => j < at)) =>
           \E m \in DOMAIN map : map[m].name = FullName(text.idl[j])
  /\ stage \in {"convert", "rename", "compile"} =>
       \A m \in DOMAIN map :
         (map[m].node.kind = "struct" /\ (stage = "convert" => m < at)) =>
           HasStruct(defs, map[m].name)

LEMMA MapInit ==
  ASSUME Init
  PROVE  MapOK
<1>1. text \in Texts /\ map = <<>> /\ at = 1
  BY DEF Init
<1>2. text.encoding \in {"ros2idl", "ros2msg"} /\ text.idl \in Seq(WordedNode)
  BY <1>1, TextType DEF SchemaText
<1>3. Idl => (stage = "parse" \/ (stage = "compile" /\ text.idl = <<>>))
  BY <1>2 DEF Init, Idl
<1>4. ~Idl => stage = "blocks"
  BY <1>2 DEF Init, Idl
<1>5. DOMAIN map = {}
  BY <1>1
<1>6. text.idl = <<>> => DOMAIN text.idl = {}
  OBVIOUS
<1> QED
  BY <1>1, <1>3, <1>4, <1>5, <1>6 DEF MapOK

LEMMA MapStop ==
  ASSUME MapOK, NEW result, NEW why, Stop(result, why)
  PROVE  MapOK'
BY DEF MapOK, Stop, Idl, Enters, FullName, HasStruct

LEMMA MapPasses ==
  ASSUME PassesInv, MapOK, Parse \/ ResolveConstants \/ ResolveTypes
  PROVE  MapOK'
<1>1. stage \in {"parse", "constants", "types"}
  BY DEF Parse, ResolveConstants, ResolveTypes, Running
<1>2. CASE \E result, why : Stop(result, why)
  BY <1>2, MapStop
<1>3. CASE ~\E result, why : Stop(result, why)
  <2>1. /\ UNCHANGED <<text, map, defs>>
        /\ Advance(Len(nodes), "constants") \/ Advance(Len(nodes), "types") \/ Advance(Len(nodes), "map")
    BY <1>3 DEF Parse, ResolveConstants, ResolveTypes
  <2>2. stage' \in {"parse", "constants", "types", "map"} /\ (stage' = "map" => at' = 1)
    BY <1>1, <2>1 DEF Advance
  <2>3. map = <<>>
    BY <1>1 DEF MapOK
  <2>4. \A j \in DOMAIN text.idl : ~(j < 1)
    BY NodesType
  <2>5. DOMAIN map' = {} /\ map' = <<>>
    BY <2>1, <2>3
  <2> QED
    BY <2>1, <2>2, <2>4, <2>5 DEF MapOK
<1> QED
  BY <1>2, <1>3

LEMMA MapBuild ==
  ASSUME PassesInv, MapOK, BuildMap
  PROVE  MapOK'
<1>1. stage = "map" /\ outcome = ""
  BY DEF BuildMap, Running
<1>2. at \in DOMAIN nodes /\ at \in Nat \ {0}
  BY <1>1 DEF PassesInv, PlacesOK, Passes
<1>3. nodes \in Seq(ResolvedNode) /\ nodes[at].size < at
  <2>1. \A i \in DOMAIN nodes : nodes[i] \in ResolvedNode
    BY <1>1 DEF PassesInv, NodesOK
  <2> QED
    BY <1>2, <2>1, NodesType
<1>4. /\ map' = ByName(map \o Items(nodes, at))
      /\ Advance(Len(nodes), "convert")
      /\ UNCHANGED <<text, nodes, defs>>
  BY DEF BuildMap, build_map
<1>5. /\ DOMAIN nodes = 1..Len(nodes) /\ Len(nodes) \in Nat
      /\ DOMAIN text.idl = DOMAIN nodes
  BY NodesType
<1>6. \/ at < Len(nodes) /\ at' = at + 1 /\ stage' = "map"
      \/ at = Len(nodes) /\ at' = 1 /\ stage' = "convert"
  BY <1>1, <1>2, <1>4, <1>5, AdvanceMoves
<1> DEFINE items == Items(nodes, at)
           all == map \o items
           d == text.idl[at]
<1>7. map \in Seq(MapItem) /\ items \in Seq(MapItem)
  BY <1>2, <1>3, ItemsType DEF PassesInv, IdlMap
<1>8. /\ \A x \in DOMAIN items :
           /\ Enters(nodes[at], items[x].name)
           /\ nodes[at].kind = "struct" => items[x].node.kind = "struct"
      /\ nodes[at].kind = "struct" =>
           \E x \in DOMAIN items : items[x].name = FullName(nodes[at])
  BY <1>2, <1>3, EntersItself
<1>9. /\ Alike(d, nodes[at]) /\ nodes[at].kind = d.kind /\ FullName(nodes[at]) = FullName(d)
      /\ at \in DOMAIN text.idl
  BY <1>2, <1>5 DEF PassesInv, NodesOK, Alike, FullName
<1> HIDE DEF items, d
<1>10. /\ \A x \in DOMAIN items :
            /\ Enters(d, items[x].name)
            /\ d.kind = "struct" => items[x].node.kind = "struct"
       /\ d.kind = "struct" => \E x \in DOMAIN items : items[x].name = FullName(d)
  BY <1>8, <1>9, AlikeEnters
<1>11. /\ all \in Seq(MapItem) /\ Len(all) = Len(map) + Len(items)
       /\ \A i \in 1..Len(map) : all[i] = map[i]
       /\ \A i \in 1..Len(items) : all[Len(map) + i] = items[i]
  BY <1>7, ConcatSeq
<1>12. /\ DOMAIN map = 1..Len(map) /\ Len(map) \in Nat
       /\ DOMAIN items = 1..Len(items) /\ Len(items) \in Nat
  BY <1>7
<1> HIDE DEF all
<1>13. DOMAIN all = 1..(Len(map) + Len(items))
  BY <1>11
<1>14. \A i \in DOMAIN all :
         (\E m \in DOMAIN map : all[i] = map[m]) \/ (\E x \in DOMAIN items : all[i] = items[x])
  <2> TAKE i \in DOMAIN all
  <2>1. CASE i <= Len(map)
    BY <1>11, <1>12, <1>13, <2>1
  <2>2. CASE ~(i <= Len(map))
    <3>1. i - Len(map) \in 1..Len(items) /\ Len(map) + (i - Len(map)) = i
      BY <1>12, <1>13, <2>2
    <3> QED
      BY <1>11, <1>12, <3>1
  <2> QED
    BY <2>1, <2>2
<1>15. /\ \A m \in DOMAIN map : \E i \in DOMAIN all : all[i] = map[m]
       /\ \A x \in DOMAIN items : \E i \in DOMAIN all : all[i] = items[x]
  <2>1. ASSUME NEW m \in DOMAIN map PROVE m \in DOMAIN all /\ all[m] = map[m]
    BY <1>11, <1>12, <1>13
  <2>2. ASSUME NEW x \in DOMAIN items
        PROVE  Len(map) + x \in DOMAIN all /\ all[Len(map) + x] = items[x]
    BY <1>11, <1>12, <1>13
  <2> QED
    BY <2>1, <2>2
<1>16. /\ \A m \in DOMAIN map' : \E i \in DOMAIN all : map'[m] = all[i]
       /\ \A i \in DOMAIN all : \E m \in DOMAIN map' : map'[m].name = all[i].name
  BY <1>4, <1>11, ByNameHas DEF all, items
<1>17. \A m \in DOMAIN map :
         \E j \in DOMAIN text.idl :
           /\ Enters(text.idl[j], map[m].name)
           /\ text.idl[j].kind = "struct" => map[m].node.kind = "struct"
  BY DEF MapOK
<1>18. \A m \in DOMAIN map' :
         \E j \in DOMAIN text.idl :
           /\ Enters(text.idl[j], map'[m].name)
           /\ text.idl[j].kind = "struct" => map'[m].node.kind = "struct"
  <2> TAKE m \in DOMAIN map'
  <2>1. PICK i \in DOMAIN all : map'[m] = all[i]
    BY <1>16
  <2>2. CASE \E k \in DOMAIN map : all[i] = map[k]
    BY <1>17, <2>1, <2>2
  <2>3. CASE \E x \in DOMAIN items : all[i] = items[x]
    BY <1>9, <1>10, <2>1, <2>3 DEF d
  <2> QED
    BY <1>14, <2>2, <2>3
<1>19. Idl => \A j \in DOMAIN text.idl :
         (text.idl[j].kind = "struct" /\ j <= at) =>
           \E m \in DOMAIN map' : map'[m].name = FullName(text.idl[j])
  <2> SUFFICES ASSUME Idl, NEW j \in DOMAIN text.idl, text.idl[j].kind = "struct", j <= at
               PROVE  \E m \in DOMAIN map' : map'[m].name = FullName(text.idl[j])
    OBVIOUS
  <2>1. CASE j < at
    <3>1. PICK m \in DOMAIN map : map[m].name = FullName(text.idl[j])
      BY <1>1, <2>1 DEF MapOK
    <3> QED
      BY <1>15, <1>16, <3>1
  <2>2. CASE j = at
    <3>1. PICK x \in DOMAIN items : items[x].name = FullName(text.idl[j])
      BY <1>10, <2>2 DEF d
    <3> QED
      BY <1>15, <1>16, <3>1
  <2>3. j < at \/ j = at
    BY <1>2, <1>5
  <2> QED
    BY <2>1, <2>2, <2>3
<1>20. ASSUME Idl, NEW j \in DOMAIN text.idl, text.idl[j].kind = "struct", stage' = "map" => j < at'
       PROVE  \E m \in DOMAIN map' : map'[m].name = FullName(text.idl[j])
  <2>1. j <= at
    BY <1>2, <1>5, <1>6, <1>20
  <2> QED
    BY <1>19, <1>20, <2>1
<1>21. stage' = "convert" => \A m \in DOMAIN map' : ~(m < at')
  <2>1. map' \in Seq(MapItem)
    BY <1>4, <1>11, ByNameType DEF all, items
  <2>2. \A m \in DOMAIN map' : m \in Nat \ {0}
    BY <2>1
  <2>3. stage' = "convert" => at' = 1
    BY <1>6
  <2> QED
    BY <2>2, <2>3
<1>22. text' = text /\ (Idl' <=> Idl) /\ stage' \in {"map", "convert"}
  BY <1>4, <1>6 DEF Idl
<1>23. /\ (Idl => stage \notin {"blocks", "fixup"})'
       /\ (stage \notin {"map", "convert", "rename"} => (Idl /\ stage = "compile") \/ map = <<>>)'
  BY <1>22
<1> QED
  BY <1>18, <1>20, <1>21, <1>22, <1>23 DEF MapOK

LEMMA MapConvert ==
  ASSUME PassesInv, MapOK, Convert
  PROVE  MapOK'
<1>1. stage = "convert" /\ outcome = ""
  BY DEF Convert, Running
<1>2. at \in DOMAIN map /\ at \in Nat \ {0}
  BY <1>1 DEF PassesInv, PlacesOK
<1>3. CASE ItemRefusals(map, map[at]) # {}
  BY <1>3, MapStop DEF Convert
<1>4. CASE ItemRefusals(map, map[at]) = {}
  <2> DEFINE more == Converted(map, map[at])
             last == IF at = Len(map) THEN TopLevel(map) ELSE <<>>
  <2>1. /\ defs' = defs \o more \o last
        /\ Advance(Len(map), "rename")
        /\ UNCHANGED <<text, map>>
    BY <1>4 DEF Convert
  <2>2. IdlMap(map) /\ map \in Seq(MapItem) /\ map[at] \in MapItem
    BY <1>2 DEF PassesInv, IdlMap
  <2>3. more \in Seq(TypedDefinition) /\ last \in Seq(TypedDefinition)
    BY <2>2, ConvertedType, TopLevelType, EmptyIsSeq
  <2>4. map[at].node.kind = "struct" => HasStruct(more, map[at].name)
    BY StructConverted
  <2> HIDE DEF more, last
  <2>5. defs \in Seq(TypedDefinition)
    BY DEF PassesInv
  <2>6. defs \o more \in Seq(TypedDefinition)
    BY <2>3, <2>5
  <2>7. ASSUME NEW name, HasStruct(defs, name) \/ HasStruct(more, name)
        PROVE  HasStruct(defs', name)
    <3>1. HasStruct(defs \o more, name)
      BY <2>3, <2>5, <2>7, ConcatStructs
    <3> QED
      BY <2>1, <2>3, <2>6, <3>1, ConcatStructs
  <2>8. DOMAIN map = 1..Len(map) /\ Len(map) \in Nat
    BY <2>2
  <2>9. \/ at < Len(map) /\ at' = at + 1 /\ stage' = "convert"
        \/ at = Len(map) /\ at' = 1 /\ stage' = "rename"
    BY <1>1, <1>2, <2>1, <2>8, AdvanceMoves
  <2>10. ASSUME NEW m \in DOMAIN map', map'[m].node.kind = "struct", stage' = "convert" => m < at'
         PROVE  HasStruct(defs', map'[m].name)
    <3>1. m \in DOMAIN map /\ map'[m] = map[m] /\ m <= at
      BY <1>2, <2>1, <2>8, <2>9, <2>10
    <3>2. CASE m < at
      <4>1. HasStruct(defs, map[m].name)
        BY <1>1, <2>10, <3>1, <3>2 DEF MapOK
      <4> QED
        BY <2>7, <3>1, <4>1
    <3>3. CASE m = at
      BY <2>4, <2>7, <2>10, <3>1, <3>3
    <3> QED
      BY <1>2, <2>8, <3>1, <3>2, <3>3
  <2>11. text' = text /\ map' = map /\ (Idl' <=> Idl) /\ stage' \in {"convert", "rename"}
    BY <2>1, <2>9 DEF Idl
  <2>12. /\ \A m \in DOMAIN map :
              \E j \in DOMAIN text.idl :
                /\ Enters(text.idl[j], map[m].name)
                /\ text.idl[j].kind = "struct" => map[m].node.kind = "struct"
         /\ Idl => \A j \in DOMAIN text.idl :
              text.idl[j].kind = "struct" => \E m \in DOMAIN map : map[m].name = FullName(text.idl[j])
    BY <1>1 DEF MapOK
  <2>13. /\ (Idl => stage \notin {"blocks", "fixup"})'
         /\ (stage \notin {"map", "convert", "rename"} => (Idl /\ stage = "compile") \/ map = <<>>)'
    BY <2>11
  <2> QED
    BY <2>10, <2>11, <2>12, <2>13 DEF MapOK
<1> QED
  BY <1>3, <1>4

LEMMA MapRename ==
  ASSUME PassesInv, BlocksOK, MapOK, Rename
  PROVE  MapOK'
<1>1. /\ stage = "rename" /\ stage' = "compile"
      /\ defs' = [i \in DOMAIN defs |-> Renamed(defs[i])]
      /\ UNCHANGED <<text, map>>
  BY DEF Rename, Running
<1>2. defs \in Seq(TypedDefinition)
  BY DEF PassesInv
<1>3. \A name : HasStruct(defs, name) => HasStruct(defs', name)
  BY <1>1, <1>2, StructRenamed
<1>4. \A m \in DOMAIN map : map[m].node.kind = "struct" => HasStruct(defs', map[m].name)
  BY <1>1, <1>3 DEF MapOK
<1>5. Idl' <=> Idl
  BY <1>1 DEF Idl
<1>6. Idl \/ map = <<>>
  <2>1. ~Idl => stage # "rename"
    BY DEF BlocksOK
  <2> QED
    BY <1>1, <2>1
<1> QED
  BY <1>1, <1>4, <1>5, <1>6 DEF MapOK

LEMMA MapBlocks ==
  ASSUME PassesInv, MapOK, ReadBlocks \/ FixupTypes
  PROVE  MapOK'
<1>1. stage \in {"blocks", "fixup"}
  BY DEF ReadBlocks, FixupTypes, Running
<1>2. CASE \E result, why : Stop(result, why)
  BY <1>2, MapStop
<1>3. CASE ~\E result, why : Stop(result, why)
  <2>1. UNCHANGED <<text, map>> /\ stage' \in {"fixup", "compile"}
    BY <1>1, <1>3 DEF ReadBlocks, FixupTypes, Running, Advance
  <2>2. ~Idl /\ map = <<>>
    BY <1>1 DEF MapOK
  <2>3. DOMAIN map' = {} /\ map' = <<>> /\ ~Idl'
    BY <2>1, <2>2 DEF Idl
  <2> QED
    BY <2>1, <2>3 DEF MapOK
<1> QED
  BY <1>2, <1>3

LEMMA MapCompile ==
  ASSUME MapOK, Compile
  PROVE  MapOK'
<1>1. UNCHANGED <<text, stage, at, map, defs>>
  BY DEF Compile, Stop
<1> QED
  BY <1>1 DEF MapOK, Idl, Enters, FullName, HasStruct

LEMMA MapNext ==
  ASSUME PassesInv, BlocksOK, MapOK, [Next]_vars
  PROVE  MapOK'
<1>1. CASE UNCHANGED vars
  BY <1>1 DEF vars, MapOK, Idl, Enters, FullName, HasStruct
<1>2. CASE Next
  BY <1>2, MapPasses, MapBuild, MapConvert, MapRename, MapBlocks, MapCompile DEF Next
<1> QED
  BY <1>1, <1>2

LEMMA MapHolds == Spec => []MapOK
<1>1. Init => MapOK
  BY MapInit
<1>2. PassesInv /\ BlocksOK /\ MapOK /\ [Next]_vars => MapOK'
  BY MapNext
<1> QED
  BY <1>1, <1>2, PassesHold, BlocksHold, PTL DEF Spec

-----------------------------------------------------------------------------
(* The root *)

\* The reader starts from a struct of the wanted name if there is one.
LEMMA WantedRoot ==
  ASSUME NEW ds \in Seq(MessageDefinition), NEW wanted, wanted # <<>>, HasStruct(ds, wanted)
  PROVE  PythonRoot(ds, wanted).name = wanted
<1>1. PICK i \in DOMAIN ds :
        /\ ds[i].name = wanted /\ ds[i].aggregatedKind = "struct"
        /\ \A k \in DOMAIN ds[i].definitions : ~ds[i].definitions[k].isConstant
  BY DEF HasStruct
<1>2. ds[i] \in MessageDefinition
  OBVIOUS
<1>3. ~IsConstantModule(ds[i])
  <2>1. ds[i].definitions \in Seq(MessageDefinitionField)
    BY <1>2 DEF MessageDefinition
  <2>2. ds[i].definitions # <<>> => 1 \in DOMAIN ds[i].definitions
    BY <2>1
  <2> QED
    BY <1>1, <2>2 DEF IsConstantModule
<1>4. i \in Wanted(ds, wanted)
  BY <1>1, <1>3 DEF Wanted, Structs, Data
<1>5. Wanted(ds, wanted) \subseteq DOMAIN ds
  BY DEF Wanted, Structs, Data
<1>6. Least(Wanted(ds, wanted)) \in Wanted(ds, wanted)
  BY <1>4, <1>5, PlacesInSeq, HasLeast
<1>7. PythonRoot(ds, wanted) = ds[Least(Wanted(ds, wanted))]
  BY <1>4 DEF PythonRoot
<1> QED
  BY <1>6, <1>7 DEF Wanted

\* Of structs none of which has the wanted name, it starts from the one that
\* MessageWriter writes.
LEMMA UnwantedRoot ==
  ASSUME NEW ds \in Seq(MessageDefinition), NEW wanted, Data(ds) # {},
         \A i \in DOMAIN ds : ds[i].name # wanted /\ ds[i].aggregatedKind = "struct"
  PROVE  PythonRoot(ds, wanted) = WriterRoot(ds)
<1>1. Wanted(ds, wanted) = {}
  BY DEF Wanted, Structs, Data
<1>2. Structs(ds) = Data(ds)
  BY DEF Structs, Data
<1> QED
  BY <1>1, <1>2 DEF PythonRoot, WriterRoot

LEMMA PlanOfRoot ==
  ASSUME NEW ds \in Seq(MessageDefinition), Compiles(ds),
         \A i, j \in DOMAIN ds : ds[i].name = ds[j].name => i = j
  PROVE  \A wanted, enumAsString, bytes :
           Compiled(ds, wanted, enumAsString, bytes).plans[Compiled(ds, wanted, enumAsString, bytes).root]
             = PlanOf(ds, PythonRoot(ds, wanted), enumAsString)
<1> TAKE wanted, enumAsString, bytes
<1> QED
  BY RootIsThePythonRoot

\* The only declaration of the name becomes a definition of that name.
LEMMA SoleStructKept ==
  ASSUME PassesInv, MapOK, stage = "compile", Idl, NEW i \in DOMAIN text.idl, SoleStruct(i)
  PROVE  HasStruct(defs, text.wanted) /\ text.wanted # <<>>
<1>1. /\ text.idl[i].kind = "struct" /\ FullName(text.idl[i]) = text.wanted
      /\ Declaring(text.wanted) = {i}
  BY DEF SoleStruct
<1>2. PICK m \in DOMAIN map : map[m].name = text.wanted
  BY <1>1 DEF MapOK
<1>3. PICK j \in DOMAIN text.idl :
        /\ Enters(text.idl[j], text.wanted)
        /\ text.idl[j].kind = "struct" => map[m].node.kind = "struct"
  BY <1>2 DEF MapOK
<1>4. j \in Declaring(text.wanted)
  BY <1>3 DEF Declaring, Enters
<1>5. map[m].node.kind = "struct"
  BY <1>1, <1>3, <1>4
<1>6. HasStruct(defs, text.wanted)
  BY <1>2, <1>5 DEF MapOK
<1>7. text.wanted # <<>>
  <2> DEFINE d == text.idl[i]
  <2>1. text.idl \in Seq(WordedNode)
    BY TextType DEF PassesInv
  <2>2. d \in DeclarationText
    BY <2>1 DEF WordedNode
  <2>3. d.scope \in Name
    BY <2>2 DEF DeclarationText
  <2>4. \A s \in Name : \A x : Append(s, x) # <<>>
    BY DEF Name
  <2> QED
    BY <1>1, <2>3, <2>4 DEF FullName
<1> QED
  BY <1>6, <1>7

\* All that a ros2msg text defines are structs.
LEMMA BlocksAreStructs ==
  ASSUME PassesInv, BlocksOK, stage = "compile", ~Idl
  PROVE  \A i \in DOMAIN defs : defs[i].aggregatedKind = "struct"
<1> DEFINE types == Built(text.ros, FALSE)
<1>1. text.ros \in Seq(WordedBlock)
  BY TextType DEF PassesInv
<1>2. \A i \in DOMAIN types : types[i].aggregatedKind = "struct"
  <2>1. \A b : BlockDefinition(b).aggregatedKind = "struct"
    BY DEF BlockDefinition, Aggregate
  <2>2. \A i \in DOMAIN types : \E j \in DOMAIN text.ros : types[i] = BlockDefinition(text.ros[j])
    BY <1>1, BuiltOf
  <2> QED
    BY <2>1, <2>2
<1>3. DOMAIN defs = DOMAIN types /\ \A i \in DOMAIN types : QualifiedAs(types, types[i], defs[i])
  BY DEF BlocksOK
<1> HIDE DEF types
<1> QED
  BY <1>2, <1>3 DEF QualifiedAs

\* For every text whose definitions have names of their own: the plan that the
\* decoder starts with is that of the definition the Python reader starts
\* with. It is the struct that the schema is named after, if the text
\* declares one under a name that it gives to nothing else, wherever in the
\* text it is and whatever constants and enums are defined before it; and
\* what MessageWriter would write, if a ros2msg text has no block of the name.
THEOREM RootsAgreeHolds == Spec => []RootsAgree
<1>1. ASSUME PassesInv, BlocksOK, MapOK, Ready => stage = "compile", Ready, NamesDistinct
      PROVE  LET root == PythonRoot(defs, text.wanted)
             IN /\ schema.plans[schema.root] = PlanOf(defs, root, text.enumAsString)
                /\ (Idl /\ \E i \in DOMAIN text.idl : SoleStruct(i)) =>
                     defs[schema.root].name = text.wanted
                /\ (~Idl /\ \A i \in DOMAIN defs : defs[i].name # text.wanted) =>
                     defs[schema.root] = WriterRoot(defs)
  <2> DEFINE root == PythonRoot(defs, text.wanted)
  <2>1. defs \in Seq(MessageDefinition) /\ stage = "compile"
    BY <1>1, TypedIsMessage DEF PassesInv
  <2>2. Compiles(defs) /\ schema = Compiled(defs, text.wanted, text.enumAsString, TRUE)
    BY <1>1 DEF PassesInv, SchemaOK
  <2>3. \A i, j \in DOMAIN defs : defs[i].name = defs[j].name => i = j
    BY <1>1 DEF NamesDistinct
  <2>4. schema.plans[schema.root] = PlanOf(defs, root, text.enumAsString)
    <3> DEFINE s == Compiled(defs, text.wanted, text.enumAsString, TRUE)
    <3>1. s.plans[s.root] = PlanOf(defs, root, text.enumAsString)
      <4>1. \A wanted, enumAsString, bytes :
              Compiled(defs, wanted, enumAsString, bytes).plans[Compiled(defs, wanted, enumAsString, bytes).root]
                = PlanOf(defs, PythonRoot(defs, wanted), enumAsString)
        BY <2>1, <2>2, <2>3, PlanOfRoot
      <4> QED
        BY <4>1, Zenon
    <3> HIDE DEF s
    <3>2. schema = s
      BY <2>2 DEF s
    <3> QED
      BY <3>1, <3>2
  <2>5. schema.root = IndexOf(defs, root.name)
    BY <2>2 DEF Compiled
  <2>6. PICK k \in DOMAIN defs : root = defs[k]
    BY <2>1, <2>2, RootIsDefined DEF Compiles
  <2>7. defs[schema.root] = root
    <3>1. NamesUnique(defs)
      BY <2>3 DEF NamesUnique
    <3>2. IndexOf(defs, defs[k].name) = k
      BY <2>1, <3>1, DistinctPlaces
    <3> QED
      BY <2>5, <2>6, <3>2
  <2>8. ASSUME Idl, NEW i \in DOMAIN text.idl, SoleStruct(i) PROVE root.name = text.wanted
    <3>1. HasStruct(defs, text.wanted) /\ text.wanted # <<>>
      BY <1>1, <2>1, <2>8, SoleStructKept
    <3> QED
      BY <2>1, <3>1, WantedRoot
  <2>9. ASSUME ~Idl, \A i \in DOMAIN defs : defs[i].name # text.wanted
        PROVE  root = WriterRoot(defs)
    <3>1. \A i \in DOMAIN defs : defs[i].aggregatedKind = "struct"
      BY <1>1, <2>1, <2>9, BlocksAreStructs
    <3> QED
      BY <2>1, <2>2, <2>9, <3>1, UnwantedRoot DEF Compiles
  <2> QED
    BY <2>4, <2>7, <2>8, <2>9
<1>2. ASSUME PassesInv, BlocksOK, MapOK, Ready => stage = "compile" PROVE RootsAgree
  BY <1>1, <1>2, Zenon DEF RootsAgree
<1> QED
  BY <1>2, PassesHold, BlocksHold, MapHolds, ReadyAtEnd, PTL

-----------------------------------------------------------------------------
(* Sums of what names are worth.                                           *)

\* What a sum or a name may come to: a number, or why it has none.
Outcome == NumberValue \cup [tag : {"failure"}, cause : Causes \cup {"text"}]

\* A number is no failure, and a failure no number.
LEMMA OutcomeTags ==
  ASSUME NEW v \in Outcome
  PROVE  IsFailure(v) <=> v \notin NumberValue
<1>1. \A n \in NumberValue : ~IsFailure(n)
  BY FailureType
<1>2. \A f \in [tag : {"failure"}, cause : Causes \cup {"text"}] : IsFailure(f)
  BY DEF IsFailure
<1> QED
  BY <1>1, <1>2 DEF Outcome

\* A sum is a number only if all of its items are.
LEMMA AddedNumbers ==
  ASSUME NEW values \in Seq(Outcome)
  PROVE  /\ Added(values) \in Outcome
         /\ ~IsFailure(Added(values)) => \A i \in DOMAIN values : values[i] \in NumberValue
         /\ (\A i \in DOMAIN values : values[i] \in NumberValue) =>
              /\ values \in Seq(NumberValue) /\ Added(values) = Sum(values)
              /\ Added(values) \in NumberValue
<1> DEFINE S == {i \in DOMAIN values : IsFailure(values[i])}
<1>1. Failures(values) = Kept(values, S)
  BY DEF Failures
<1>2. S \subseteq DOMAIN values
  OBVIOUS
<1>3. /\ Kept(values, S) = <<>> <=> S = {}
      /\ \A k \in 1..Cardinality(S) : Nth(S, k) \in S /\ Kept(values, S)[k] = values[Nth(S, k)]
      /\ Kept(values, S) \in Seq(Outcome) /\ Len(Kept(values, S)) = Cardinality(S)
  BY <1>2, KeptType
<1>4. \A i \in DOMAIN values : values[i] \in Outcome /\ (i \notin S <=> values[i] \in NumberValue)
  <2>1. \A i \in DOMAIN values : values[i] \in Outcome
    OBVIOUS
  <2> QED
    BY <2>1, OutcomeTags
<1>5. \A i \in S : IsFailure(values[i])
  OBVIOUS
<1> HIDE DEF S
<1>6. CASE S = {}
  <2>1. \A i \in 1..Len(values) : values[i] \in NumberValue
    BY <1>4, <1>6
  <2>2. values \in Seq(NumberValue)
    BY <2>1
  <2>3. Added(values) = Sum(values)
    BY <1>1, <1>3, <1>6 DEF Added
  <2>4. Sum(values) \in NumberValue
    BY <2>2, SumType
  <2> QED
    BY <1>4, <1>6, <2>2, <2>3, <2>4 DEF Outcome
<1>7. CASE S # {}
  <2>1. 1 \in 1..Cardinality(S)
    BY <1>3, <1>7
  <2>2. Added(values) = values[Nth(S, 1)] /\ Nth(S, 1) \in S
    BY <1>1, <1>3, <1>7, <2>1 DEF Added
  <2> QED
    BY <1>2, <1>4, <1>5, <1>7, <2>2
<1> QED
  BY <1>6, <1>7

\* The sum of one number is the number.
LEMMA SumOne ==
  ASSUME NEW v \in NumberValue
  PROVE  Sum(<<v>>) = v /\ Added(<<v>>) = v
<1>1. <<v>> \in Seq(NumberValue) /\ Len(<<v>>) = 1 /\ <<v>>[1] = v
  BY SingleSeq
<1>2. PICK f : /\ f \in [0..1 -> Int] /\ f[0] = 0 /\ Sum(<<v>>) = IntValue(f[1])
               /\ \A i \in 1..1 : f[i] = f[i - 1] + <<v>>[i].int
  BY <1>1, SumSteps
<1>3. f[1] = v.int
  <2>1. 1 \in 1..1 /\ 1 - 1 = 0 /\ v.int \in Int
    BY FailureType
  <2>2. f[1] = f[1 - 1] + <<v>>[1].int
    BY <1>2, <2>1
  <2> QED
    BY <1>1, <1>2, <2>1, <2>2
<1>4. IntValue(v.int) = v
  BY DEF IntValue, NumberValue
<1>5. Sum(<<v>>) = v
  BY <1>2, <1>3, <1>4
<1>6. <<v>> \in Seq(Outcome) /\ \A i \in DOMAIN <<v>> : <<v>>[i] \in NumberValue
  BY <1>1 DEF Outcome
<1> QED
  BY <1>5, <1>6, AddedNumbers

\* Sums of numbers written one behind the other add up.
LEMMA SumConcat ==
  ASSUME NEW a \in Seq(NumberValue), NEW b \in Seq(NumberValue)
  PROVE  /\ a \o b \in Seq(NumberValue)
         /\ Sum(a \o b) = IntValue(Sum(a).int + Sum(b).int)
<1> DEFINE c == a \o b
<1>1. /\ c \in Seq(NumberValue) /\ Len(c) = Len(a) + Len(b) /\ Len(a) \in Nat /\ Len(b) \in Nat
      /\ \A i \in 1..Len(a) : c[i] = a[i]
      /\ \A i \in 1..Len(b) : c[Len(a) + i] = b[i]
  BY ConcatSeq
<1> HIDE DEF c
<1>2. PICK fa : /\ fa \in [0..Len(a) -> Int] /\ fa[0] = 0 /\ Sum(a) = IntValue(fa[Len(a)])
                /\ \A i \in 1..Len(a) : fa[i] = fa[i - 1] + a[i].int
  BY SumSteps
<1>3. PICK fb : /\ fb \in [0..Len(b) -> Int] /\ fb[0] = 0 /\ Sum(b) = IntValue(fb[Len(b)])
                /\ \A i \in 1..Len(b) : fb[i] = fb[i - 1] + b[i].int
  BY SumSteps
<1>4. PICK fc : /\ fc \in [0..Len(c) -> Int] /\ fc[0] = 0 /\ Sum(c) = IntValue(fc[Len(c)])
                /\ \A i \in 1..Len(c) : fc[i] = fc[i - 1] + c[i].int
  BY <1>1, SumSteps
<1> DEFINE S == {k \in Nat : k <= Len(a) => fc[k] = fa[k]}
           T == {k \in Nat : k <= Len(b) => fc[Len(a) + k] = fa[Len(a)] + fb[k]}
<1>5. Nat \subseteq S
  <2>1. 0 \in S
    BY <1>2, <1>4
  <2>2. ASSUME NEW k \in Nat, k \in S PROVE k + 1 \in S
    <3> SUFFICES ASSUME k + 1 <= Len(a) PROVE fc[k + 1] = fa[k + 1]
      OBVIOUS
    <3>1. k + 1 \in 1..Len(a) /\ k + 1 \in 1..Len(c) /\ (k + 1) - 1 = k /\ fc[k] = fa[k]
      BY <1>1, <2>2
    <3>2. fc[k + 1] = fc[k] + c[k + 1].int /\ fa[k + 1] = fa[k] + a[k + 1].int
      BY <1>2, <1>4, <3>1
    <3> QED
      BY <1>1, <3>1, <3>2
  <2> HIDE DEF S
  <2> QED
    BY <2>1, <2>2, Induct
<1>6. Nat \subseteq T
  <2>1. 0 \in T
    <3>1. fc[Len(a)] = fa[Len(a)]
      BY <1>1, <1>5
    <3>2. fa[Len(a)] \in Int /\ Len(a) + 0 = Len(a)
      BY <1>1, <1>2
    <3> QED
      BY <1>3, <3>1, <3>2
  <2>2. ASSUME NEW k \in Nat, k \in T PROVE k + 1 \in T
    <3> SUFFICES ASSUME k + 1 <= Len(b) PROVE fc[Len(a) + (k + 1)] = fa[Len(a)] + fb[k + 1]
      OBVIOUS
    <3>1. /\ k + 1 \in 1..Len(b) /\ Len(a) + (k + 1) \in 1..Len(c) /\ (k + 1) - 1 = k
          /\ (Len(a) + (k + 1)) - 1 = Len(a) + k
          /\ fc[Len(a) + k] = fa[Len(a)] + fb[k] /\ k \in 0..Len(b)
      BY <1>1, <2>2
    <3>2. fc[Len(a) + (k + 1)] = fc[Len(a) + k] + c[Len(a) + (k + 1)].int
      BY <1>4, <3>1
    <3>3. fb[k + 1] = fb[k] + b[k + 1].int /\ c[Len(a) + (k + 1)] = b[k + 1]
      BY <1>1, <1>3, <3>1
    <3>4. fa[Len(a)] \in Int /\ fb[k] \in Int /\ b[k + 1].int \in Int
      <4>1. b[k + 1] \in NumberValue
        BY <3>1
      <4>2. b[k + 1].int \in Int
        BY <4>1, FailureType
      <4>3. Len(a) \in 0..Len(a)
        BY <1>1
      <4> QED
        BY <1>2, <1>3, <3>1, <4>2, <4>3
    <3> QED
      BY <3>1, <3>2, <3>3, <3>4
  <2> HIDE DEF T
  <2> QED
    BY <2>1, <2>2, Induct
<1>7. fc[Len(a) + Len(b)] = fa[Len(a)] + fb[Len(b)]
  BY <1>1, <1>6
<1>8. Sum(c) = IntValue(Sum(a).int + Sum(b).int)
  BY <1>1, <1>2, <1>3, <1>4, <1>7 DEF IntValue
<1> QED
  BY <1>1, <1>8 DEF c

\* A list is worth the sum of what the lists in it are worth.
LEMMA FlattenSum ==
  ASSUME NEW X, NEW m, \A x \in X : m[x] \in NumberValue,
         NEW ss \in Seq(Seq(X)), NEW t \in Seq(NumberValue), Len(t) = Len(ss),
         \A i \in 1..Len(ss) : Sum(Mapped(m, ss[i])) = t[i]
  PROVE  Sum(Mapped(m, FlattenSeq(ss))) = Sum(t)
<1>1. CASE Len(ss) = 0
  <2>1. FlattenSeq(ss) = <<>>
    BY <1>1 DEF FlattenSeq
  <2>2. Mapped(m, <<>>) = <<>>
    BY DEF Mapped
  <2>3. t = <<>>
    BY <1>1
  <2> QED
    BY <2>1, <2>2, <2>3
<1>2. CASE Len(ss) # 0
  <2> DEFINE n == Len(ss)
  <2>1. PICK f : /\ f \in [1..n -> Seq(X)] /\ f[1] = ss[1] /\ FlattenSeq(ss) = f[n]
                 /\ \A i \in 1..n : i # 1 => f[i] = f[i - 1] \o ss[i]
    BY <1>2, FlattenSteps
  <2>2. PICK g : /\ g \in [0..n -> Int] /\ g[0] = 0 /\ Sum(t) = IntValue(g[n])
                 /\ \A i \in 1..n : g[i] = g[i - 1] + t[i].int
    BY SumSteps
  <2>3. n \in Nat /\ n >= 1 /\ \A i \in 1..n : ss[i] \in Seq(X) /\ t[i] \in NumberValue
    BY <1>2
  <2>4. \A i \in 1..n : Sum(Mapped(m, ss[i])) = t[i]
    OBVIOUS
  <2> HIDE DEF n
  <2> DEFINE T == {i \in Nat : i + 1 \in 1..n => Sum(Mapped(m, f[i + 1])) = IntValue(g[i + 1])}
  <2>5. \A v \in NumberValue : v.int \in Int /\ IntValue(v.int) = v
    BY DEF NumberValue, IntValue
  <2>6. 0 \in T
    <3>1. g[1] = t[1].int
      <4>1. 1 \in 1..n /\ 1 - 1 = 0
        BY <2>3
      <4>2. g[1] = g[1 - 1] + t[1].int /\ t[1] \in NumberValue
        BY <2>2, <2>3, <4>1
      <4>3. t[1].int \in Int
        BY <2>5, <4>2
      <4> QED
        BY <2>2, <4>1, <4>2, <4>3
    <3>2. 1 \in 1..n
      BY <2>3
    <3>3. Sum(Mapped(m, f[1])) = IntValue(g[1])
      BY <2>1, <2>3, <2>4, <2>5, <3>1, <3>2
    <3> QED
      BY <3>3
  <2>7. ASSUME NEW i \in Nat, i \in T PROVE i + 1 \in T
    <3> SUFFICES ASSUME i + 2 \in 1..n PROVE Sum(Mapped(m, f[i + 2])) = IntValue(g[i + 2])
      OBVIOUS
    <3>1. i + 1 \in 1..n /\ (i + 2) - 1 = i + 1 /\ i + 2 # 1 /\ i + 1 \in 0..n
      BY <2>3
    <3>2. f[i + 2] = f[i + 1] \o ss[i + 2] /\ g[i + 2] = g[i + 1] + t[i + 2].int
      BY <2>1, <2>2, <3>1
    <3>3. f[i + 1] \in Seq(X) /\ ss[i + 2] \in Seq(X)
      BY <2>1, <2>3, <3>1
    <3>4. Mapped(m, f[i + 2]) = Mapped(m, f[i + 1]) \o Mapped(m, ss[i + 2])
      <4>1. \A a, b \in Seq(X) : Mapped(m, a \o b) = Mapped(m, a) \o Mapped(m, b)
        BY MappedConcat
      <4> QED
        BY <3>2, <3>3, <4>1
    <3>5. Mapped(m, f[i + 1]) \in Seq(NumberValue) /\ Mapped(m, ss[i + 2]) \in Seq(NumberValue)
      BY <3>3, MappedType
    <3>6. Sum(Mapped(m, f[i + 1])) = IntValue(g[i + 1])
      BY <2>7, <3>1
    <3>7. Sum(Mapped(m, f[i + 2])) = IntValue(Sum(Mapped(m, f[i + 1])).int + Sum(Mapped(m, ss[i + 2])).int)
      BY <3>4, <3>5, SumConcat
    <3> QED
      BY <2>4, <3>2, <3>6, <3>7 DEF IntValue
  <2> HIDE DEF T
  <2>8. n - 1 \in T /\ (n - 1) + 1 = n /\ n \in 1..n
    BY <2>3, <2>6, <2>7, Induct
  <2> QED
    BY <2>1, <2>2, <2>8 DEF T
<1> QED
  BY <1>1, <1>2

-----------------------------------------------------------------------------
(* What constants are worth.                                               *)

\* A set of constants with texts that the grammar admits.
ConstantSet(K) ==
  IsFiniteSet(K) /\ \A c \in K : c.of.value \in ValueText /\ c.of.scope \in Name

\* What is found is there, in some scope around.
LEMMA FoundThere ==
  ASSUME NEW names, NEW name, NEW scope \in Name
  PROVE  \/ Found(names, name, scope) = <<>>
         \/ \E i \in 0..Len(scope) :
              /\ Found(names, name, scope) = <<SubSeq(scope, 1, i) \o name>>
              /\ SubSeq(scope, 1, i) \o name \in names
<1> DEFINE around == {i \in 0..Len(scope) : SubSeq(scope, 1, i) \o name \in names}
           innermost == CHOOSE i \in around : \A j \in around : j <= i
<1>1. CASE around = {}
  BY <1>1 DEF Found
<1>2. CASE around # {}
  <2>1. Len(scope) \in Nat
    BY DEF Name
  <2>2. Places(around)
    <3>1. IsFiniteSet(0..Len(scope))
      BY <2>1, FS_Interval
    <3> QED
      BY <3>1, FS_Subset DEF Places
  <2>3. PICK i \in around : \A j \in around : j <= i
    BY <1>2, <2>2, HasGreatest
  <2>4. innermost \in around
    BY <2>3
  <2>5. Found(names, name, scope) = <<SubSeq(scope, 1, innermost) \o name>>
    BY <1>2 DEF Found
  <2> QED
    BY <2>4, <2>5
<1> QED
  BY <1>1, <1>2

\* A name stands for the same constant whatever the constants are worth.
LEMMA WorthOfName ==
  ASSUME NEW K, NEW item \in Atom, NEW scope \in Name, item.tag = "str"
  PROVE  \/ \A w : WorthOf(K, item, scope, w) = Failure("unknown")
         \/ \E c \in K, i \in 0..Len(scope) :
              /\ c.full = SubSeq(scope, 1, i) \o item.str
              /\ \A w : WorthOf(K, item, scope, w) = w[c]
<1> DEFINE names == {c.full : c \in K}
           found == Found(names, item.str, scope)
           c == CHOOSE d \in K : d.full = found[1]
<1>1. \A w : WorthOf(K, item, scope, w) =
        IF found = <<>> THEN Failure("unknown") ELSE w[c]
  BY DEF WorthOf
<1>2. CASE found = <<>>
  BY <1>1, <1>2
<1>3. CASE found # <<>>
  <2> HIDE DEF names
  <2>1. PICK i \in 0..Len(scope) :
          found = <<SubSeq(scope, 1, i) \o item.str>> /\ SubSeq(scope, 1, i) \o item.str \in names
    BY <1>3, FoundThere
  <2>2. found[1] = SubSeq(scope, 1, i) \o item.str
    <3>1. \A x : <<x>>[1] = x
      OBVIOUS
    <3> HIDE DEF found
    <3> QED
      BY <2>1, <3>1
  <2>3. \E d \in K : d.full = found[1]
    BY <2>1, <2>2 DEF names
  <2>4. c \in K /\ c.full = found[1]
    BY <2>3
  <2> HIDE DEF found, c
  <2> QED
    BY <1>1, <1>3, <2>2, <2>4
<1> QED
  BY <1>2, <1>3

\* A name that nothing declares is worth a failure.
LEMMA UnknownIsOutcome ==
  /\ Failure("unknown") \in Outcome /\ Failure("circular") \in Outcome /\ Failure("text") \in Outcome
  /\ IsFailure(Failure("unknown")) /\ IsFailure(Failure("circular")) /\ IsFailure(Failure("text"))
BY DEF Failure, Outcome, Causes, IsFailure

\* What an item is worth is a number or a failure.
LEMMA WorthOfType ==
  ASSUME NEW K, NEW item \in Atom, NEW scope \in Name, NEW w \in [K -> Outcome]
  PROVE  /\ WorthOf(K, item, scope, w) \in Outcome
         /\ item.tag = "int" => WorthOf(K, item, scope, w) = item
<1>1. CASE item.tag = "int"
  <2>1. WorthOf(K, item, scope, w) = item
    BY <1>1 DEF WorthOf
  <2> QED
    BY <1>1, <2>1, AtomTags DEF Outcome
<1>2. CASE item.tag = "str"
  <2>1. \/ WorthOf(K, item, scope, w) = Failure("unknown")
        \/ \E c \in K : WorthOf(K, item, scope, w) = w[c]
    <3>1. \/ \A v : WorthOf(K, item, scope, v) = Failure("unknown")
          \/ \E c \in K, i \in 0..Len(scope) :
               /\ c.full = SubSeq(scope, 1, i) \o item.str
               /\ \A v : WorthOf(K, item, scope, v) = v[c]
      BY <1>2, WorthOfName
    <3> QED
      BY <3>1
  <2> QED
    BY <1>2, <2>1, UnknownIsOutcome
<1> QED
  BY <1>1, <1>2, AtomTags

\* Values that say more leave what they said before.
Grows(K, w, v) == \A c \in K : w[c] \in NumberValue => v[c] = w[c]

\* An item that is worth a number stays worth it as more constants become known.
LEMMA WorthOfGrows ==
  ASSUME NEW K, NEW item \in Atom, NEW scope \in Name, NEW w \in [K -> Outcome],
         NEW v \in [K -> Outcome], Grows(K, w, v), WorthOf(K, item, scope, w) \in NumberValue
  PROVE  WorthOf(K, item, scope, v) = WorthOf(K, item, scope, w)
<1>1. CASE item.tag = "int"
  BY <1>1, WorthOfType
<1>2. CASE item.tag = "str"
  <2>1. \/ \A u : WorthOf(K, item, scope, u) = Failure("unknown")
        \/ \E c \in K, i \in 0..Len(scope) :
             /\ c.full = SubSeq(scope, 1, i) \o item.str
             /\ \A u : WorthOf(K, item, scope, u) = u[c]
    BY <1>2, WorthOfName
  <2> QED
    BY <2>1 DEF Grows
<1> QED
  BY <1>1, <1>2, AtomTags

\* The items of a value in the text.
LEMMA SumItemsType ==
  ASSUME NEW t \in ValueText
  PROVE  /\ SumItems(t) \in Seq(Atom)
         /\ t.tag = "int" => t \in NumberValue /\ SumItems(t) = <<t>>
         /\ t.tag = "str" => t \in Atom /\ SumItems(t) = <<t>>
         /\ t.tag \in {"int", "str", "sum"}
<1>1. CASE t.tag = "sum"
  BY <1>1, AtomTags DEF ValueText, SumItems
<1>2. CASE t.tag # "sum"
  <2>1. t \in Atom
    BY <1>2 DEF ValueText
  <2> QED
    BY <1>2, <2>1, AtomTags, SingleSeq DEF SumItems
<1> QED
  BY <1>1, <1>2

\* What the items of a text are worth, one by one.
Worths(K, text1, scope, w) ==
  [i \in DOMAIN SumItems(text1) |-> WorthOf(K, SumItems(text1)[i], scope, w)]

\* What the items of a value are worth.
LEMMA WorthsType ==
  ASSUME NEW K, NEW t \in ValueText, NEW scope \in Name, NEW w \in [K -> Outcome]
  PROVE  /\ Worths(K, t, scope, w) \in Seq(Outcome)
         /\ DOMAIN Worths(K, t, scope, w) = DOMAIN SumItems(t)
         /\ \A i \in DOMAIN SumItems(t) :
              /\ SumItems(t)[i] \in Atom
              /\ Worths(K, t, scope, w)[i] = WorthOf(K, SumItems(t)[i], scope, w)
         /\ Summed(K, t, scope, w) = Added(Worths(K, t, scope, w))
<1> DEFINE items == SumItems(t)
<1>1. items \in Seq(Atom)
  BY SumItemsType
<1>2. Len(items) \in Nat /\ DOMAIN items = 1..Len(items) /\ \A i \in DOMAIN items : items[i] \in Atom
  BY <1>1
<1>3. Summed(K, t, scope, w) = Added(Worths(K, t, scope, w))
  BY DEF Summed, Worths
<1>4. Worths(K, t, scope, w) = [i \in DOMAIN items |-> WorthOf(K, items[i], scope, w)]
  BY DEF Worths
<1> HIDE DEF items
<1>5. \A i \in 1..Len(items) : WorthOf(K, items[i], scope, w) \in Outcome
  BY <1>2, WorthOfType
<1>6. Worths(K, t, scope, w) \in [1..Len(items) -> Outcome]
  BY <1>2, <1>4, <1>5
<1>7. Worths(K, t, scope, w) \in Seq(Outcome)
  BY <1>2, <1>6, IsSeq
<1> QED
  BY <1>2, <1>3, <1>4, <1>7 DEF items

\* A value that comes to a number keeps it as more constants become known.
LEMMA SummedGrows ==
  ASSUME NEW K, NEW t \in ValueText, NEW scope \in Name, NEW w \in [K -> Outcome],
         NEW v \in [K -> Outcome], Grows(K, w, v), Summed(K, t, scope, w) \in NumberValue
  PROVE  Summed(K, t, scope, v) = Summed(K, t, scope, w)
<1> DEFINE before == Worths(K, t, scope, w)
           after == Worths(K, t, scope, v)
<1>1. /\ before \in Seq(Outcome) /\ DOMAIN before = DOMAIN SumItems(t)
      /\ \A i \in DOMAIN SumItems(t) :
           SumItems(t)[i] \in Atom /\ before[i] = WorthOf(K, SumItems(t)[i], scope, w)
      /\ Summed(K, t, scope, w) = Added(before)
  BY WorthsType
<1>2. /\ after \in Seq(Outcome) /\ DOMAIN after = DOMAIN SumItems(t)
      /\ \A i \in DOMAIN SumItems(t) : after[i] = WorthOf(K, SumItems(t)[i], scope, v)
      /\ Summed(K, t, scope, v) = Added(after)
  BY WorthsType
<1> HIDE DEF before, after
<1>3. ~IsFailure(Added(before))
  BY <1>1, FailureType
<1>4. \A i \in DOMAIN before : before[i] \in NumberValue
  BY <1>1, <1>3, AddedNumbers
<1>5. \A i \in DOMAIN before : after[i] = before[i]
  <2> TAKE i \in DOMAIN before
  <2>1. SumItems(t)[i] \in Atom /\ WorthOf(K, SumItems(t)[i], scope, w) \in NumberValue
    BY <1>1, <1>4
  <2>2. WorthOf(K, SumItems(t)[i], scope, v) = WorthOf(K, SumItems(t)[i], scope, w)
    BY <2>1, WorthOfGrows
  <2> QED
    BY <1>1, <1>2, <2>2
<1>6. after = before
  <2>1. Len(before) \in Nat /\ DOMAIN before = 1..Len(before)
        /\ Len(after) \in Nat /\ DOMAIN after = 1..Len(after)
    BY <1>1, <1>2
  <2> QED
    BY <1>1, <1>2, <1>5, <2>1
<1> QED
  BY <1>1, <1>2, <1>6

\* What each constant is taken to be worth.
Valuations(K) == [K -> Outcome]

\* What a valuation says of one constant.
Valued(K, n, before, c) ==
  CASE n = 0 -> Failure("circular")
    [] n > 0 /\ c.of.value.tag = "str" -> Failure("text")
    [] OTHER -> Summed(K, c.of.value, c.of.scope, before)

\* A round of valuation, constant by constant.
LEMMA ValuationType ==
  ASSUME NEW K, ConstantSet(K), NEW n \in Nat, NEW before, n # 0 => before \in Valuations(K)
  PROVE  /\ Valuation(K, n, before) \in Valuations(K)
         /\ \A c \in K : Valuation(K, n, before)[c] = Valued(K, n, before, c)
         /\ n = 0 => \A other : Valuation(K, 0, other) = Valuation(K, n, before)
<1>1. \A m, b : Valuation(K, m, b) = [c \in K |-> Valued(K, m, b, c)]
  BY DEF Valuation, Valued
<1>2. ASSUME NEW c \in K
      PROVE  /\ Valued(K, n, before, c) \in Outcome
             /\ n = 0 => \A other : Valued(K, 0, other, c) = Valued(K, n, before, c)
  <2>1. CASE n = 0
    <3>1. \A other : Valued(K, n, other, c) = Failure("circular")
      BY <2>1 DEF Valued
    <3> QED
      BY <2>1, <3>1, UnknownIsOutcome
  <2>2. CASE n # 0
    <3>1. c.of.value \in ValueText /\ c.of.scope \in Name /\ before \in [K -> Outcome]
      BY <2>2 DEF ConstantSet, Valuations
    <3>2. Summed(K, c.of.value, c.of.scope, before) \in Outcome
      <4> DEFINE t == c.of.value
                 scope == c.of.scope
                 values == Worths(K, t, scope, before)
      <4>1. t \in ValueText /\ scope \in Name /\ before \in [K -> Outcome]
        BY <3>1
      <4> HIDE DEF t, scope
      <4>2. values \in Seq(Outcome) /\ Summed(K, t, scope, before) = Added(values)
        BY <4>1, WorthsType
      <4> HIDE DEF values
      <4>3. Added(values) \in Outcome
        BY <4>2, AddedNumbers
      <4> QED
        BY <4>2, <4>3 DEF t, scope
    <3>3. \/ Valued(K, n, before, c) = Failure("text")
          \/ Valued(K, n, before, c) = Summed(K, c.of.value, c.of.scope, before)
      BY <2>2 DEF Valued
    <3> QED
      BY <2>2, <3>2, <3>3, UnknownIsOutcome
  <2> QED
    BY <2>1, <2>2
<1>3. Valuation(K, n, before) \in Valuations(K)
  BY <1>1, <1>2 DEF Valuations
<1>4. ASSUME n = 0, NEW other PROVE Valuation(K, 0, other) = Valuation(K, n, before)
  BY <1>1, <1>2, <1>4
<1> QED
  BY <1>1, <1>3, <1>4

\* What constants are worth comes of as many rounds as there are constants.
LEMMA WorthSteps ==
  ASSUME NEW K, ConstantSet(K)
  PROVE  \E f : /\ f \in [Nat -> Valuations(K)] /\ Worth(K) = f[Cardinality(K)]
                /\ \A n \in Nat, c \in K : f[n][c] = Valued(K, n, f[n - 1], c)
<1> DEFINE a == Valuation(K, 0, {})
           F == [p \in Nat \X Valuations(K) |-> Valuation(K, p[1] + 1, p[2])]
           Step(h, n) == Valuation(K, n, h[n - 1])
           worth == CHOOSE h : h = [n \in Nat |-> Step(h, n)]
<1>1. a \in Valuations(K) /\ \A other : Valuation(K, 0, other) = a
  BY ValuationType
<1>2. F \in [Nat \X Valuations(K) -> Valuations(K)]
  <2>1. ASSUME NEW p \in Nat \X Valuations(K)
        PROVE  Valuation(K, p[1] + 1, p[2]) \in Valuations(K)
    <3>1. p[1] + 1 \in Nat /\ p[2] \in Valuations(K)
      OBVIOUS
    <3> QED
      BY <3>1, ValuationType
  <2> QED
    BY <2>1
<1>3. \A i \in Nat, h \in Valuations(K) : F[<<i, h>>] = Valuation(K, i + 1, h)
  OBVIOUS
<1> HIDE DEF a, F
<1>4. PICK g : Recursive(g, Valuations(K), a, F)
  BY <1>1, <1>2, Recursion
<1>5. ASSUME NEW n \in Nat PROVE g[n] = Step(g, n)
  <2>1. CASE n = 0
    BY <1>1, <1>4, <2>1 DEF Recursive
  <2>2. CASE n # 0
    <3>1. n - 1 \in Nat /\ (n - 1) + 1 = n
      BY <2>2
    <3>2. g[n - 1] \in Valuations(K) /\ g[n] = F[<<n - 1, g[n - 1]>>]
      BY <1>4, <3>1 DEF Recursive
    <3>3. F[<<n - 1, g[n - 1]>>] = Valuation(K, n, g[n - 1])
      BY <1>3, <3>1, <3>2
    <3> QED
      BY <3>2, <3>3
  <2> QED
    BY <2>1, <2>2
<1>6. g = [n \in Nat |-> Step(g, n)]
  <2>1. g \in [Nat -> Valuations(K)]
    BY <1>4 DEF Recursive
  <2> QED
    BY <1>5, <2>1
<1>7. worth = [n \in Nat |-> Step(worth, n)]
  BY <1>6
<1>8. Worth(K) = worth[Cardinality(K)]
  BY DEF Worth
<1> HIDE DEF worth
<1> DEFINE T == {n \in Nat : worth[n] \in Valuations(K)}
<1>9. 0 \in T
  BY <1>1, <1>7
<1>10. ASSUME NEW n \in Nat, n \in T PROVE n + 1 \in T
  <2>1. (n + 1) - 1 = n /\ n + 1 \in Nat
    OBVIOUS
  <2>2. worth[n + 1] = Step(worth, n + 1)
    BY <1>7, <2>1
  <2>3. worth[n + 1] = Valuation(K, n + 1, worth[n])
    BY <2>1, <2>2
  <2>4. worth[n] \in Valuations(K)
    BY <1>10
  <2>5. Valuation(K, n + 1, worth[n]) \in Valuations(K)
    BY <2>1, <2>4, ValuationType
  <2> QED
    BY <2>1, <2>3, <2>5
<1> HIDE DEF T
<1>11. \A n \in Nat : worth[n] \in Valuations(K)
  BY <1>9, <1>10, Induct DEF T
<1>12. ASSUME NEW n \in Nat, NEW c \in K PROVE worth[n][c] = Valued(K, n, worth[n - 1], c)
  <2>1. n # 0 => worth[n - 1] \in Valuations(K)
    <3>1. n # 0 => n - 1 \in Nat
      OBVIOUS
    <3> QED
      BY <1>11, <3>1
  <2>2. worth[n] = Valuation(K, n, worth[n - 1])
    BY <1>7
  <2> QED
    BY <2>1, <2>2, ValuationType
<1>13. worth \in [Nat -> Valuations(K)]
  BY <1>7, <1>11
<1> QED
  BY <1>8, <1>12, <1>13

\* A constant that is worth a number is worth what its text says, if names
\* are worth the same; constants with one text are worth the same.
LEMMA WorthFixed ==
  ASSUME NEW K, ConstantSet(K)
  PROVE  /\ Worth(K) \in [K -> Outcome]
         /\ \A c \in K : Worth(K)[c] \in NumberValue =>
              c.of.value.tag # "str" /\ Worth(K)[c] = Total(K, c.of.value, c.of.scope)
         /\ \A c, e \in K : c.of = e.of => Worth(K)[c] = Worth(K)[e]
<1>1. PICK f : /\ f \in [Nat -> Valuations(K)] /\ Worth(K) = f[Cardinality(K)]
               /\ \A n \in Nat, c \in K : f[n][c] = Valued(K, n, f[n - 1], c)
  BY WorthSteps
<1>2. \A n \in Nat : f[n] \in [K -> Outcome]
  BY <1>1 DEF Valuations
<1>3. Cardinality(K) \in Nat
  BY FS_CardinalityType DEF ConstantSet
<1> DEFINE T == {n \in Nat : Grows(K, f[n], f[n + 1])}
<1>4. 0 \in T
  <2>1. \A c \in K : f[0][c] = Failure("circular")
    BY <1>1 DEF Valued
  <2>2. Failure("circular") \notin NumberValue
    BY UnknownIsOutcome, FailureType
  <2> QED
    BY <2>1, <2>2 DEF Grows
<1>5. ASSUME NEW n \in Nat, n \in T PROVE n + 1 \in T
  <2> SUFFICES ASSUME NEW c \in K, f[n + 1][c] \in NumberValue PROVE f[n + 2][c] = f[n + 1][c]
    BY DEF Grows
  <2>1. /\ f[n + 1][c] = Valued(K, n + 1, f[n], c)
        /\ f[n + 2][c] = Valued(K, n + 2, f[n + 1], c)
    <3>1. n + 1 \in Nat /\ n + 2 \in Nat /\ (n + 1) - 1 = n /\ (n + 2) - 1 = n + 1
      OBVIOUS
    <3> QED
      BY <1>1, <3>1
  <2>2. c.of.value.tag # "str"
    <3>1. c.of.value.tag = "str" => f[n + 1][c] = Failure("text")
      BY <2>1 DEF Valued
    <3> QED
      BY <3>1, UnknownIsOutcome, FailureType
  <2>3. /\ f[n + 1][c] = Summed(K, c.of.value, c.of.scope, f[n])
        /\ f[n + 2][c] = Summed(K, c.of.value, c.of.scope, f[n + 1])
    BY <2>1, <2>2 DEF Valued
  <2>4. f[n] \in [K -> Outcome] /\ f[n + 1] \in [K -> Outcome] /\ Grows(K, f[n], f[n + 1])
    BY <1>2, <1>5
  <2>5. c.of.value \in ValueText /\ c.of.scope \in Name
    BY DEF ConstantSet
  <2> QED
    BY <2>3, <2>4, <2>5, SummedGrows
<1> HIDE DEF T
<1>6. \A n \in Nat : Grows(K, f[n], f[n + 1])
  BY <1>4, <1>5, Induct DEF T
<1> DEFINE n == Cardinality(K)
           w == Worth(K)
<1>7. n \in Nat /\ w = f[n] /\ w \in [K -> Outcome]
  BY <1>1, <1>2, <1>3
<1>8. ASSUME NEW c \in K, w[c] \in NumberValue
      PROVE  c.of.value.tag # "str" /\ w[c] = Total(K, c.of.value, c.of.scope)
  <2>1. f[n + 1][c] = w[c]
    BY <1>6, <1>7, <1>8 DEF Grows
  <2>2. f[n + 1][c] = Valued(K, n + 1, f[n], c)
    <3>1. n + 1 \in Nat /\ (n + 1) - 1 = n
      BY <1>7
    <3> QED
      BY <1>1, <3>1
  <2>3. c.of.value.tag # "str"
    <3>1. c.of.value.tag = "str" => f[n + 1][c] = Failure("text")
      BY <1>7, <2>2 DEF Valued
    <3> QED
      BY <1>8, <2>1, <3>1, UnknownIsOutcome, FailureType
  <2>4. f[n + 1][c] = Summed(K, c.of.value, c.of.scope, f[n])
    BY <1>7, <2>2, <2>3 DEF Valued
  <2> QED
    BY <1>7, <2>1, <2>3, <2>4 DEF Total
<1>9. ASSUME NEW c \in K, NEW e \in K, c.of = e.of PROVE w[c] = w[e]
  <2>1. w[c] = Valued(K, n, f[n - 1], c) /\ w[e] = Valued(K, n, f[n - 1], e)
    BY <1>1, <1>7
  <2> QED
    BY <1>9, <2>1 DEF Valued
<1> QED
  BY <1>7, <1>8, <1>9

-----------------------------------------------------------------------------
(* What the parser's table of constants means.                             *)

\* The part of a name behind its last "::".
LastPart(name) == name[Len(name)]

\* Constants whose keys are their own, and that end in a name by which alone
\* the table knows them too.
Keyed(K) ==
  /\ ConstantSet(K)
  /\ \A c, e \in K : c.key = e.key => c = e
  /\ \A c \in K :
       /\ c.key \in Name \ {<<>>} /\ c.full \in Name \ {<<>>}
       /\ LastPart(c.full) = LastPart(c.key)
       /\ \E s \in K : s.of = c.of /\ s.key = <<LastPart(c.key)>>

\* The number that an item stands for, wherever it stands: constants with keys
\* of their own differ in the last parts of their names.
Meant(K) ==
  [a \in Atom |->
     LET named == {c \in K : a.str # <<>> /\ LastPart(c.full) = LastPart(a.str)}
     IN CASE a.tag = "int" -> a
          [] a.tag = "str" /\ named = {} -> Failure("unknown")
          [] OTHER -> Worth(K)[CHOOSE c \in named : TRUE]]

\* Where keys are unique, constants whose names end alike are one declaration.
LEMMA SameLast ==
  ASSUME NEW K, Keyed(K), NEW c \in K, NEW e \in K, LastPart(c.full) = LastPart(e.full)
  PROVE  c.of = e.of
<1>1. PICK s \in K : s.of = c.of /\ s.key = <<LastPart(c.key)>>
  BY DEF Keyed
<1>2. PICK t \in K : t.of = e.of /\ t.key = <<LastPart(e.key)>>
  BY DEF Keyed
<1>3. LastPart(c.key) = LastPart(e.key)
  BY DEF Keyed
<1>4. s = t
  BY <1>1, <1>2, <1>3 DEF Keyed
<1> QED
  BY <1>1, <1>2, <1>4

\* A name means what the constants are worth that end in its last part.
LEMMA MeantIs ==
  ASSUME NEW K, Keyed(K)
  PROVE  /\ Meant(K) \in [Atom -> Outcome]
         /\ \A a \in Atom : a.tag = "int" => Meant(K)[a] = a
         /\ \A a \in Atom, c \in K :
              (a.tag = "str" /\ a.str # <<>> /\ LastPart(c.full) = LastPart(a.str)) =>
                Meant(K)[a] = Worth(K)[c]
         /\ \A a \in Atom, c \in K :
              (a.tag = "str" /\ a.str = c.key) => Meant(K)[a] = Worth(K)[c]
<1> DEFINE named(a) == {c \in K : a.str # <<>> /\ LastPart(c.full) = LastPart(a.str)}
           one(a) == CHOOSE c \in named(a) : TRUE
           value(a) == CASE a.tag = "int" -> a
                         [] a.tag = "str" /\ named(a) = {} -> Failure("unknown")
                         [] OTHER -> Worth(K)[one(a)]
<1>1. Meant(K) = [a \in Atom |-> value(a)]
  BY DEF Meant
<1>2. ConstantSet(K) /\ Worth(K) \in [K -> Outcome]
      /\ \A c, e \in K : c.of = e.of => Worth(K)[c] = Worth(K)[e]
  BY WorthFixed DEF Keyed
<1>3. \A a : named(a) # {} => one(a) \in named(a)
  OBVIOUS
<1>4. \A a : named(a) \subseteq K
  OBVIOUS
<1>5. \A a : \A c \in K : (a.str # <<>> /\ LastPart(c.full) = LastPart(a.str)) <=> c \in named(a)
  OBVIOUS
<1> HIDE DEF named, one
<1>6. ASSUME NEW a \in Atom, a.tag = "int" PROVE value(a) = a /\ value(a) \in Outcome
  BY <1>6, AtomTags DEF Outcome
<1>7. ASSUME NEW a \in Atom, a.tag = "str", named(a) # {}
      PROVE  value(a) = Worth(K)[one(a)] /\ one(a) \in named(a) /\ one(a) \in K /\ value(a) \in Outcome
  <2>1. value(a) = Worth(K)[one(a)]
    BY <1>7
  <2>2. one(a) \in named(a) /\ one(a) \in K
    BY <1>3, <1>4, <1>7
  <2> QED
    BY <1>2, <2>1, <2>2
<1>8. ASSUME NEW a \in Atom, a.tag = "str", named(a) = {} PROVE value(a) \in Outcome
  <2>1. value(a) = Failure("unknown")
    BY <1>8
  <2> QED
    BY <2>1, UnknownIsOutcome
<1>9. \A a \in Atom : value(a) \in Outcome
  BY <1>6, <1>7, <1>8, AtomTags
<1>10. Meant(K) \in [Atom -> Outcome] /\ \A a \in Atom : Meant(K)[a] = value(a)
  <2> HIDE DEF value
  <2> QED
    BY <1>1, <1>9
<1>11. ASSUME NEW a \in Atom, NEW c \in K, a.tag = "str", a.str # <<>>,
              LastPart(c.full) = LastPart(a.str)
       PROVE  Meant(K)[a] = Worth(K)[c]
  <2>1. c \in named(a)
    BY <1>5, <1>11
  <2>2. value(a) = Worth(K)[one(a)] /\ one(a) \in named(a) /\ one(a) \in K
    <3>1. named(a) # {}
      BY <2>1
    <3> HIDE DEF value
    <3> QED
      BY <1>7, <1>11, <3>1
  <2>3. LastPart(one(a).full) = LastPart(c.full)
    BY <1>5, <1>11, <2>2
  <2>4. one(a).of = c.of
    BY <2>2, <2>3, SameLast
  <2> HIDE DEF value
  <2> QED
    BY <1>2, <1>10, <2>2, <2>4
<1>12. ASSUME NEW a \in Atom, NEW c \in K, a.tag = "str", a.str = c.key
       PROVE  Meant(K)[a] = Worth(K)[c]
  <2>1. a.str # <<>> /\ LastPart(c.full) = LastPart(a.str)
    BY <1>12 DEF Keyed
  <2> QED
    BY <1>11, <1>12, <2>1
<1> QED
  BY <1>6, <1>10, <1>11, <1>12

\* An item that is found somewhere names a constant that ends as it does.
LEMMA NameIsConstant ==
  ASSUME NEW K, NEW scope \in Name, NEW item \in Atom, NEW w \in [K -> Outcome],
         item.tag = "str", item.str # <<>>, WorthOf(K, item, scope, w) # Failure("unknown")
  PROVE  \E d \in K : LastPart(d.full) = LastPart(item.str) /\ WorthOf(K, item, scope, w) = w[d]
<1>1. \/ \A v : WorthOf(K, item, scope, v) = Failure("unknown")
      \/ \E c \in K, i \in 0..Len(scope) :
           /\ c.full = SubSeq(scope, 1, i) \o item.str
           /\ \A v : WorthOf(K, item, scope, v) = v[c]
  BY WorthOfName
<1>2. PICK c \in K, i \in 0..Len(scope) :
        c.full = SubSeq(scope, 1, i) \o item.str /\ WorthOf(K, item, scope, w) = w[c]
  BY <1>1
<1>3. SubSeq(scope, 1, i) \in Seq(STRING) /\ item.str \in Seq(STRING)
  <2>1. scope \in Seq(STRING) /\ item.str \in Seq(STRING)
    BY AtomTags DEF Name
  <2>2. \A s \in Seq(STRING) : \A k \in 0..Len(s) : SubSeq(s, 1, k) \in Seq(STRING)
    OBVIOUS
  <2> QED
    BY <2>1, <2>2
<1>4. \A x, y \in Seq(STRING) : y # <<>> => LastPart(x \o y) = LastPart(y)
  BY DEF LastPart
<1> DEFINE x == SubSeq(scope, 1, i)
           y == item.str
<1>5. x \in Seq(STRING) /\ y \in Seq(STRING) /\ y # <<>> /\ c.full = x \o y
  BY <1>2, <1>3
<1> HIDE DEF x, y
<1>6. LastPart(c.full) = LastPart(y)
  BY <1>4, <1>5
<1> QED
  BY <1>2, <1>6 DEF y

\* What the rules find for an item in its scope is what it means everywhere.
LEMMA ItemMeant ==
  ASSUME NEW K, Keyed(K), NEW a \in Atom, NEW scope \in Name, a.tag = "str" => a.str # <<>>,
         WorthOf(K, a, scope, Worth(K)) \in NumberValue
  PROVE  Meant(K)[a] = WorthOf(K, a, scope, Worth(K))
<1>1. Worth(K) \in [K -> Outcome]
  BY WorthFixed DEF Keyed
<1>2. CASE a.tag = "int"
  <2>1. WorthOf(K, a, scope, Worth(K)) = a
    BY <1>1, <1>2, WorthOfType
  <2> QED
    BY <1>2, <2>1, MeantIs
<1>3. CASE a.tag = "str"
  <2>1. WorthOf(K, a, scope, Worth(K)) # Failure("unknown")
    BY UnknownIsOutcome, FailureType
  <2>2. PICK c \in K :
          LastPart(c.full) = LastPart(a.str) /\ WorthOf(K, a, scope, Worth(K)) = Worth(K)[c]
    BY <1>1, <1>3, <2>1, NameIsConstant
  <2>3. Meant(K)[a] = Worth(K)[c]
    BY <1>3, <2>2, MeantIs
  <2> QED
    BY <2>2, <2>3
<1> QED
  BY <1>2, <1>3, AtomTags

\* The names in a text are not empty.
LEMMA ItemNamed ==
  ASSUME NEW t \in ValueText, <<>> \notin NamesIn(t), NEW i \in DOMAIN SumItems(t)
  PROVE  SumItems(t)[i].tag = "str" => SumItems(t)[i].str # <<>>
<1>1. CASE t.tag = "sum"
  BY <1>1 DEF NamesIn, SumItems, Range
<1>2. CASE t.tag # "sum"
  <2>1. SumItems(t) = <<t>>
    BY <1>2 DEF SumItems
  <2>2. t.tag = "str" => t.str # <<>>
    BY <1>2 DEF NamesIn
  <2>3. DOMAIN <<t>> = {1} /\ <<t>>[1] = t
    OBVIOUS
  <2> QED
    BY <2>1, <2>2, <2>3
<1> QED
  BY <1>1, <1>2

\* What a text is worth by the rules is what its items mean.
LEMMA TotalMeant ==
  ASSUME NEW K, Keyed(K), NEW t \in ValueText, NEW scope \in Name, <<>> \notin NamesIn(t),
         Total(K, t, scope) \in NumberValue
  PROVE  Added(Mapped(Meant(K), SumItems(t))) = Total(K, t, scope)
<1> DEFINE w == Worth(K)
           items == SumItems(t)
           values == Worths(K, t, scope, w)
           m == Meant(K)
<1>1. w \in [K -> Outcome]
  BY WorthFixed DEF Keyed
<1>2. Total(K, t, scope) = Summed(K, t, scope, w)
  BY DEF Total
<1> HIDE DEF w
<1>3. /\ values \in Seq(Outcome) /\ DOMAIN values = DOMAIN items
      /\ \A i \in DOMAIN items : items[i] \in Atom /\ values[i] = WorthOf(K, items[i], scope, w)
      /\ Summed(K, t, scope, w) = Added(values)
  BY <1>1, WorthsType
<1>4. \A i \in DOMAIN items : items[i].tag = "str" => items[i].str # <<>>
  BY ItemNamed
<1> HIDE DEF items, values
<1>5. \A i \in DOMAIN values : values[i] \in NumberValue
  <2>1. ~IsFailure(Added(values))
    BY <1>2, <1>3, FailureType
  <2> QED
    BY <1>3, <2>1, AddedNumbers
<1>6. ASSUME NEW i \in DOMAIN items PROVE m[items[i]] = values[i]
  <2>1. /\ items[i] \in Atom /\ values[i] = WorthOf(K, items[i], scope, w)
        /\ WorthOf(K, items[i], scope, w) \in NumberValue
    BY <1>3, <1>5
  <2>2. items[i].tag = "str" => items[i].str # <<>>
    BY <1>4
  <2>3. m[items[i]] = WorthOf(K, items[i], scope, w)
    BY <2>1, <2>2, ItemMeant DEF w
  <2> QED
    BY <2>1, <2>3
<1>7. Mapped(m, items) = values
  <2>1. Mapped(m, items) = [i \in DOMAIN items |-> m[items[i]]]
    BY DEF Mapped
  <2>2. values = [i \in DOMAIN values |-> values[i]]
    BY <1>3
  <2> HIDE DEF m
  <2> QED
    BY <1>3, <1>6, <2>1, <2>2
<1> QED
  BY <1>2, <1>3, <1>7 DEF items

\* A table of constants that means what they are worth, as far as they are
\* worth a number.
TableMeant(K, table) ==
  /\ Table(table)
  /\ DOMAIN table \subseteq {c.key : c \in K}
  /\ \A c \in K : (c.key \in DOMAIN table /\ Worth(K)[c] \in NumberValue) =>
       Added(Mapped(Meant(K), ItemsOf(table[c.key]))) = Worth(K)[c]

\* A sum that is a number is a sum of numbers.
LEMMA MeantNumbers ==
  ASSUME NEW K, Keyed(K), NEW items \in Seq(Atom),
         Added(Mapped(Meant(K), items)) \in NumberValue
  PROVE  /\ Mapped(Meant(K), items) \in Seq(NumberValue)
         /\ Len(Mapped(Meant(K), items)) = Len(items)
         /\ \A i \in DOMAIN items : Meant(K)[items[i]] \in NumberValue
         /\ \A i \in DOMAIN items : Mapped(Meant(K), items)[i] = Meant(K)[items[i]]
         /\ Added(Mapped(Meant(K), items)) = Sum(Mapped(Meant(K), items))
<1> DEFINE m == Meant(K)
           values == Mapped(m, items)
<1>1. \A a \in Atom : m[a] \in Outcome
  BY MeantIs
<1>2. \A i \in DOMAIN items : values[i] = m[items[i]]
  BY DEF Mapped
<1> HIDE DEF m
<1>3. values \in Seq(Outcome) /\ Len(values) = Len(items) /\ DOMAIN values = DOMAIN items
  BY <1>1, MappedType
<1>4. ~IsFailure(Added(values))
  BY FailureType DEF m
<1> HIDE DEF values
<1>5. \A i \in DOMAIN values : values[i] \in NumberValue
  BY <1>3, <1>4, AddedNumbers
<1>6. values \in Seq(NumberValue) /\ Added(values) = Sum(values)
  BY <1>3, <1>5, AddedNumbers
<1> QED
  BY <1>2, <1>3, <1>5, <1>6 DEF m, values

\* An expression of one item means what the item means.
LEMMA MeantOne ==
  ASSUME NEW K, Keyed(K), NEW a \in Atom, Meant(K)[a] \in NumberValue
  PROVE  /\ Mapped(Meant(K), <<a>>) = <<Meant(K)[a]>>
         /\ Added(Mapped(Meant(K), <<a>>)) = Meant(K)[a]
<1>1. Mapped(Meant(K), <<a>>) = <<Meant(K)[a]>>
  <2>1. DOMAIN <<a>> = 1..1 /\ <<a>>[1] = a
    OBVIOUS
  <2>2. Mapped(Meant(K), <<a>>) = [i \in 1..1 |-> Meant(K)[a]]
    BY <2>1 DEF Mapped
  <2>3. \A v : [i \in 1..1 |-> v] = <<v>>
    OBVIOUS
  <2> QED
    BY <2>2, <2>3
<1> QED
  BY <1>1, SumOne

\* What is looked up means what the item means.
LEMMA LookedMeant ==
  ASSUME NEW K, Keyed(K), NEW table, TableMeant(K, table), NEW a \in Atom,
         Meant(K)[a] \in NumberValue
  PROVE  /\ Looked(table, a) \in Value
         /\ ItemsOf(Looked(table, a)) \in Seq(Atom)
         /\ Added(Mapped(Meant(K), ItemsOf(Looked(table, a)))) = Meant(K)[a]
<1>1. Looked(table, a) \in Value /\ ItemsOf(Looked(table, a)) \in Seq(Atom)
  BY LookedType, ItemsOfType DEF TableMeant
<1>2. CASE a.tag = "str" /\ a.str \in DOMAIN table
  <2>1. PICK c \in K : c.key = a.str
    BY <1>2 DEF TableMeant
  <2>2. Meant(K)[a] = Worth(K)[c]
    BY <1>2, <2>1, MeantIs
  <2>3. Looked(table, a) = table[c.key]
    BY <1>2, <2>1 DEF Looked
  <2> QED
    BY <1>1, <1>2, <2>1, <2>2, <2>3 DEF TableMeant
<1>3. CASE ~(a.tag = "str" /\ a.str \in DOMAIN table)
  <2>1. Looked(table, a) = a
    BY <1>3 DEF Looked
  <2>2. ItemsOf(a) = <<a>>
    BY AtomTags DEF ItemsOf
  <2> QED
    BY <1>1, <2>1, <2>2, MeantOne
<1> QED
  BY <1>2, <1>3

\* const_sum keeps what a sum means, whether it adds or waits.
LEMMA SumMeant ==
  ASSUME NEW K, Keyed(K), NEW table, TableMeant(K, table), NEW items \in Seq(Atom),
         Added(Mapped(Meant(K), items)) \in NumberValue,
         ~IsFailure(const_sum(table, items))
  PROVE  Added(Mapped(Meant(K), ItemsOf(const_sum(table, items)))) = Added(Mapped(Meant(K), items))
<1> DEFINE m == Meant(K)
           meant == Mapped(m, items)
           values == [i \in DOMAIN items |-> Looked(table, items[i])]
           deferred ==
             \E i \in DOMAIN items :
               items[i].tag = "str" /\ (items[i].str \notin DOMAIN table \/ values[i].tag = "list")
           numeric == \A i \in DOMAIN values : values[i].tag = "int"
<1>1. /\ meant \in Seq(NumberValue) /\ Len(meant) = Len(items)
      /\ \A i \in DOMAIN items : m[items[i]] \in NumberValue /\ meant[i] = m[items[i]]
      /\ Added(meant) = Sum(meant)
  BY MeantNumbers
<1>2. Len(items) \in Nat /\ DOMAIN items = 1..Len(items) /\ \A i \in 1..Len(items) : items[i] \in Atom
  OBVIOUS
<1>3. \A i \in 1..Len(items) :
        /\ values[i] \in Value /\ ItemsOf(values[i]) \in Seq(Atom)
        /\ Added(Mapped(m, ItemsOf(values[i]))) = meant[i]
  <2> TAKE i \in 1..Len(items)
  <2>1. values[i] = Looked(table, items[i])
    BY <1>2
  <2> QED
    BY <1>1, <1>2, <2>1, LookedMeant
<1>4. values = [i \in 1..Len(items) |-> values[i]] /\ DOMAIN values = 1..Len(items)
  BY <1>2
<1>5. const_sum(table, items) =
        CASE deferred -> ListValue(values)
          [] ~deferred /\ Len(items) = 1 -> values[1]
          [] ~deferred /\ Len(items) > 1 /\ numeric -> Sum(values)
          [] OTHER -> Failure("not numeric")
  BY DEF const_sum
<1> HIDE DEF values, deferred
<1>6. values \in Seq(Value) /\ Len(values) = Len(items)
  <2>1. values \in [1..Len(items) -> Value]
    BY <1>3, <1>4
  <2> QED
    BY <1>2, <2>1, IsSeq
<1>7. CASE deferred
  <2> DEFINE ss == [i \in DOMAIN values |-> ItemsOf(values[i])]
             X == {a \in Atom : m[a] \in NumberValue}
             all == FlattenSeq(ss)
  <2>1. ASSUME NEW i \in 1..Len(items)
        PROVE  ItemsOf(values[i]) \in Seq(X) /\ Sum(Mapped(m, ItemsOf(values[i]))) = meant[i]
    <3> DEFINE s == ItemsOf(values[i])
    <3>1. s \in Seq(Atom) /\ Added(Mapped(m, s)) = meant[i] /\ meant[i] \in NumberValue
      BY <1>1, <1>2, <1>3
    <3> HIDE DEF s
    <3>2. /\ \A k \in DOMAIN s : m[s[k]] \in NumberValue
          /\ Added(Mapped(m, s)) = Sum(Mapped(m, s))
      BY <3>1, MeantNumbers
    <3>3. s \in Seq(X)
      <4>1. Len(s) \in Nat /\ DOMAIN s = 1..Len(s) /\ \A k \in 1..Len(s) : s[k] \in Atom
        BY <3>1
      <4>2. s = [k \in 1..Len(s) |-> s[k]]
        BY <3>1
      <4>3. \A k \in 1..Len(s) : s[k] \in X
        BY <3>2, <4>1
      <4> HIDE DEF X
      <4>4. s \in [1..Len(s) -> X]
        BY <4>2, <4>3
      <4> QED
        BY <4>1, <4>4, IsSeq
    <3> QED
      BY <3>1, <3>2, <3>3 DEF s
  <2>2. ss \in Seq(Seq(X)) /\ Len(ss) = Len(items) /\ \A i \in 1..Len(ss) : ss[i] = ItemsOf(values[i])
    <3>1. ss \in [1..Len(items) -> Seq(X)]
      <4> HIDE DEF X
      <4> QED
        BY <1>4, <2>1
    <3>2. \A i \in 1..Len(items) : ss[i] = ItemsOf(values[i])
      BY <1>4
    <3> HIDE DEF ss, X
    <3> QED
      BY <1>2, <3>1, <3>2, IsSeq
  <2>3. \A x \in X : m[x] \in NumberValue
    OBVIOUS
  <2>4. X \subseteq Atom
    OBVIOUS
  <2>5. ListValue(values) = [tag |-> "list", items |-> all]
    BY DEF ListValue
  <2> HIDE DEF X, ss, m, meant
  <2>6. Sum(Mapped(m, FlattenSeq(ss))) = Sum(meant)
    <3>1. \A i \in 1..Len(ss) : Sum(Mapped(m, ss[i])) = meant[i]
      BY <2>1, <2>2
    <3> QED
      BY <1>1, <2>2, <2>3, <3>1, FlattenSum
  <2>7. all \in Seq(X)
    BY <2>2, FlattenType
  <2> HIDE DEF all
  <2>8. ItemsOf(const_sum(table, items)) = all
    BY <1>5, <1>7, <2>5 DEF ItemsOf
  <2>9. Added(Mapped(m, all)) = Sum(Mapped(m, all))
    <3> DEFINE b == Mapped(m, all)
    <3>1. b \in Seq(NumberValue)
      BY <2>3, <2>7, MappedType
    <3> HIDE DEF b
    <3>2. b \in Seq(Outcome) /\ \A i \in DOMAIN b : b[i] \in NumberValue
      BY <3>1 DEF Outcome
    <3>3. Added(b) = Sum(b)
      BY <3>2, AddedNumbers
    <3> QED
      BY <3>3 DEF b
  <2>10. all = FlattenSeq(ss)
    BY DEF all
  <2> QED
    BY <1>1, <2>6, <2>8, <2>9, <2>10 DEF m, meant
<1>8. CASE ~deferred /\ Len(items) = 1
  <2>1. const_sum(table, items) = values[1]
    BY <1>5, <1>8
  <2>2. Added(Mapped(m, ItemsOf(values[1]))) = meant[1]
    BY <1>2, <1>3, <1>8
  <2>3. Added(meant) = meant[1]
    <3>1. Len(meant) = 1 /\ meant[1] \in NumberValue
      BY <1>1, <1>8
    <3>2. meant = <<meant[1]>>
      <4> HIDE DEF meant
      <4> QED
        BY <1>1, <3>1
    <3> HIDE DEF meant
    <3>3. \A v \in NumberValue : Added(<<v>>) = v
      BY SumOne
    <3> QED
      BY <3>1, <3>2, <3>3
  <2> QED
    BY <2>1, <2>2, <2>3
<1>9. CASE ~deferred /\ Len(items) > 1 /\ numeric
  <2>1. const_sum(table, items) = Sum(values)
    <3>1. Len(items) # 1
      BY <1>2, <1>9
    <3> QED
      BY <1>5, <1>9, <3>1
  <2>2. ASSUME NEW i \in 1..Len(items) PROVE values[i] = meant[i]
    <3>1. values[i] \in Value /\ values[i].tag = "int"
      BY <1>3, <1>4, <1>9
    <3>2. values[i] \in NumberValue /\ ItemsOf(values[i]) = <<values[i]>>
      BY <3>1, ValueTags DEF ItemsOf
    <3>3. values[i] \in Atom /\ m[values[i]] = values[i]
      <4>1. values[i] \in Atom
        BY <3>1, ValueTags
      <4> QED
        BY <3>1, <4>1, MeantIs
    <3>4. Added(Mapped(m, <<values[i]>>)) = values[i]
      BY <3>2, <3>3, MeantOne
    <3> QED
      BY <1>3, <3>2, <3>4
  <2>3. values = meant
    <3> HIDE DEF meant
    <3> QED
      BY <1>1, <1>2, <1>6, <2>2
  <2>4. Sum(meant) \in NumberValue
    BY <1>1
  <2>5. ItemsOf(Sum(meant)) = <<Sum(meant)>> /\ Sum(meant) \in Atom /\ m[Sum(meant)] = Sum(meant)
    <3>1. \A v \in NumberValue : v \in Atom /\ v.tag = "int"
      BY FailureType DEF NumberValue
    <3>2. Sum(meant) \in Atom /\ Sum(meant).tag = "int"
      BY <2>4, <3>1
    <3> QED
      BY <3>2, MeantIs DEF ItemsOf
  <2>6. Added(Mapped(m, <<Sum(meant)>>)) = Sum(meant)
    BY <2>4, <2>5, MeantOne
  <2> QED
    BY <1>1, <2>1, <2>3, <2>5, <2>6
<1>10. CASE ~deferred /\ Len(items) # 1 /\ ~(Len(items) > 1 /\ numeric)
  <2>1. const_sum(table, items) = Failure("not numeric")
    BY <1>5, <1>10
  <2> QED
    BY <2>1, FailureType DEF Causes
<1> QED
  BY <1>7, <1>8, <1>9, <1>10

\* Parsing a value, wholly or in part, leaves what it means.
LEMMA ParsedMeant ==
  ASSUME NEW K, Keyed(K), NEW table, TableMeant(K, table), NEW t \in ValueText,
         Added(Mapped(Meant(K), SumItems(t))) \in NumberValue,
         ~IsFailure(const_value(table, t))
  PROVE  Added(Mapped(Meant(K), ItemsOf(const_value(table, t)))) = Added(Mapped(Meant(K), SumItems(t)))
<1>1. CASE t.tag = "sum"
  <2>1. SumItems(t) = t.items /\ t.items \in Seq(Atom) /\ const_value(table, t) = const_sum(table, t.items)
    BY <1>1, SumItemsType DEF SumItems, const_value
  <2> DEFINE items == t.items
  <2>2. SumItems(t) = items /\ items \in Seq(Atom) /\ const_value(table, t) = const_sum(table, items)
    BY <2>1
  <2> HIDE DEF items
  <2> QED
    BY <2>2, SumMeant
<1>2. CASE t.tag # "sum"
  <2>1. t \in Atom /\ SumItems(t) = <<t>>
    BY <1>2, SumItemsType
  <2>2. const_value(table, t) = t /\ ItemsOf(t) = <<t>>
    BY <1>2, <2>1, AtomTags DEF const_value, ItemsOf
  <2> QED
    BY <2>1, <2>2
<1> QED
  BY <1>1, <1>2

\* What a list of items is looked up as is a list of numbers and failures.
LEMMA EvaluatedSeq ==
  ASSUME NEW all \in Evaluations, NEW items \in Seq(Atom), NEW seen \in SUBSET Name
  PROVE  LET values == [i \in DOMAIN items |-> all[<<items[i], seen>>]]
         IN values \in Seq(Outcome) /\ Len(values) = Len(items) /\ DOMAIN values = DOMAIN items
<1> DEFINE values == [i \in DOMAIN items |-> all[<<items[i], seen>>]]
<1>1. Len(items) \in Nat /\ DOMAIN items = 1..Len(items) /\ \A i \in 1..Len(items) : items[i] \in Atom
  OBVIOUS
<1>2. \A i \in 1..Len(items) : all[<<items[i], seen>>] \in Outcome
  <2>1. \A i \in 1..Len(items) : <<items[i], seen>> \in Atom \X SUBSET Name
    BY <1>1
  <2>2. Result \subseteq Outcome
    BY DEF Result, Outcome, FailureValue
  <2> QED
    BY <2>1, <2>2 DEF Evaluations
<1>3. values \in [1..Len(items) -> Outcome]
  BY <1>1, <1>2
<1> HIDE DEF values
<1>4. values \in Seq(Outcome) /\ Len(values) = Len(items) /\ DOMAIN values = DOMAIN items
  BY <1>1, <1>3, IsSeq
<1> QED
  BY <1>4 DEF values

\* What an expression comes to, if to anything, is what it means.
LEMMA EvalMeant ==
  ASSUME NEW K, Keyed(K), NEW table, TableMeant(K, table), NEW expr \in Value,
         Added(Mapped(Meant(K), ItemsOf(expr))) \in NumberValue,
         _eval_expr(table, expr) \in NumberValue
  PROVE  _eval_expr(table, expr) = Added(Mapped(Meant(K), ItemsOf(expr)))
<1> DEFINE m == Meant(K)
<1>1. Table(table)
  BY DEF TableMeant
<1>2. PICK f : /\ EvaluatedAll(table, f)
               /\ LET items == ItemsOf(expr)
                      all == f[Cardinality(DOMAIN table)]
                  IN _eval_expr(table, expr) = Added([i \in DOMAIN items |-> all[<<items[i], {}>>]])
  BY <1>1, EvalSteps
<1> DEFINE Same(n) == \A a \in Atom, seen \in SUBSET Name :
                        (f[n][<<a, seen>>] \in NumberValue /\ m[a] \in NumberValue) =>
                          f[n][<<a, seen>>] = m[a]
           T == {n \in Nat : Same(n)}
<1>3. /\ \A n \in Nat : f[n] \in Evaluations
      /\ \A n \in Nat, p \in Atom \X SUBSET Name : f[n][p] = Evaluated(table, n, f[n - 1], p)
  BY <1>2 DEF EvaluatedAll
\* One list of items, looked up n times, with all of its sum a number.
<1>4. ASSUME NEW n \in Nat, Same(n), NEW items \in Seq(Atom), NEW seen \in SUBSET Name,
             Added([i \in DOMAIN items |-> f[n][<<items[i], seen>>]]) \in NumberValue,
             Added(Mapped(m, items)) \in NumberValue
      PROVE  Added([i \in DOMAIN items |-> f[n][<<items[i], seen>>]]) = Added(Mapped(m, items))
  <2> DEFINE values == [i \in DOMAIN items |-> f[n][<<items[i], seen>>]]
             meant == Mapped(m, items)
  <2>1. Len(items) \in Nat /\ DOMAIN items = 1..Len(items) /\ \A i \in 1..Len(items) : items[i] \in Atom
    OBVIOUS
  <2>3. values \in Seq(Outcome) /\ Len(values) = Len(items)
    BY <1>3, EvaluatedSeq
  <2>4. \A i \in 1..Len(items) : values[i] = f[n][<<items[i], seen>>]
    BY <2>1
  <2>5. /\ meant \in Seq(NumberValue) /\ Len(meant) = Len(items)
        /\ \A i \in DOMAIN items : m[items[i]] \in NumberValue /\ meant[i] = m[items[i]]
    BY <1>4, MeantNumbers
  <2>6. \A i \in DOMAIN values : values[i] \in NumberValue
    <3>1. ~IsFailure(Added(values))
      BY <1>4, FailureType
    <3> HIDE DEF values
    <3> QED
      BY <2>3, <3>1, AddedNumbers
  <2> HIDE DEF values, meant, m
  <2>7. \A i \in 1..Len(items) : values[i] = meant[i]
    <3> TAKE i \in 1..Len(items)
    <3>1. values[i] \in NumberValue
      BY <2>1, <2>3, <2>6
    <3> QED
      BY <1>4, <2>1, <2>4, <2>5, <3>1
  <2>8. values = meant
    BY <2>1, <2>3, <2>5, <2>7
  <2> QED
    BY <2>8 DEF values, meant
<1>5. ASSUME NEW n \in Nat, n = 0 \/ Same(n - 1) PROVE Same(n)
  <2> SUFFICES ASSUME NEW a \in Atom, NEW seen \in SUBSET Name,
                      f[n][<<a, seen>>] \in NumberValue, m[a] \in NumberValue
               PROVE  f[n][<<a, seen>>] = m[a]
    OBVIOUS
  <2> DEFINE items == ItemsOf(table[a.str])
             looked == seen \cup {a.str}
             sum == Added([i \in DOMAIN items |-> f[n - 1][<<items[i], looked>>]])
  <2>1. f[n][<<a, seen>>] =
          CASE a.tag = "int" -> a
            [] a.tag = "str" /\ a.str \notin DOMAIN table -> Failure("unknown")
            [] a.tag = "str" /\ a.str \in DOMAIN table /\ (a.str \in seen \/ n = 0) ->
                 Failure("circular")
            [] OTHER -> sum
    <3>1. <<a, seen>> \in Atom \X SUBSET Name /\ <<a, seen>>[1] = a /\ <<a, seen>>[2] = seen
      OBVIOUS
    <3>2. f[n][<<a, seen>>] = Evaluated(table, n, f[n - 1], <<a, seen>>)
      BY <1>3, <3>1
    <3> QED
      BY <3>1, <3>2 DEF Evaluated
  <2> HIDE DEF sum
  <2>2. Failure("unknown") \notin NumberValue /\ Failure("circular") \notin NumberValue
    BY UnknownIsOutcome, FailureType
  <2>3. CASE a.tag = "int"
    <3>1. f[n][<<a, seen>>] = a
      BY <2>1, <2>3
    <3> QED
      BY <2>3, <3>1, MeantIs
  <2>4. CASE a.tag = "str" /\ a.str \in DOMAIN table /\ ~(a.str \in seen \/ n = 0)
    <3>1. f[n][<<a, seen>>] = sum
      BY <2>1, <2>4
    <3>2. n - 1 \in Nat /\ Same(n - 1)
      BY <1>5, <2>4
    <3>3. PICK c \in K : c.key = a.str
      BY <2>4 DEF TableMeant
    <3>4. m[a] = Worth(K)[c]
      BY <2>4, <3>3, MeantIs
    <3>5. Added(Mapped(m, items)) = m[a]
      BY <2>4, <3>3, <3>4 DEF TableMeant
    <3>6. items \in Seq(Atom) /\ looked \in SUBSET Name
      <4>1. table[a.str] \in Value /\ a.str \in Name
        BY <1>1, <2>4, AtomTags DEF Table
      <4> QED
        BY <4>1, ItemsOfType
    <3> HIDE DEF items, looked, m, Same
    <3>7. sum = Added([i \in DOMAIN items |-> f[n - 1][<<items[i], looked>>]])
      BY DEF sum, items, looked
    <3>8. sum = Added(Mapped(m, items))
      BY <1>4, <3>1, <3>2, <3>5, <3>6, <3>7
    <3> QED
      BY <3>1, <3>5, <3>8
  <2> QED
    BY <2>1, <2>2, <2>3, <2>4, AtomTags
<1> HIDE DEF Same
<1>6. 0 \in T
  BY <1>5
<1>7. ASSUME NEW n \in Nat, n \in T PROVE n + 1 \in T
  <2>1. n + 1 \in Nat /\ (n + 1) - 1 = n /\ Same(n)
    BY <1>7
  <2>2. Same(n + 1)
    BY <1>5, <2>1
  <2> QED
    BY <2>1, <2>2
<1> HIDE DEF T
<1>8. \A n \in Nat : Same(n)
  BY <1>6, <1>7, Induct DEF T
<1> DEFINE items == ItemsOf(expr)
           last == Cardinality(DOMAIN table)
<1>9. last \in Nat /\ items \in Seq(Atom) /\ {} \in SUBSET Name
  BY <1>1, FS_CardinalityType, ItemsOfType DEF Table
<1>10. _eval_expr(table, expr) = Added([i \in DOMAIN items |-> f[last][<<items[i], {}>>]])
  BY <1>2
<1>11. Added(Mapped(m, items)) \in NumberValue
  OBVIOUS
<1> HIDE DEF items, last, m
<1>12. Added([i \in DOMAIN items |-> f[last][<<items[i], {}>>]]) = Added(Mapped(m, items))
  BY <1>4, <1>8, <1>9, <1>10, <1>11
<1> QED
  BY <1>10, <1>12 DEF items, m

-----------------------------------------------------------------------------
(* The constants of a text.                                                *)

\* The constants that a declaration makes: one of a const, two of an enumerator.
ConstOf(d) == Constant(FullName(d), <<d.name>>, d)
ShortOf(d, e) == Constant(Append(d.scope, e.name), <<e.name>>, e)
LongOf(d, e) == Constant(FullName(e), <<d.name, e.name>>, e)

\* An enumerator is declared with its place as its value.
LEMMA EnumeratorIs ==
  ASSUME NEW d \in DeclarationText
  PROVE  /\ DOMAIN Enumerators(d) = DOMAIN d.members
         /\ DOMAIN d.members = 1..Len(d.members) /\ Len(d.members) \in Nat
         /\ \A k \in DOMAIN d.members :
              LET e == Enumerators(d)[k]
              IN /\ e.name = d.members[k] /\ e.name \in STRING
                 /\ e.value = IntValue(k - 1) /\ e.value \in ValueText /\ e.value.tag = "int"
                 /\ e.scope = FullName(d) /\ e.scope \in Name
<1>1. d.members \in Seq(STRING) /\ d.scope \in Name /\ d.name \in STRING
  BY DEF DeclarationText
<1>2. Len(d.members) \in Nat /\ DOMAIN d.members = 1..Len(d.members)
      /\ \A k \in 1..Len(d.members) : d.members[k] \in STRING
  BY <1>1
<1>3. DOMAIN Enumerators(d) = DOMAIN d.members
  BY DEF Enumerators
<1>4. FullName(d) \in Name
  BY <1>1, FullNameType DEF FullName
<1>5. ASSUME NEW k \in DOMAIN d.members
      PROVE  /\ Enumerators(d)[k].name = d.members[k]
             /\ Enumerators(d)[k].value = IntValue(k - 1)
             /\ Enumerators(d)[k].scope = FullName(d)
  BY <1>5 DEF Enumerators, Declaration
<1>6. \A k \in DOMAIN d.members : IntValue(k - 1) \in ValueText /\ IntValue(k - 1).tag = "int"
  <2>1. \A k \in DOMAIN d.members : k - 1 \in Int
    BY <1>2
  <2> QED
    BY <2>1 DEF IntValue, ValueText, Atom, NumberValue
<1> QED
  BY <1>1, <1>2, <1>3, <1>4, <1>5, <1>6

\* All the constants of a text are those forms of its declarations.
LEMMA KnownForms ==
  ASSUME NEW decls \in Seq(DeclarationText)
  PROVE  \A c : c \in AllConstants(decls) <=>
           \E i \in DOMAIN decls :
             \/ decls[i].kind = "const" /\ c = ConstOf(decls[i])
             \/ /\ decls[i].kind = "enum"
                /\ \E k \in DOMAIN decls[i].members :
                     \/ c = ShortOf(decls[i], Enumerators(decls[i])[k])
                     \/ c = LongOf(decls[i], Enumerators(decls[i])[k])
<1> DEFINE Const == Of(decls, {"const"})
           Enum == Of(decls, {"enum"})
<1>1. /\ \A d : d \in Const <=> \E i \in DOMAIN decls : decls[i].kind = "const" /\ d = decls[i]
      /\ \A d : d \in Enum <=> \E i \in DOMAIN decls : decls[i].kind = "enum" /\ d = decls[i]
  BY DEF Of
<1>2. \A i \in DOMAIN decls : DOMAIN Enumerators(decls[i]) = DOMAIN decls[i].members
  BY EnumeratorIs
<1>3. \A i \in DOMAIN decls : \A e : e \in Range(Enumerators(decls[i])) <=>
        \E k \in DOMAIN decls[i].members : e = Enumerators(decls[i])[k]
  BY <1>2 DEF Range
<1> DEFINE c1(d) == Constant(FullName(d), <<d.name>>, d)
           c2(d, e) == Constant(Append(d.scope, e.name), <<e.name>>, e)
           c3(d, e) == Constant(FullName(e), <<d.name, e.name>>, e)
           A == {c1(d) : d \in Const}
<1>4. AllConstants(decls) = A \cup UNION {EnumConstants(d) : d \in Enum}
  BY DEF AllConstants
<1>5. /\ \A d : c1(d) = ConstOf(d)
      /\ \A d, e : c2(d, e) = ShortOf(d, e) /\ c3(d, e) = LongOf(d, e)
  BY DEF ConstOf, ShortOf, LongOf
<1>6. \A d : EnumConstants(d) = UNION {{c2(d, e), c3(d, e)} : e \in Range(Enumerators(d))}
  BY DEF EnumConstants
<1> HIDE DEF c1, c2, c3, Const, Enum
<1>7. \A d, c : c \in EnumConstants(d) <=>
         \E e \in Range(Enumerators(d)) : c = c2(d, e) \/ c = c3(d, e)
  BY <1>6
<1>8. \A c : c \in A <=> \E d \in Const : c = c1(d)
  OBVIOUS
<1> HIDE DEF A
<1>9. \A c : c \in AllConstants(decls) <=>
        \/ \E d \in Const : c = ConstOf(d)
        \/ \E d \in Enum : \E e \in Range(Enumerators(d)) : c = ShortOf(d, e)
        \/ \E d \in Enum : \E e \in Range(Enumerators(d)) : c = LongOf(d, e)
  BY <1>4, <1>5, <1>7, <1>8
<1>10. ASSUME NEW c, c \in AllConstants(decls)
      PROVE  \E i \in DOMAIN decls :
               \/ decls[i].kind = "const" /\ c = ConstOf(decls[i])
               \/ /\ decls[i].kind = "enum"
                  /\ \E k \in DOMAIN decls[i].members :
                       \/ c = ShortOf(decls[i], Enumerators(decls[i])[k])
                       \/ c = LongOf(decls[i], Enumerators(decls[i])[k])
  <2>1. CASE \E d \in Const : c = ConstOf(d)
    BY <1>1, <2>1
  <2>2. CASE \E d \in Enum : \E e \in Range(Enumerators(d)) : c = ShortOf(d, e) \/ c = LongOf(d, e)
    <3>1. PICK d \in Enum : \E e \in Range(Enumerators(d)) : c = ShortOf(d, e) \/ c = LongOf(d, e)
      BY <2>2
    <3>2. PICK i \in DOMAIN decls : decls[i].kind = "enum" /\ d = decls[i]
      BY <1>1, <3>1
    <3> QED
      BY <1>3, <3>1, <3>2
  <2> QED
    BY <1>9, <1>10, <2>1, <2>2
<1>11. ASSUME NEW c, NEW i \in DOMAIN decls,
             \/ decls[i].kind = "const" /\ c = ConstOf(decls[i])
             \/ /\ decls[i].kind = "enum"
                /\ \E k \in DOMAIN decls[i].members :
                     \/ c = ShortOf(decls[i], Enumerators(decls[i])[k])
                     \/ c = LongOf(decls[i], Enumerators(decls[i])[k])
      PROVE  c \in AllConstants(decls)
  <2>1. CASE decls[i].kind = "const" /\ c = ConstOf(decls[i])
    BY <1>1, <1>9, <2>1
  <2>2. CASE /\ decls[i].kind = "enum"
             /\ \E k \in DOMAIN decls[i].members :
                  \/ c = ShortOf(decls[i], Enumerators(decls[i])[k])
                  \/ c = LongOf(decls[i], Enumerators(decls[i])[k])
    <3>1. decls[i] \in Enum
      BY <1>1, <2>2
    <3>2. PICK e \in Range(Enumerators(decls[i])) : c = ShortOf(decls[i], e) \/ c = LongOf(decls[i], e)
      BY <1>3, <2>2
    <3> QED
      BY <1>9, <3>1, <3>2
  <2> QED
    BY <1>11, <2>1, <2>2
<1> QED
  BY <1>10, <1>11

\* The last part of a longer name.
LEMMA LastAppended ==
  ASSUME NEW s \in Name, NEW x \in STRING
  PROVE  Append(s, x) \in Name \ {<<>>} /\ LastPart(Append(s, x)) = x
<1> DEFINE t == Append(s, x)
<1>1. s \in Seq(STRING)
  BY DEF Name
<1>2. t \in Seq(STRING) /\ Len(t) = Len(s) + 1 /\ Len(s) \in Nat /\ t[Len(s) + 1] = x
  BY <1>1, AppendSeq
<1> HIDE DEF t
<1>3. t # <<>> /\ t[Len(t)] = x
  BY <1>2
<1> QED
  BY <1>2, <1>3 DEF t, Name, LastPart

\* What the constants of declarations are.
LEMMA ConstantParts ==
  ASSUME NEW d \in DeclarationText
  PROVE  LET c == ConstOf(d)
         IN /\ c.of = d /\ c.key = <<d.name>> /\ c.full = FullName(d)
            /\ c.key \in Name \ {<<>>} /\ c.full \in Name \ {<<>>}
            /\ LastPart(c.key) = d.name /\ LastPart(c.full) = d.name
            /\ c.of.value \in ValueText /\ c.of.scope \in Name
<1>1. d.name \in STRING /\ d.scope \in Name /\ d.value \in ValueText
  BY DEF DeclarationText
<1>2. ConstOf(d).of = d /\ ConstOf(d).key = <<d.name>> /\ ConstOf(d).full = Append(d.scope, d.name)
  BY DEF ConstOf, Constant, FullName
<1>3. <<d.name>> \in Name \ {<<>>} /\ LastPart(<<d.name>>) = d.name
  BY <1>1 DEF Name, LastPart
<1>4. Append(d.scope, d.name) \in Name \ {<<>>} /\ LastPart(Append(d.scope, d.name)) = d.name
  BY <1>1, LastAppended
<1> QED
  BY <1>1, <1>2, <1>3, <1>4 DEF FullName

\* Keys and names of the two constants of an enumerator.
LEMMA EnumeratorParts ==
  ASSUME NEW d \in DeclarationText, NEW k \in DOMAIN d.members
  PROVE  LET e == Enumerators(d)[k]
             s == ShortOf(d, e)
             l == LongOf(d, e)
             name == d.members[k]
         IN /\ s.of = e /\ s.key = <<name>> /\ l.of = e /\ l.key = <<d.name, name>>
            /\ s.key \in Name \ {<<>>} /\ s.full \in Name \ {<<>>}
            /\ l.key \in Name \ {<<>>} /\ l.full \in Name \ {<<>>}
            /\ LastPart(s.key) = name /\ LastPart(s.full) = name
            /\ LastPart(l.key) = name /\ LastPart(l.full) = name
            /\ e.value = IntValue(k - 1) /\ e.value \in ValueText /\ e.value.tag = "int"
            /\ e.scope \in Name
<1> DEFINE e == Enumerators(d)[k]
           name == d.members[k]
<1>1. /\ e.name = name /\ name \in STRING
      /\ e.value = IntValue(k - 1) /\ e.value \in ValueText /\ e.value.tag = "int"
      /\ e.scope \in Name
  BY EnumeratorIs
<1>2. d.name \in STRING /\ d.scope \in Name
  BY DEF DeclarationText
<1> HIDE DEF e, name
<1>3. /\ ShortOf(d, e).of = e /\ ShortOf(d, e).key = <<name>>
      /\ ShortOf(d, e).full = Append(d.scope, name)
      /\ LongOf(d, e).of = e /\ LongOf(d, e).key = <<d.name, name>>
      /\ LongOf(d, e).full = Append(e.scope, name)
  BY <1>1 DEF ShortOf, LongOf, Constant, FullName
<1>4. /\ \A x \in STRING : <<x>> \in Name \ {<<>>} /\ LastPart(<<x>>) = x
      /\ \A x, y \in STRING : <<x, y>> \in Name \ {<<>>} /\ LastPart(<<x, y>>) = y
  BY DEF Name, LastPart
<1>5. /\ Append(d.scope, name) \in Name \ {<<>>} /\ LastPart(Append(d.scope, name)) = name
      /\ Append(e.scope, name) \in Name \ {<<>>} /\ LastPart(Append(e.scope, name)) = name
  BY <1>1, <1>2, LastAppended
<1> QED
  BY <1>1, <1>2, <1>3, <1>4, <1>5 DEF e, name

\* The constants of a text whose keys are unique are keyed.
LEMMA KnownKeyed ==
  ASSUME NEW decls \in Seq(DeclarationText),
         \A c, e \in AllConstants(decls) : c.key = e.key => c = e
  PROVE  Keyed(AllConstants(decls))
<1> DEFINE K == AllConstants(decls)
           n == Len(decls)
           consts(i) == {ConstOf(decls[i])}
           shorts(i) == {ShortOf(decls[i], Enumerators(decls[i])[k]) : k \in DOMAIN decls[i].members}
           longs(i) == {LongOf(decls[i], Enumerators(decls[i])[k]) : k \in DOMAIN decls[i].members}
           made(i) == consts(i) \cup shorts(i) \cup longs(i)
<1>1. n \in Nat /\ DOMAIN decls = 1..n /\ \A i \in 1..n : decls[i] \in DeclarationText
  OBVIOUS
<1>2. \A c : c \in K <=>
        \E i \in DOMAIN decls :
          \/ decls[i].kind = "const" /\ c = ConstOf(decls[i])
          \/ /\ decls[i].kind = "enum"
             /\ \E k \in DOMAIN decls[i].members :
                  \/ c = ShortOf(decls[i], Enumerators(decls[i])[k])
                  \/ c = LongOf(decls[i], Enumerators(decls[i])[k])
  BY KnownForms
<1>3. IsFiniteSet(K)
  <2>1. ASSUME NEW i \in 1..n PROVE IsFiniteSet(made(i))
    <3>1. IsFiniteSet(DOMAIN decls[i].members)
      <4> DEFINE d == decls[i]
      <4>1. d \in DeclarationText
        BY <1>1
      <4> HIDE DEF d
      <4>2. DOMAIN d.members = 1..Len(d.members) /\ Len(d.members) \in Nat
        BY <4>1, EnumeratorIs
      <4>3. IsFiniteSet(1..Len(d.members))
        BY <4>2, FS_Interval
      <4> QED
        BY <4>2, <4>3 DEF d
    <3> DEFINE f == [k \in DOMAIN decls[i].members |-> ShortOf(decls[i], Enumerators(decls[i])[k])]
               g == [k \in DOMAIN decls[i].members |-> LongOf(decls[i], Enumerators(decls[i])[k])]
    <3>2. DOMAIN f = DOMAIN decls[i].members /\ shorts(i) = {f[k] : k \in DOMAIN decls[i].members}
      OBVIOUS
    <3>3. DOMAIN g = DOMAIN decls[i].members /\ longs(i) = {g[k] : k \in DOMAIN decls[i].members}
      OBVIOUS
    <3> HIDE DEF f, g, shorts, longs
    <3>4. IsFiniteSet(shorts(i)) /\ IsFiniteSet(longs(i))
      BY <3>1, <3>2, <3>3, FiniteImage
    <3>5. IsFiniteSet(consts(i))
      BY FS_Singleton
    <3> HIDE DEF consts
    <3>6. IsFiniteSet(consts(i) \cup shorts(i))
      BY <3>4, <3>5, FS_Union
    <3> QED
      BY <3>4, <3>6, FS_Union
  <2>2. \A i \in 1..n : \A c :
          /\ c = ConstOf(decls[i]) => c \in made(i)
          /\ \A k \in DOMAIN decls[i].members :
               (c = ShortOf(decls[i], Enumerators(decls[i])[k])
                  \/ c = LongOf(decls[i], Enumerators(decls[i])[k])) => c \in made(i)
    OBVIOUS
  <2> HIDE DEF made, K
  <2> DEFINE all == [i \in 1..n |-> made(i)]
             sets == {all[i] : i \in 1..n}
  <2>3. IsFiniteSet(sets)
    <3>1. DOMAIN all = 1..n /\ IsFiniteSet(1..n)
      BY <1>1, FS_Interval
    <3> HIDE DEF all
    <3> QED
      BY <3>1, FiniteImage
  <2>4. \A s \in sets : IsFiniteSet(s)
    BY <2>1
  <2>5. IsFiniteSet(UNION sets)
    <3> HIDE DEF sets
    <3> QED
      BY <2>3, <2>4, FS_UNION
  <2>6. \A i \in 1..n : \A c \in made(i) : c \in UNION sets
    OBVIOUS
  <2> HIDE DEF sets
  <2>7. K \subseteq UNION sets
    BY <1>1, <1>2, <2>2, <2>6
  <2> QED
    BY <2>5, <2>7, FS_Subset
<1>4. ASSUME NEW c \in K
      PROVE  /\ c.of.value \in ValueText /\ c.of.scope \in Name
             /\ c.key \in Name \ {<<>>} /\ c.full \in Name \ {<<>>}
             /\ LastPart(c.full) = LastPart(c.key)
             /\ \E s \in K : s.of = c.of /\ s.key = <<LastPart(c.key)>>
  <2>1. PICK i \in DOMAIN decls :
          \/ decls[i].kind = "const" /\ c = ConstOf(decls[i])
          \/ /\ decls[i].kind = "enum"
             /\ \E k \in DOMAIN decls[i].members :
                  \/ c = ShortOf(decls[i], Enumerators(decls[i])[k])
                  \/ c = LongOf(decls[i], Enumerators(decls[i])[k])
    BY <1>2
  <2>2. decls[i] \in DeclarationText
    OBVIOUS
  <2>3. CASE decls[i].kind = "const" /\ c = ConstOf(decls[i])
    <3> DEFINE d == decls[i]
    <3>1. d \in DeclarationText /\ c = ConstOf(d)
      BY <2>2, <2>3
    <3> HIDE DEF d, K
    <3>2. /\ c.of = d /\ c.key = <<d.name>> /\ c.full = FullName(d)
          /\ c.key \in Name \ {<<>>} /\ c.full \in Name \ {<<>>}
          /\ LastPart(c.key) = d.name /\ LastPart(c.full) = d.name
          /\ c.of.value \in ValueText /\ c.of.scope \in Name
      BY <3>1, ConstantParts
    <3> QED
      BY <3>2
  <2>4. CASE decls[i].kind = "enum" /\ ~(decls[i].kind = "const" /\ c = ConstOf(decls[i]))
    <3>1. PICK k \in DOMAIN decls[i].members :
            \/ c = ShortOf(decls[i], Enumerators(decls[i])[k])
            \/ c = LongOf(decls[i], Enumerators(decls[i])[k])
      BY <2>1, <2>4
    <3> DEFINE d == decls[i]
               e == Enumerators(d)[k]
               s == ShortOf(d, e)
               l == LongOf(d, e)
               name == d.members[k]
    <3>2. /\ s.of = e /\ s.key = <<name>> /\ l.of = e /\ l.key = <<d.name, name>>
          /\ s.key \in Name \ {<<>>} /\ s.full \in Name \ {<<>>}
          /\ l.key \in Name \ {<<>>} /\ l.full \in Name \ {<<>>}
          /\ LastPart(s.key) = name /\ LastPart(s.full) = name
          /\ LastPart(l.key) = name /\ LastPart(l.full) = name
          /\ e.value = IntValue(k - 1) /\ e.value \in ValueText /\ e.value.tag = "int"
          /\ e.scope \in Name
      BY <2>2, EnumeratorParts
    <3>3. s \in K /\ (c = s \/ c = l)
      <4>1. s \in K
        <5> HIDE DEF K
        <5> QED
          BY <1>2, <2>4
      <4> QED
        BY <3>1, <4>1
    <3> HIDE DEF s, l, e, name, d, K
    <3> QED
      BY <3>2, <3>3
  <2> QED
    BY <2>1, <2>3, <2>4
<1> HIDE DEF K
<1>5. \A c, e \in K : c.key = e.key => c = e
  BY DEF K
<1>6. Keyed(K)
  BY <1>3, <1>4, <1>5 DEF Keyed, ConstantSet
<1> QED
  BY <1>6 DEF K

\* The value of an enumerator is its place.
LEMMA NumberMeant ==
  ASSUME NEW K, Keyed(K), NEW c \in K, c.of.value \in ValueText, c.of.value.tag = "int",
         Worth(K)[c] \in NumberValue
  PROVE  Worth(K)[c] = c.of.value
<1> DEFINE t == c.of.value
           scope == c.of.scope
           w == Worth(K)
<1>1. w \in [K -> Outcome] /\ w[c] = Total(K, t, scope) /\ scope \in Name
  BY WorthFixed DEF Keyed, ConstantSet
<1>2. Total(K, t, scope) = Summed(K, t, scope, w)
  BY DEF Total
<1>3. t \in ValueText /\ t.tag = "int"
  OBVIOUS
<1> HIDE DEF t, scope, w
<1>4. t \in NumberValue /\ SumItems(t) = <<t>>
  BY <1>3, SumItemsType
<1>5. Worths(K, t, scope, w) = <<t>>
  <2>1. DOMAIN <<t>> = 1..1 /\ <<t>>[1] = t
    OBVIOUS
  <2>2. WorthOf(K, t, scope, w) = t
    <3>1. t \in Atom
      BY <1>4, FailureType
    <3> QED
      BY <1>1, <1>3, <3>1, WorthOfType
  <2>3. Worths(K, t, scope, w) = [i \in 1..1 |-> t]
    BY <1>4, <2>1, <2>2 DEF Worths
  <2>4. \A v : [i \in 1..1 |-> v] = <<v>>
    OBVIOUS
  <2> QED
    BY <2>3, <2>4
<1>6. Summed(K, t, scope, w) = Added(<<t>>)
  BY <1>1, <1>3, <1>5, WorthsType
<1> QED
  BY <1>1, <1>2, <1>4, <1>6, SumOne DEF t, w

\* What a declaration enters into the table.
Entries(node) ==
  CASE node.kind = "const" -> [n \in {<<node.name>>} |-> node.value]
    [] node.kind = "enum" ->
         [n \in {<<node.members[k]>> : k \in DOMAIN node.members}
                  \cup {<<node.name, node.members[k]>> : k \in DOMAIN node.members} |->
            IntValue(PlaceOf(node.members, n[Len(n)]) - 1)]
    [] OTHER -> <<>>

\* Registering a declaration enters that and keeps the rest of the table.
LEMMA RegisteredIs ==
  ASSUME NEW table, NEW node
  PROVE  /\ DOMAIN Registered(table, node) = DOMAIN table \cup DOMAIN Entries(node)
         /\ \A n \in DOMAIN Entries(node) : Registered(table, node)[n] = Entries(node)[n]
         /\ \A n \in DOMAIN table \ DOMAIN Entries(node) : Registered(table, node)[n] = table[n]
<1> DEFINE new == Entries(node)
<1>1. Registered(table, node) =
        [n \in DOMAIN table \cup DOMAIN new |-> IF n \in DOMAIN new THEN new[n] ELSE table[n]]
  BY DEF Registered, Entries
<1> HIDE DEF new
<1> QED
  BY <1>1 DEF new

\* The keys and the values of the entries of a declaration.
LEMMA EntriesAre ==
  ASSUME NEW node, node.name \in STRING, node.members \in Seq(STRING)
  PROVE  /\ node.kind = "const" =>
              DOMAIN Entries(node) = {<<node.name>>} /\ Entries(node)[<<node.name>>] = node.value
         /\ node.kind = "enum" =>
              /\ \A n \in DOMAIN Entries(node) :
                   \E k \in DOMAIN node.members :
                     /\ n = <<node.members[k]>> \/ n = <<node.name, node.members[k]>>
                     /\ Entries(node)[n] = IntValue(k - 1)
              /\ \A k \in DOMAIN node.members :
                   <<node.members[k]>> \in DOMAIN Entries(node)
                     /\ <<node.name, node.members[k]>> \in DOMAIN Entries(node)
         /\ node.kind \notin {"const", "enum"} => DOMAIN Entries(node) = {}
<1>1. CASE node.kind = "const"
  <2>1. Entries(node) = [n \in {<<node.name>>} |-> node.value]
    BY <1>1 DEF Entries
  <2> QED
    BY <1>1, <2>1
<1>2. CASE node.kind = "enum"
  <2> DEFINE D == DOMAIN node.members
             names == {<<node.members[k]>> : k \in D} \cup {<<node.name, node.members[k]>> : k \in D}
             place(n) == PlaceOf(node.members, n[Len(n)])
  <2>1. Entries(node) = [n \in names |-> IntValue(place(n) - 1)]
    BY <1>2 DEF Entries
  <2>2. \A n : n \in names <=> \E k \in D : n = <<node.members[k]>> \/ n = <<node.name, node.members[k]>>
    OBVIOUS
  <2>3. ASSUME NEW n \in names
        PROVE  /\ place(n) \in D
               /\ n = <<node.members[place(n)]>> \/ n = <<node.name, node.members[place(n)]>>
    <3>1. PICK k \in D : n = <<node.members[k]>> \/ n = <<node.name, node.members[k]>>
      BY <2>2
    <3>2. n[Len(n)] = node.members[k]
      <4>1. \A x, y : Len(<<x>>) = 1 /\ Len(<<y, x>>) = 2 /\ <<x>>[1] = x /\ <<y, x>>[2] = x
        OBVIOUS
      <4>2. CASE n = <<node.members[k]>>
        BY <4>1, <4>2
      <4>3. CASE n = <<node.name, node.members[k]>>
        BY <4>1, <4>3
      <4> QED
        BY <3>1, <4>2, <4>3
    <3>3. place(n) \in D /\ node.members[place(n)] = node.members[k]
      BY <3>2, PlaceIs
    <3> HIDE DEF place
    <3> QED
      BY <3>1, <3>3
  <2> HIDE DEF names, place
  <2>4. DOMAIN Entries(node) = names /\ \A n \in names : Entries(node)[n] = IntValue(place(n) - 1)
    BY <2>1
  <2>5. ASSUME NEW n \in DOMAIN Entries(node)
        PROVE  \E k \in DOMAIN node.members :
                 /\ n = <<node.members[k]>> \/ n = <<node.name, node.members[k]>>
                 /\ Entries(node)[n] = IntValue(k - 1)
    BY <2>3, <2>4
  <2>6. \A k \in D : <<node.members[k]>> \in names /\ <<node.name, node.members[k]>> \in names
    BY <2>2
  <2> QED
    BY <1>2, <2>4, <2>5, <2>6
<1>3. CASE node.kind \notin {"const", "enum"}
  <2>1. Entries(node) = <<>>
    BY <1>3 DEF Entries
  <2> QED
    BY <1>3, <2>1
<1> QED
  BY <1>1, <1>2, <1>3

\* Whatever a declaration enters is a constant's: its own value, or the place
\* of an enumerator.
LEMMA EntriesKeyed ==
  ASSUME NEW decls \in Seq(DeclarationText), NEW i \in DOMAIN decls, NEW node, Alike(decls[i], node),
         NEW n \in DOMAIN Entries(node)
  PROVE  \E c \in AllConstants(decls) :
           /\ c.key = n
           /\ \/ node.kind = "const" /\ c = ConstOf(decls[i]) /\ Entries(node)[n] = node.value
              \/ c.of.value \in ValueText /\ c.of.value.tag = "int" /\ Entries(node)[n] = c.of.value
<1> DEFINE K == AllConstants(decls)
           d == decls[i]
           new == Entries(node)
<1>1. d \in DeclarationText
  OBVIOUS
<1>2. /\ node.kind = d.kind /\ node.name = d.name /\ node.members = d.members
      /\ node.name \in STRING /\ node.members \in Seq(STRING)
  BY <1>1 DEF Alike, DeclarationText
<1>3. /\ d.kind = "const" => ConstOf(d) \in K
      /\ d.kind = "enum" => \A k \in DOMAIN d.members :
           ShortOf(d, Enumerators(d)[k]) \in K /\ LongOf(d, Enumerators(d)[k]) \in K
  BY KnownForms DEF d
<1> DEFINE kind == node.kind
           name == node.name
           members == node.members
           value == node.value
<1>4. /\ kind = "const" => DOMAIN new = {<<name>>} /\ new[<<name>>] = value
      /\ kind = "enum" =>
           \A q \in DOMAIN new :
             \E k \in DOMAIN members :
               /\ q = <<members[k]>> \/ q = <<name, members[k]>>
               /\ new[q] = IntValue(k - 1)
      /\ kind \notin {"const", "enum"} => DOMAIN new = {}
  BY <1>2, EntriesAre
<1>5. kind = d.kind /\ name = d.name /\ members = d.members /\ n \in DOMAIN new
  BY <1>2
<1> HIDE DEF K, d, new, kind, name, members, value
<1>6. CASE kind = "const"
  <2>1. ConstOf(d).key = <<name>>
    BY <1>1, <1>5, ConstantParts
  <2> QED
    BY <1>3, <1>4, <1>5, <1>6, <2>1 DEF K, d, new, kind, value
<1>7. CASE kind = "enum"
  <2>1. PICK k \in DOMAIN d.members :
          /\ n = <<d.members[k]>> \/ n = <<d.name, d.members[k]>>
          /\ new[n] = IntValue(k - 1)
    BY <1>4, <1>5, <1>7
  <2> DEFINE e == Enumerators(d)[k]
             s == ShortOf(d, e)
             l == LongOf(d, e)
  <2>2. /\ s.of = e /\ s.key = <<d.members[k]>> /\ l.of = e /\ l.key = <<d.name, d.members[k]>>
        /\ e.value = IntValue(k - 1) /\ e.value \in ValueText /\ e.value.tag = "int"
    BY <1>1, EnumeratorParts
  <2>3. s \in K /\ l \in K
    BY <1>3, <1>5, <1>7
  <2> HIDE DEF s, l, e
  <2>4. PICK c \in K : c.key = n /\ c.of = e
    BY <2>1, <2>2, <2>3
  <2>5. c.of.value \in ValueText /\ c.of.value.tag = "int" /\ new[n] = c.of.value
    BY <2>1, <2>2, <2>4
  <2> QED
    BY <2>4, <2>5 DEF K, new
<1> QED
  BY <1>4, <1>5, <1>6, <1>7

\* A constant is registered under its key alone, with what it is worth.
LEMMA RegisteredMeant ==
  ASSUME NEW decls \in Seq(DeclarationText), Keyed(AllConstants(decls)),
         NEW i \in DOMAIN decls, NEW node, Alike(decls[i], node),
         NEW table, TableMeant(AllConstants(decls), table),
         LET K == AllConstants(decls)
         IN node.kind = "const" =>
              /\ node.value \in Value
              /\ Worth(K)[ConstOf(decls[i])] \in NumberValue =>
                   Added(Mapped(Meant(K), ItemsOf(node.value))) = Worth(K)[ConstOf(decls[i])]
  PROVE  TableMeant(AllConstants(decls), Registered(table, node))
<1> DEFINE K == AllConstants(decls)
           d == decls[i]
           r == Registered(table, node)
           new == Entries(node)
<1>1. d \in DeclarationText
  OBVIOUS
<1>2. /\ node.kind = d.kind /\ node.name = d.name /\ node.members = d.members
      /\ node.name \in STRING /\ node.members \in Seq(STRING)
  BY <1>1 DEF Alike, DeclarationText
<1>3. Table(r)
  <2>1. Table(table)
    BY DEF TableMeant
  <2> QED
    BY <1>2, <2>1, RegisteredType
<1>4. /\ DOMAIN r = DOMAIN table \cup DOMAIN new
      /\ \A n \in DOMAIN new : r[n] = new[n]
      /\ \A n \in DOMAIN table \ DOMAIN new : r[n] = table[n]
  BY RegisteredIs
<1> HIDE DEF d
<1>5. \A c, e \in K : c.key = e.key => c = e
  BY DEF Keyed
<1> HIDE DEF K, r
\* Every new key is that of a constant, with its worth.
<1>9. ASSUME NEW n \in DOMAIN new
      PROVE  \E c \in K : /\ c.key = n
                          /\ Worth(K)[c] \in NumberValue =>
                               Added(Mapped(Meant(K), ItemsOf(new[n]))) = Worth(K)[c]
  <2>1. PICK c \in K :
          /\ c.key = n
          /\ \/ node.kind = "const" /\ c = ConstOf(decls[i]) /\ new[n] = node.value
             \/ c.of.value \in ValueText /\ c.of.value.tag = "int" /\ new[n] = c.of.value
    BY EntriesKeyed DEF K, d
  <2> HIDE DEF new
  <2>2. ASSUME Worth(K)[c] \in NumberValue, c.of.value \in ValueText, c.of.value.tag = "int",
               new[n] = c.of.value
        PROVE  Added(Mapped(Meant(K), ItemsOf(new[n]))) = Worth(K)[c]
    <3> DEFINE v == Worth(K)[c]
    <3>1. v = new[n] /\ v \in NumberValue
      BY <2>2, NumberMeant DEF K
    <3> HIDE DEF v
    <3>2. v \in Atom /\ v.tag = "int" /\ ItemsOf(v) = <<v>>
      <4>1. v \in Atom /\ v.tag = "int"
        BY <3>1, FailureType DEF NumberValue
      <4> QED
        BY <4>1 DEF ItemsOf
    <3>3. Meant(K)[v] = v
      BY <3>2, MeantIs DEF K
    <3>4. Added(Mapped(Meant(K), <<v>>)) = v
      BY <3>1, <3>2, <3>3, MeantOne DEF K
    <3> QED
      BY <3>1, <3>2, <3>4 DEF v
  <2> QED
    BY <2>1, <2>2 DEF K
<1> HIDE DEF new
<1>10. DOMAIN r \subseteq {c.key : c \in K}
  BY <1>4, <1>9 DEF TableMeant, K
<1>11. ASSUME NEW c \in K, c.key \in DOMAIN r, Worth(K)[c] \in NumberValue
       PROVE  Added(Mapped(Meant(K), ItemsOf(r[c.key]))) = Worth(K)[c]
  <2>1. CASE c.key \in DOMAIN new
    <3>1. PICK e \in K : /\ e.key = c.key
                         /\ Worth(K)[e] \in NumberValue =>
                              Added(Mapped(Meant(K), ItemsOf(new[c.key]))) = Worth(K)[e]
      BY <1>9, <2>1
    <3>2. e = c
      BY <1>5, <3>1
    <3> QED
      BY <1>4, <1>11, <2>1, <3>1, <3>2
  <2>2. CASE c.key \notin DOMAIN new
    <3>1. c.key \in DOMAIN table /\ r[c.key] = table[c.key]
      BY <1>4, <1>11, <2>2
    <3> QED
      BY <1>11, <3>1 DEF TableMeant, K
  <2> QED
    BY <2>1, <2>2
<1>12. TableMeant(K, r)
  BY <1>3, <1>10, <1>11 DEF TableMeant
<1> QED
  BY <1>12 DEF K, r

-----------------------------------------------------------------------------
(* Constants through the passes *)

\* The declarations of a text, as the lemmas on constants need them.
LEMMA TextConstants ==
  ASSUME NEW t \in Texts
  PROVE  /\ t.idl \in Seq(DeclarationText)
         /\ \A i \in DOMAIN t.idl :
              /\ t.idl[i] \in DeclarationText /\ <<>> \notin NamesIn(t.idl[i].value)
              /\ t.idl[i].scope # <<>> => \E module \in DOMAIN t.idl : Around(t.idl, i, module)
<1>1. t.idl \in Seq(DeclarationText)
  BY TextsAssumption DEF SchemaText
<1>2. \A i \in DOMAIN t.idl :
        /\ <<>> \notin NamesIn(t.idl[i].value)
        /\ t.idl[i].scope # <<>> => \E module \in DOMAIN t.idl : Around(t.idl, i, module)
  BY TextsAssumption
<1>3. \A s \in Seq(DeclarationText) : \A i \in DOMAIN s : s[i] \in DeclarationText
  OBVIOUS
<1> QED
  BY <1>1, <1>2, <1>3

LEMMA ParsedValue ==
  ASSUME NEW table, NEW d \in DeclarationText
  PROVE  Parsed(table, d).value = const_value(table, d.value)
<1>1. d = [kind |-> d.kind, name |-> d.name, type |-> d.type, value |-> d.value,
           members |-> d.members, fields |-> d.fields, body |-> d.body, scope |-> d.scope,
           size |-> d.size]
  BY DEF DeclarationText
<1> DEFINE fields == [k \in DOMAIN d.fields |-> Declared(table, d.fields[k])]
           value == const_value(table, d.value)
<1>2. Parsed(table, d) =
        [d EXCEPT !.value = value, !.type = Normalized(d.type), !.fields = fields]
  BY <1>1 DEF Parsed
<1> HIDE DEF fields, value
<1> QED
  BY <1>1, <1>2 DEF value

\* What resolving makes of a constant's value.
LEMMA ResolvedValue ==
  ASSUME NEW table, Table(table), NEW parsed \in ParsedNode, parsed.kind = "const"
  PROVE  Resolved(table, parsed).value = _eval_expr(table, parsed.value)
<1> DEFINE value == IF parsed.kind = "const" THEN _eval_expr(table, parsed.value) ELSE parsed.value
           fields == [k \in DOMAIN parsed.fields |-> ResolvedField(table, parsed.fields[k])]
<1>1. Resolved(table, parsed) =
        [kind |-> parsed.kind, name |-> parsed.name, type |-> parsed.type, value |-> value,
         members |-> parsed.members, fields |-> fields, body |-> parsed.body,
         scope |-> parsed.scope, size |-> parsed.size]
  BY ResolvedShape
<1> HIDE DEF fields
<1> QED
  BY <1>1

LEMMA TypedValue ==
  ASSUME NEW named, NEW node \in ResolvedNode
  PROVE  Typed(named, node).value = node.value
<1>1. node = [kind |-> node.kind, name |-> node.name, type |-> node.type, value |-> node.value,
              members |-> node.members, fields |-> node.fields, body |-> node.body,
              scope |-> node.scope, size |-> node.size]
  BY NodeTags DEF ResolvedNode
<1>2. \A type, fields : [node EXCEPT !.type = type, !.fields = fields].value = node.value
  BY <1>1
<1>3. \E type, fields : Typed(named, node) = [node EXCEPT !.type = type, !.fields = fields]
  BY DEF Typed
<1> QED
  BY <1>2, <1>3

\* What a constant's value still means when some pass has come by.
StillMeans(K, d, value) ==
  LET v == Total(K, d.value, d.scope)
  IN v \in NumberValue => Added(Mapped(Meant(K), ItemsOf(value))) = v

\* The passes after the constants are resolved.
Later == {"types", "map", "convert", "rename", "compile"}

\* What the constants of the text are in the course of the passes: the table
\* never holds a value that means another number than the rules give; a value
\* that is parsed still means its number, one that is resolved is that number.
ConstantsAre(K, decls, pass, place, ns, table) ==
  /\ pass \in {"parse", "constants"} => TableMeant(K, table)
  /\ pass = "parse" => \A i \in DOMAIN decls : i >= place => ns[i].value = decls[i].value
  /\ \A i \in DOMAIN decls :
       decls[i].kind = "const" =>
         /\ ((pass = "parse" /\ i < place) \/ (pass = "constants" /\ i >= place)) =>
              StillMeans(K, decls[i], ns[i].value)
         /\ ((pass = "constants" /\ i < place) \/ pass \in Later) =>
              LET v == Total(K, decls[i].value, decls[i].scope)
              IN v \in NumberValue => ns[i].value = v

\* For every text of IDL whose constants the parser tells apart.
ConstantsOK == (Idl /\ KeysUnique) => ConstantsAre(Known, Decls, stage, at, nodes, constants)

\* A value that the parser accepts still means what the rules say.
LEMMA ParsedStill ==
  ASSUME NEW K, Keyed(K), NEW table, TableMeant(K, table), NEW d \in DeclarationText,
         <<>> \notin NamesIn(d.value), ~IsFailure(const_value(table, d.value))
  PROVE  StillMeans(K, d, const_value(table, d.value))
<1> DEFINE v == Total(K, d.value, d.scope)
<1> SUFFICES ASSUME v \in NumberValue
             PROVE  Added(Mapped(Meant(K), ItemsOf(const_value(table, d.value)))) = v
  BY DEF StillMeans
<1> DEFINE t == d.value
           scope == d.scope
<1>1. t \in ValueText /\ scope \in Name
  BY DEF DeclarationText
<1> HIDE DEF t, scope
<1>2. Total(K, t, scope) \in NumberValue /\ <<>> \notin NamesIn(t) /\ ~IsFailure(const_value(table, t))
  BY DEF t, scope
<1>3. Added(Mapped(Meant(K), SumItems(t))) = Total(K, t, scope)
  BY <1>1, <1>2, TotalMeant
<1>4. Added(Mapped(Meant(K), ItemsOf(const_value(table, t)))) = Added(Mapped(Meant(K), SumItems(t)))
  BY <1>1, <1>2, <1>3, ParsedMeant
<1> QED
  BY <1>3, <1>4 DEF t, scope

\* What it is worth is what its sum comes to.
LEMMA StillWorth ==
  ASSUME NEW decls \in Seq(DeclarationText), Keyed(AllConstants(decls)), NEW i \in DOMAIN decls,
         decls[i].kind = "const", NEW value, StillMeans(AllConstants(decls), decls[i], value),
         Worth(AllConstants(decls))[ConstOf(decls[i])] \in NumberValue
  PROVE  Added(Mapped(Meant(AllConstants(decls)), ItemsOf(value)))
           = Worth(AllConstants(decls))[ConstOf(decls[i])]
<1> DEFINE K == AllConstants(decls)
           d == decls[i]
           c == ConstOf(d)
<1>1. c \in K
  BY KnownForms
<1>2. d \in DeclarationText
  OBVIOUS
<1> HIDE DEF K, d
<1>3. c.of = d
  BY <1>2, ConstantParts
<1>4. Worth(K)[c] = Total(K, c.of.value, c.of.scope)
  <2>1. ConstantSet(K)
    BY DEF Keyed, K
  <2>2. Worth(K)[c] \in NumberValue
    BY DEF K, d
  <2> HIDE DEF c
  <2> QED
    BY <1>1, <2>1, <2>2, WorthFixed
<1>5. Worth(K)[c] = Total(K, d.value, d.scope)
  BY <1>3, <1>4
<1> QED
  BY <1>5 DEF StillMeans, K, d

\* The number, once it is evaluated.
LEMMA EvaluatedIs ==
  ASSUME NEW K, Keyed(K), NEW table, TableMeant(K, table), NEW d, NEW value \in Value,
         StillMeans(K, d, value), _eval_expr(table, value) \in NumberValue,
         Total(K, d.value, d.scope) \in NumberValue
  PROVE  _eval_expr(table, value) = Total(K, d.value, d.scope)
<1>1. Added(Mapped(Meant(K), ItemsOf(value))) = Total(K, d.value, d.scope)
  BY DEF StillMeans
<1> QED
  BY <1>1, EvalMeant

\* A number means itself.
LEMMA NumberStill ==
  ASSUME NEW K, Keyed(K), NEW d, NEW v \in NumberValue,
         Total(K, d.value, d.scope) \in NumberValue => v = Total(K, d.value, d.scope)
  PROVE  StillMeans(K, d, v)
<1>1. v \in Atom /\ v.tag = "int" /\ ItemsOf(v) = <<v>>
  <2>1. v \in Atom /\ v.tag = "int"
    BY FailureType DEF NumberValue
  <2> QED
    BY <2>1 DEF ItemsOf
<1>2. Meant(K)[v] = v
  BY <1>1, MeantIs
<1>3. Added(Mapped(Meant(K), <<v>>)) = v
  BY <1>1, <1>2, MeantOne
<1> QED
  BY <1>1, <1>3 DEF StillMeans

\* The constants of the text in hand are keyed.
LEMMA KnownOK ==
  ASSUME PassesInv, KeysUnique
  PROVE  /\ Keyed(Known) /\ Known = AllConstants(Decls) /\ Decls = text.idl
         /\ Decls \in Seq(DeclarationText)
         /\ \A i \in DOMAIN Decls : Decls[i] \in DeclarationText /\ <<>> \notin NamesIn(Decls[i].value)
         /\ DOMAIN nodes = DOMAIN Decls
         /\ \A i \in DOMAIN Decls : Alike(Decls[i], nodes[i]) /\ i \in Nat
<1>1. text \in Texts
  BY DEF PassesInv
<1>2. /\ Decls \in Seq(DeclarationText)
      /\ \A i \in DOMAIN Decls : Decls[i] \in DeclarationText /\ <<>> \notin NamesIn(Decls[i].value)
  BY <1>1, TextConstants DEF Decls
<1>3. \A c, e \in Known : c.key = e.key => c = e
  BY DEF KeysUnique
<1>4. Keyed(Known)
  BY <1>2, <1>3, KnownKeyed DEF Known
<1>5. /\ DOMAIN nodes = DOMAIN Decls
      /\ \A i \in DOMAIN Decls : Alike(Decls[i], nodes[i]) /\ i \in Nat
  <2>1. DOMAIN nodes = DOMAIN text.idl /\ \A i \in DOMAIN text.idl : i \in Nat
    BY NodesType
  <2>2. \A i \in DOMAIN text.idl : Alike(text.idl[i], nodes[i])
    BY DEF PassesInv, NodesOK
  <2> QED
    BY <2>1, <2>2 DEF Decls
<1> QED
  BY <1>2, <1>4, <1>5 DEF Known, Decls

\* They are the same after a step.
LEMMA KnownStays ==
  ASSUME text' = text
  PROVE  Known' = Known /\ Decls' = Decls /\ (KeysUnique' <=> KeysUnique) /\ (Idl' <=> Idl)
<1>1. Decls' = Decls
  BY DEF Decls
<1>2. Known' = Known
  BY <1>1 DEF Known
<1> QED
  BY <1>1, <1>2 DEF KeysUnique, Idl

\* The table of constants starts empty.
LEMMA ConstantsInit ==
  ASSUME Init
  PROVE  ConstantsOK
<1>1. /\ nodes = text.idl /\ at = 1 /\ constants = <<>>
      /\ stage \in {"parse", "blocks", "compile"}
  BY DEF Init
<1>2. PassesInv
  BY PassesInit
<1> SUFFICES ASSUME Idl, KeysUnique PROVE ConstantsAre(Known, Decls, stage, at, nodes, constants)
  BY DEF ConstantsOK
<1>6. Idl /\ stage # "parse" => Decls = <<>>
  BY DEF Init, Idl, Decls
<1>3. DOMAIN constants = {} /\ Table(constants)
  BY <1>1, <1>2 DEF PassesInv
<1>4. TableMeant(Known, constants)
  BY <1>3 DEF TableMeant
<1>5. \A i \in DOMAIN Decls : i \in Nat \ {0}
  <2>1. Decls \in Seq(DeclarationText)
    BY <1>2, KnownOK
  <2> QED
    BY <2>1
<1>7. stage = "parse" \/ DOMAIN Decls = {}
  BY <1>6
<1> QED
  BY <1>1, <1>4, <1>5, <1>7 DEF ConstantsAre, Decls, Later

LEMMA ConstantsStop ==
  ASSUME ConstantsOK, NEW result, NEW why, Stop(result, why)
  PROVE  ConstantsOK'
<1>1. UNCHANGED <<text, stage, at, nodes, constants>>
  BY DEF Stop
<1>2. Known' = Known /\ Decls' = Decls /\ (KeysUnique' <=> KeysUnique) /\ (Idl' <=> Idl)
  BY <1>1, KnownStays
<1> QED
  BY <1>1, <1>2 DEF ConstantsOK

\* Whatever is registered means what it means by the rules.
LEMMA TableStays ==
  ASSUME PassesInv, KeysUnique, TableMeant(Known, constants), NEW i \in DOMAIN Decls, NEW node,
         Alike(Decls[i], node), node.kind = "const" => node.value \in Value,
         node.kind = "const" => StillMeans(Known, Decls[i], node.value)
  PROVE  TableMeant(Known, Registered(constants, node))
<1>1. /\ Keyed(Known) /\ Known = AllConstants(Decls) /\ Decls \in Seq(DeclarationText)
  BY KnownOK
<1>2. node.kind = Decls[i].kind
  BY DEF Alike
<1>3. node.kind = "const" =>
        /\ node.value \in Value
        /\ Worth(Known)[ConstOf(Decls[i])] \in NumberValue =>
             Added(Mapped(Meant(Known), ItemsOf(node.value))) = Worth(Known)[ConstOf(Decls[i])]
  BY <1>1, <1>2, StillWorth
<1> QED
  BY <1>1, <1>3, RegisteredMeant

\* What a step of the parser does.
LEMMA ParseStep ==
  ASSUME PassesInv, Parse, ~\E result, why : Stop(result, why)
  PROVE  /\ stage = "parse" /\ at \in DOMAIN nodes /\ at \in Nat \ {0} /\ text' = text
         /\ DOMAIN nodes = 1..Len(nodes) /\ Len(nodes) \in Nat
         /\ \/ at < Len(nodes) /\ at' = at + 1 /\ stage' = "parse"
            \/ at = Len(nodes) /\ at' = 1 /\ stage' = "constants"
         /\ \A i \in DOMAIN nodes : i # at => nodes'[i] = nodes[i]
         /\ Alike(nodes[at], nodes'[at]) /\ ~IsFailure(nodes'[at].value) /\ nodes'[at].value \in Value
         /\ nodes'[at].value = const_value(constants, nodes[at].value)
         /\ constants' = Registered(constants, nodes'[at])
<1> DEFINE node == Parsed(constants, nodes[at])
<1>1. stage = "parse" /\ outcome = ""
  BY DEF Parse, Running
<1>2. at \in DOMAIN nodes /\ at \in Nat \ {0}
  BY <1>1 DEF PassesInv, PlacesOK, Passes
<1>3. Table(constants) /\ nodes[at] \in WordedNode
  <2>1. nodes[at] \in IF at < at THEN ParsedNode ELSE WordedNode
    BY <1>1, <1>2 DEF PassesInv, NodesOK
  <2>2. ~(at < at)
    BY <1>2
  <2> QED
    BY <2>1, <2>2 DEF PassesInv
<1>4. /\ nodes' = [nodes EXCEPT ![at] = node] /\ ParseFailures(node) = <<>>
      /\ constants' = Registered(constants, node)
      /\ Advance(Len(nodes), "constants") /\ text' = text
  BY DEF Parse
<1>5. nodes[at] \in DeclarationText
  BY <1>3 DEF WordedNode
<1>6. /\ node \in ParsedNode /\ Alike(nodes[at], node)
      /\ node.value = const_value(constants, nodes[at].value)
  BY <1>3, <1>4, <1>5, ParsedType, ParsedAlike, ParsedValue
<1> HIDE DEF node
<1>7. node.value \in Value /\ ~IsFailure(node.value)
  <2>1. node.value \in Value
    BY <1>6, NodeTags DEF ParsedNode
  <2> QED
    BY <2>1, FailureType
<1>8. DOMAIN nodes = 1..Len(nodes) /\ Len(nodes) \in Nat
  BY NodesType
<1>9. \/ at < Len(nodes) /\ at' = at + 1 /\ stage' = stage
      \/ at = Len(nodes) /\ at' = 1 /\ stage' = "constants"
  BY <1>2, <1>4, <1>8, AdvanceMoves
<1>10. nodes'[at] = node /\ \A i \in DOMAIN nodes : i # at => nodes'[i] = nodes[i]
  BY <1>2, <1>4
<1> QED
  BY <1>1, <1>2, <1>4, <1>6, <1>7, <1>8, <1>9, <1>10

\* What a step of resolve_constants does.
LEMMA ResolveStep ==
  ASSUME PassesInv, ResolveConstants, ~\E result, why : Stop(result, why)
  PROVE  /\ stage = "constants" /\ at \in DOMAIN nodes /\ at \in Nat \ {0} /\ text' = text
         /\ DOMAIN nodes = 1..Len(nodes) /\ Len(nodes) \in Nat
         /\ \/ at < Len(nodes) /\ at' = at + 1 /\ stage' = "constants"
            \/ at = Len(nodes) /\ at' = 1 /\ stage' = "types"
         /\ \A i \in DOMAIN nodes : i # at => nodes'[i] = nodes[i]
         /\ Alike(nodes[at], nodes'[at]) /\ nodes[at].value \in Value
         /\ nodes[at].kind = "const" =>
              /\ nodes'[at].value = _eval_expr(constants, nodes[at].value)
              /\ nodes'[at].value \in NumberValue
              /\ constants' = Registered(constants, nodes'[at])
         /\ nodes[at].kind # "const" => constants' = constants
<1> DEFINE node == Resolved(constants, nodes[at])
<1>1. stage = "constants" /\ outcome = ""
  BY DEF ResolveConstants, Running
<1>2. at \in DOMAIN nodes /\ at \in Nat \ {0}
  BY <1>1 DEF PassesInv, PlacesOK, Passes
<1>3. Table(constants) /\ nodes[at] \in ParsedNode
  <2>1. nodes[at] \in IF at < at THEN ResolvedNode ELSE ParsedNode
    BY <1>1, <1>2 DEF PassesInv, NodesOK
  <2>2. ~(at < at)
    BY <1>2
  <2> QED
    BY <2>1, <2>2 DEF PassesInv
<1>4. /\ nodes' = [nodes EXCEPT ![at] = node] /\ ResolveFailures(node) = <<>>
      /\ constants' = IF node.kind = "const" THEN Registered(constants, node) ELSE constants
      /\ Advance(Len(nodes), "types") /\ text' = text
  BY DEF ResolveConstants
<1>5. node \in ResolvedNode /\ Alike(nodes[at], node)
  BY <1>3, <1>4, ResolvedType
<1>6. nodes[at].kind = "const" => node.value = _eval_expr(constants, nodes[at].value)
  BY <1>3, ResolvedValue
<1> HIDE DEF node
<1>7. node.kind = nodes[at].kind /\ (node.kind = "const" => node.value \in NumberValue)
  BY <1>5, ResolvedTags DEF Alike
<1>8. nodes[at].value \in Value
  BY <1>3, NodeTags DEF ParsedNode
<1>9. DOMAIN nodes = 1..Len(nodes) /\ Len(nodes) \in Nat
  BY NodesType
<1>10. \/ at < Len(nodes) /\ at' = at + 1 /\ stage' = stage
       \/ at = Len(nodes) /\ at' = 1 /\ stage' = "types"
  BY <1>2, <1>4, <1>9, AdvanceMoves
<1>11. nodes'[at] = node /\ \A i \in DOMAIN nodes : i # at => nodes'[i] = nodes[i]
  BY <1>2, <1>4
<1> QED
  BY <1>1, <1>2, <1>4, <1>5, <1>6, <1>7, <1>8, <1>9, <1>10, <1>11

LEMMA ConstantsParse ==
  ASSUME PassesInv, ConstantsOK, Parse
  PROVE  ConstantsOK'
<1>1. CASE \E result, why : Stop(result, why)
  BY <1>1, ConstantsStop
<1>2. CASE ~\E result, why : Stop(result, why)
  <2> DEFINE node == nodes'[at]
  <2>1. /\ stage = "parse" /\ at \in DOMAIN nodes /\ at \in Nat \ {0} /\ text' = text
        /\ DOMAIN nodes = 1..Len(nodes) /\ Len(nodes) \in Nat
        /\ \/ at < Len(nodes) /\ at' = at + 1 /\ stage' = "parse"
           \/ at = Len(nodes) /\ at' = 1 /\ stage' = "constants"
        /\ \A i \in DOMAIN nodes : i # at => nodes'[i] = nodes[i]
        /\ Alike(nodes[at], node) /\ ~IsFailure(node.value) /\ node.value \in Value
        /\ node.value = const_value(constants, nodes[at].value)
        /\ constants' = Registered(constants, node)
    BY <1>2, ParseStep
  <2> HIDE DEF node
  <2>2. Known' = Known /\ Decls' = Decls /\ (KeysUnique' <=> KeysUnique) /\ (Idl' <=> Idl)
    BY <2>1, KnownStays
  <2> SUFFICES ASSUME Idl, KeysUnique
               PROVE  ConstantsAre(Known, Decls, stage', at', nodes', constants')
    BY <2>2 DEF ConstantsOK
  <2>3. /\ Keyed(Known) /\ Decls \in Seq(DeclarationText)
        /\ \A i \in DOMAIN Decls : Decls[i] \in DeclarationText /\ <<>> \notin NamesIn(Decls[i].value)
        /\ DOMAIN nodes = DOMAIN Decls
        /\ \A i \in DOMAIN Decls : Alike(Decls[i], nodes[i]) /\ i \in Nat
    BY KnownOK
  <2>4. ConstantsAre(Known, Decls, stage, at, nodes, constants)
    BY DEF ConstantsOK
  <2>5. TableMeant(Known, constants) /\ nodes[at].value = Decls[at].value
    <3>1. at \in DOMAIN Decls /\ at >= at
      BY <2>1, <2>3
    <3> QED
      BY <2>1, <2>4, <3>1 DEF ConstantsAre
  <2>6. Alike(Decls[at], node)
    <3>1. Alike(Decls[at], nodes[at])
      BY <2>1, <2>3
    <3> QED
      BY <2>1, <3>1 DEF Alike
  <2>7. StillMeans(Known, Decls[at], node.value)
    <3> DEFINE d == Decls[at]
    <3>1. d \in DeclarationText /\ <<>> \notin NamesIn(d.value)
      BY <2>1, <2>3
    <3>2. node.value = const_value(constants, d.value)
      BY <2>1, <2>5
    <3> HIDE DEF d
    <3>3. StillMeans(Known, d, const_value(constants, d.value))
      BY <2>1, <2>3, <2>5, <3>1, <3>2, ParsedStill
    <3> QED
      BY <3>2, <3>3 DEF d
  <2>8. TableMeant(Known, constants')
    BY <2>1, <2>3, <2>5, <2>6, <2>7, TableStays
  <2>9. \A i \in DOMAIN Decls :
          i < at \/ i = at => (Decls[i].kind = "const" => StillMeans(Known, Decls[i], nodes'[i].value))
    <3> TAKE i \in DOMAIN Decls
    <3>1. CASE i = at
      BY <2>7, <3>1 DEF node
    <3>2. CASE i < at
      <4>1. nodes'[i] = nodes[i]
        BY <2>1, <2>3, <3>2
      <4> QED
        BY <2>1, <2>4, <3>2, <4>1 DEF ConstantsAre, Later
    <3> QED
      BY <3>1, <3>2
  <2>10. CASE at < Len(nodes) /\ at' = at + 1 /\ stage' = "parse"
    <3>1. \A i \in DOMAIN Decls : i >= at' => nodes'[i].value = Decls[i].value
      <4> SUFFICES ASSUME NEW i \in DOMAIN Decls, i >= at' PROVE nodes'[i].value = Decls[i].value
        OBVIOUS
      <4>1. i # at /\ i >= at /\ i \in DOMAIN nodes
        BY <2>1, <2>3, <2>10
      <4>2. nodes[i].value = Decls[i].value
        BY <2>1, <2>4, <4>1 DEF ConstantsAre
      <4> QED
        BY <2>1, <4>1, <4>2
    <3>2. \A i \in DOMAIN Decls : i < at' => i < at \/ i = at
      BY <2>1, <2>3, <2>10
    <3> QED
      BY <2>8, <2>9, <2>10, <3>1, <3>2 DEF ConstantsAre, Later
  <2>11. CASE at = Len(nodes) /\ at' = 1 /\ stage' = "constants"
    <3>1. \A i \in DOMAIN Decls : (i < at \/ i = at) /\ ~(i < at')
      BY <2>1, <2>3, <2>11
    <3> QED
      BY <2>8, <2>9, <2>11, <3>1 DEF ConstantsAre, Later
  <2> QED
    BY <2>1, <2>10, <2>11
<1> QED
  BY <1>1, <1>2

LEMMA ConstantsResolve ==
  ASSUME PassesInv, ConstantsOK, ResolveConstants
  PROVE  ConstantsOK'
<1>1. CASE \E result, why : Stop(result, why)
  BY <1>1, ConstantsStop
<1>2. CASE ~\E result, why : Stop(result, why)
  <2> DEFINE node == nodes'[at]
  <2>1. /\ stage = "constants" /\ at \in DOMAIN nodes /\ at \in Nat \ {0} /\ text' = text
        /\ DOMAIN nodes = 1..Len(nodes) /\ Len(nodes) \in Nat
        /\ \/ at < Len(nodes) /\ at' = at + 1 /\ stage' = "constants"
           \/ at = Len(nodes) /\ at' = 1 /\ stage' = "types"
        /\ \A i \in DOMAIN nodes : i # at => nodes'[i] = nodes[i]
        /\ Alike(nodes[at], node) /\ nodes[at].value \in Value
        /\ nodes[at].kind = "const" =>
             /\ node.value = _eval_expr(constants, nodes[at].value) /\ node.value \in NumberValue
             /\ constants' = Registered(constants, node)
        /\ nodes[at].kind # "const" => constants' = constants
    BY <1>2, ResolveStep
  <2> HIDE DEF node
  <2>2. Known' = Known /\ Decls' = Decls /\ (KeysUnique' <=> KeysUnique) /\ (Idl' <=> Idl)
    BY <2>1, KnownStays
  <2> SUFFICES ASSUME Idl, KeysUnique
               PROVE  ConstantsAre(Known, Decls, stage', at', nodes', constants')
    BY <2>2 DEF ConstantsOK
  <2>3. /\ Keyed(Known) /\ DOMAIN nodes = DOMAIN Decls
        /\ \A i \in DOMAIN Decls : Alike(Decls[i], nodes[i]) /\ i \in Nat
    BY KnownOK
  <2>4. ConstantsAre(Known, Decls, stage, at, nodes, constants) /\ TableMeant(Known, constants)
    BY <2>1 DEF ConstantsOK, ConstantsAre
  <2>5. Alike(Decls[at], node) /\ Decls[at].kind = nodes[at].kind /\ node.kind = nodes[at].kind
    <3>1. Alike(Decls[at], nodes[at])
      BY <2>1, <2>3
    <3> QED
      BY <2>1, <3>1 DEF Alike
  <2> DEFINE Is(i, value) == LET v == Total(Known, Decls[i].value, Decls[i].scope)
                             IN v \in NumberValue => value = v
  <2>6. Decls[at].kind = "const" => Is(at, node.value)
    <3> SUFFICES ASSUME Decls[at].kind = "const", Total(Known, Decls[at].value, Decls[at].scope) \in NumberValue
                 PROVE  node.value = Total(Known, Decls[at].value, Decls[at].scope)
      OBVIOUS
    <3> DEFINE d == Decls[at]
               value == nodes[at].value
    <3>1. StillMeans(Known, d, value)
      <4>1. at \in DOMAIN Decls /\ at >= at
        BY <2>1, <2>3
      <4> QED
        BY <2>1, <2>4, <4>1 DEF ConstantsAre, Later
    <3>2. value \in Value /\ node.value = _eval_expr(constants, value)
          /\ _eval_expr(constants, value) \in NumberValue
      BY <2>1, <2>5
    <3> HIDE DEF d, value
    <3>3. Total(Known, d.value, d.scope) \in NumberValue
      BY DEF d
    <3>4. _eval_expr(constants, value) = Total(Known, d.value, d.scope)
      BY <2>3, <2>4, <3>1, <3>2, <3>3, EvaluatedIs
    <3> QED
      BY <3>2, <3>4 DEF d
  <2>7. TableMeant(Known, constants')
    <3>1. CASE Decls[at].kind = "const"
      <4> DEFINE d == Decls[at]
                 v == node.value
      <4>1. v \in NumberValue /\ v \in Value
        <5>1. v \in NumberValue
          BY <2>1, <2>5, <3>1
        <5> QED
          BY <5>1, FailureType
      <4>2. Total(Known, d.value, d.scope) \in NumberValue => v = Total(Known, d.value, d.scope)
        BY <2>6, <3>1
      <4> HIDE DEF d, v
      <4>3. StillMeans(Known, d, v)
        BY <2>3, <4>1, <4>2, NumberStill
      <4> QED
        BY <2>1, <2>3, <2>4, <2>5, <3>1, <4>1, <4>3, TableStays DEF d, v
    <3>2. CASE Decls[at].kind # "const"
      BY <2>1, <2>4, <2>5, <3>2
    <3> QED
      BY <3>1, <3>2
  <2>8. \A i \in DOMAIN Decls : (i < at \/ i = at) /\ Decls[i].kind = "const" => Is(i, nodes'[i].value)
    <3> SUFFICES ASSUME NEW i \in DOMAIN Decls, i < at \/ i = at, Decls[i].kind = "const"
                 PROVE  Is(i, nodes'[i].value)
      OBVIOUS
    <3>1. CASE i = at
      BY <2>6, <3>1 DEF node
    <3>2. CASE i < at
      <4>1. nodes'[i] = nodes[i]
        BY <2>1, <2>3, <3>2
      <4> QED
        BY <2>1, <2>4, <3>2, <4>1 DEF ConstantsAre, Later
    <3> QED
      BY <3>1, <3>2
  <2>9. CASE at < Len(nodes) /\ at' = at + 1 /\ stage' = "constants"
    <3>1. \A i \in DOMAIN Decls : (i >= at' /\ Decls[i].kind = "const") => StillMeans(Known, Decls[i], nodes'[i].value)
      <4> SUFFICES ASSUME NEW i \in DOMAIN Decls, i >= at', Decls[i].kind = "const"
                   PROVE  StillMeans(Known, Decls[i], nodes'[i].value)
        OBVIOUS
      <4>1. i # at /\ i >= at /\ i \in DOMAIN nodes
        BY <2>1, <2>3, <2>9
      <4>2. StillMeans(Known, Decls[i], nodes[i].value)
        BY <2>1, <2>4, <4>1 DEF ConstantsAre, Later
      <4> QED
        BY <2>1, <4>1, <4>2
    <3>2. \A i \in DOMAIN Decls : i < at' => i < at \/ i = at
      BY <2>1, <2>3, <2>9
    <3>3. \A i \in DOMAIN Decls : i < at' /\ Decls[i].kind = "const" => Is(i, nodes'[i].value)
      BY <2>8, <3>2
    <3> QED
      BY <2>7, <2>9, <3>1, <3>3 DEF ConstantsAre, Later
  <2>10. CASE at = Len(nodes) /\ at' = 1 /\ stage' = "types"
    <3>1. \A i \in DOMAIN Decls : i < at \/ i = at
      BY <2>1, <2>3, <2>10
    <3>2. \A i \in DOMAIN Decls : Decls[i].kind = "const" => Is(i, nodes'[i].value)
      BY <2>8, <3>1
    <3> QED
      BY <2>10, <3>2 DEF ConstantsAre, Later
  <2> QED
    BY <2>1, <2>9, <2>10
<1> QED
  BY <1>1, <1>2

LEMMA ConstantsTypes ==
  ASSUME PassesInv, ConstantsOK, ResolveTypes
  PROVE  ConstantsOK'
<1> DEFINE node == Typed(named_types(nodes), nodes[at])
<1>1. stage = "types" /\ outcome = ""
  BY DEF ResolveTypes, Running
<1>2. at \in DOMAIN nodes /\ at \in Nat \ {0}
  BY <1>1 DEF PassesInv, PlacesOK, Passes
<1>3. nodes[at] \in ResolvedNode
  BY <1>1, <1>2 DEF PassesInv, NodesOK
<1>4. CASE Untypable(nodes[at])
  BY <1>4, ConstantsStop DEF ResolveTypes
<1>5. CASE ~Untypable(nodes[at])
  <2>1. /\ nodes' = [nodes EXCEPT ![at] = node]
        /\ Advance(Len(nodes), "map") /\ text' = text
    BY <1>5 DEF ResolveTypes
  <2>2. node.value = nodes[at].value
    BY <1>3, TypedValue
  <2> HIDE DEF node
  <2>3. stage' \in {"types", "map"}
    BY <1>1, <2>1 DEF Advance
  <2>4. Known' = Known /\ Decls' = Decls /\ (KeysUnique' <=> KeysUnique) /\ (Idl' <=> Idl)
    BY <2>1, KnownStays
  <2> SUFFICES ASSUME Idl, KeysUnique
               PROVE  ConstantsAre(Known, Decls, stage', at', nodes', constants')
    BY <2>4 DEF ConstantsOK
  <2>5. ConstantsAre(Known, Decls, stage, at, nodes, constants) /\ DOMAIN nodes = DOMAIN Decls
    BY KnownOK DEF ConstantsOK
  <2>6. \A i \in DOMAIN Decls : nodes'[i].value = nodes[i].value
    BY <1>2, <2>1, <2>2, <2>5
  <2> QED
    BY <1>1, <2>3, <2>5, <2>6 DEF ConstantsAre, Later
<1> QED
  BY <1>4, <1>5

LEMMA ConstantsRest ==
  ASSUME MapOK, ConstantsOK, BuildMap \/ Convert \/ Rename \/ ReadBlocks \/ FixupTypes \/ Compile
  PROVE  ConstantsOK'
<1>1. CASE \E result, why : Stop(result, why)
  BY <1>1, ConstantsStop
<1>2. CASE ~\E result, why : Stop(result, why)
  <2>1. /\ UNCHANGED <<text, nodes, constants>>
        /\ stage' \notin {"parse", "constants"}
        /\ Idl /\ stage' \in Later => stage \in Later
    BY <1>2 DEF MapOK, Later, BuildMap, Convert, Rename, ReadBlocks, FixupTypes, Compile, Running, Advance
  <2>2. Known' = Known /\ Decls' = Decls /\ (KeysUnique' <=> KeysUnique) /\ (Idl' <=> Idl)
    BY <2>1, KnownStays
  <2> QED
    BY <2>1, <2>2 DEF ConstantsOK, ConstantsAre
<1> QED
  BY <1>1, <1>2

LEMMA ConstantsNext ==
  ASSUME PassesInv, MapOK, ConstantsOK, [Next]_vars
  PROVE  ConstantsOK'
<1>1. CASE UNCHANGED vars
  <2>1. UNCHANGED <<text, stage, at, nodes, constants>>
    BY <1>1 DEF vars
  <2> QED
    BY <2>1, KnownStays DEF ConstantsOK
<1>2. CASE Next
  BY <1>2, ConstantsParse, ConstantsResolve, ConstantsTypes, ConstantsRest DEF Next
<1> QED
  BY <1>1, <1>2

\* At every step of every build, constants are worth what the rules say.
LEMMA ConstantsHold == Spec => []ConstantsOK
<1>1. Init => ConstantsOK
  BY ConstantsInit
<1>2. PassesInv /\ MapOK /\ ConstantsOK /\ [Next]_vars => ConstantsOK'
  BY ConstantsNext
<1> QED
  BY <1>1, <1>2, PassesHold, MapHolds, PTL DEF Spec

-----------------------------------------------------------------------------
(* What becomes of a constant, from its declaration to its definition.     *)

\* Every declaration enters its own name.
LEMMA ItemsHead ==
  ASSUME NEW ns \in Seq(ResolvedNode), NEW i \in DOMAIN ns
  PROVE  /\ \E x \in DOMAIN Items(ns, i) : Items(ns, i)[x].name = FullName(ns[i])
         /\ ns[i].kind = "const" => Items(ns, i) = <<Item(ns[i], <<>>)>>
         /\ ns[i].kind = "module" =>
              Items(ns, i) = <<Item(ns[i], Kept(ns, Own(ns, i, i - ns[i].size)))>>
<1> DEFINE node == ns[i]
           enumerators == Enumerators(node)
           own == Kept(ns, Own(ns, i, i - node.size))
           members == [k \in DOMAIN enumerators |-> Item(enumerators[k], <<>>)]
<1>1. Items(ns, i) =
        CASE node.kind = "module" -> <<Item(node, own)>>
          [] node.kind = "enum" -> <<Item(node, enumerators)>> \o members
          [] OTHER -> <<Item(node, <<>>)>>
  BY DEF Items
<1>2. node \in ResolvedNode
  OBVIOUS
<1> HIDE DEF node, own
<1>3. \A c : Item(node, c).name = FullName(node)
  BY DEF Item
<1>4. \A x : DOMAIN <<x>> = {1} /\ <<x>>[1] = x
  OBVIOUS
<1>5. CASE node.kind # "enum"
  <2>1. PICK c : Items(ns, i) = <<Item(node, c)>>
    BY <1>1, <1>5
  <2>2. 1 \in DOMAIN Items(ns, i) /\ Items(ns, i)[1].name = FullName(node)
    BY <1>3, <1>4, <2>1
  <2>3. \E x \in DOMAIN Items(ns, i) : Items(ns, i)[x].name = FullName(node)
    BY <2>2
  <2>4. /\ node.kind = "const" => Items(ns, i) = <<Item(node, <<>>)>>
        /\ node.kind = "module" => Items(ns, i) = <<Item(node, own)>>
    BY <1>1
  <2> QED
    BY <2>3, <2>4 DEF node, own
<1>6. CASE node.kind = "enum"
  <2> DEFINE head == Item(node, enumerators)
             Y == {members[k] : k \in DOMAIN members} \cup {head}
  <2>1. enumerators \in Seq(ConstNode)
    BY <1>2, EnumeratorsType
  <2>2. members \in Seq(Y)
    <3>1. Len(enumerators) \in Nat /\ DOMAIN members = 1..Len(enumerators)
      BY <2>1
    <3> HIDE DEF members, head
    <3>2. members \in [1..Len(enumerators) -> Y]
      <4>1. \A k \in DOMAIN members : members[k] \in Y
        OBVIOUS
      <4>2. members = [k \in DOMAIN members |-> members[k]]
        BY DEF members
      <4> QED
        BY <3>1, <4>1, <4>2
    <3> HIDE DEF Y
    <3> QED
      BY <3>1, <3>2, IsSeq
  <2> HIDE DEF members, enumerators
  <2>3. <<head>> \in Seq(Y)
    <3>1. head \in Y
      OBVIOUS
    <3> HIDE DEF Y, head
    <3> QED
      BY <3>1, SingleSeq
  <2>4. Items(ns, i) = <<head>> \o members
    BY <1>1, <1>6
  <2>5. head.name = FullName(node)
    BY <1>3
  <2> HIDE DEF head, Y
  <2>6. \E x \in DOMAIN (<<head>> \o members) : (<<head>> \o members)[x] = head
    <3> DEFINE a == <<head>>
    <3>1. DOMAIN a = {1} /\ a[1] = head /\ a \in Seq(Y)
      BY <1>4, <2>3
    <3> HIDE DEF a
    <3> DEFINE all == a \o members
    <3>2. HasBoth(all, a, members)
      BY <2>2, <3>1, ConcatHas
    <3> HIDE DEF all
    <3>3. \E x \in DOMAIN all : all[x] = head
      BY <3>1, <3>2 DEF HasBoth
    <3> QED
      BY <3>3 DEF a, all
  <2> QED
    BY <1>6, <2>4, <2>5, <2>6 DEF node
<1> QED
  BY <1>5, <1>6

\* The map is that of the declarations up to here: every item is one of theirs,
\* and each of them has an item of its name, if not its own.
ItemsAre(m, ns, done) ==
  /\ \A k \in DOMAIN m : \E j \in 1..done : \E x \in DOMAIN Items(ns, j) : m[k] = Items(ns, j)[x]
  /\ \A j \in 1..done : \E k \in DOMAIN m : m[k].name = FullName(ns[j])

\* An item that BuildMap adds is one, and leaves the others what they are.
LEMMA ItemsBuild ==
  ASSUME NEW ns \in Seq(ResolvedNode), NEW i \in DOMAIN ns, ns[i].size < i,
         NEW m \in Seq(MapItem), ItemsAre(m, ns, i - 1)
  PROVE  ItemsAre(ByName(m \o Items(ns, i)), ns, i)
<1> DEFINE items == Items(ns, i)
           all == m \o items
           kept == ByName(all)
<1>1. items \in Seq(MapItem)
  BY ItemsType
<1>2. \E x \in DOMAIN items : items[x].name = FullName(ns[i])
  BY ItemsHead
<1>3. i \in Nat /\ \A j \in 1..i : j = i \/ j \in 1..(i - 1)
  OBVIOUS
<1> HIDE DEF items
<1>4. /\ all \in Seq(MapItem)
      /\ \A y \in DOMAIN all : (\E k \in DOMAIN m : all[y] = m[k]) \/ (\E k \in DOMAIN items : all[y] = items[k])
      /\ \A k \in DOMAIN m : \E y \in DOMAIN all : all[y] = m[k]
      /\ \A k \in DOMAIN items : \E y \in DOMAIN all : all[y] = items[k]
  <2>1. HasBoth(all, m, items)
    BY <1>1, ConcatHas
  <2>2. all \in Seq(MapItem)
    BY <1>1, ConcatSeq
  <2> HIDE DEF all
  <2> QED
    BY <2>1, <2>2 DEF HasBoth
<1> HIDE DEF all
<1>5. /\ \A k \in DOMAIN kept : \E y \in DOMAIN all : kept[k] = all[y]
      /\ \A y \in DOMAIN all : \E k \in DOMAIN kept : kept[k].name = all[y].name
  BY <1>4, ByNameHas
<1> HIDE DEF kept
<1>6. ASSUME NEW k \in DOMAIN kept
      PROVE  \E j \in 1..i : \E x \in DOMAIN Items(ns, j) : kept[k] = Items(ns, j)[x]
  <2>1. PICK y \in DOMAIN all : kept[k] = all[y]
    BY <1>5
  <2>2. CASE \E z \in DOMAIN m : all[y] = m[z]
    <3>1. PICK j \in 1..(i - 1) : \E x \in DOMAIN Items(ns, j) : kept[k] = Items(ns, j)[x]
      BY <2>1, <2>2 DEF ItemsAre
    <3>2. j \in 1..i
      BY <1>3
    <3> QED
      BY <3>1, <3>2
  <2>3. CASE \E x \in DOMAIN items : all[y] = items[x]
    <3>1. i \in 1..i
      BY <1>3
    <3> QED
      BY <2>1, <2>3, <3>1 DEF items
  <2> QED
    BY <1>4, <2>2, <2>3
<1>7. ASSUME NEW j \in 1..i
      PROVE  \E k \in DOMAIN kept : kept[k].name = FullName(ns[j])
  <2>1. \E y \in DOMAIN all : all[y].name = FullName(ns[j])
    <3>1. CASE j = i
      BY <1>2, <1>4, <3>1
    <3>2. CASE j \in 1..(i - 1)
      <4>1. \E k \in DOMAIN m : m[k].name = FullName(ns[j])
        BY <3>2 DEF ItemsAre
      <4> QED
        BY <1>4, <4>1
    <3> QED
      BY <1>3, <3>1, <3>2
  <2> QED
    BY <1>5, <2>1
<1>8. ItemsAre(kept, ns, i)
  BY <1>6, <1>7 DEF ItemsAre
<1> QED
  BY <1>8 DEF kept, all, items

\* Every item that has been converted is among the definitions, and when all
\* have been, the constants outside all modules are too.
DefinitionsAre(pass, place, m, ds) ==
  /\ pass \in {"convert", "rename", "compile"} =>
       \A k \in DOMAIN m : (pass = "convert" => k < place) =>
         \A d \in Range(Converted(m, m[k])) :
           (pass = "compile" => d.name \notin Times) => d \in Range(ds)
  /\ (pass \in {"rename", "compile"} /\ m # <<>>) =>
       \A d \in Range(TopLevel(m)) : (pass = "compile" => d.name \notin Times) => d \in Range(ds)

\* What the passes know of the map beyond MapOK: which items are in it, and that
\* every one that has been converted is among the definitions, but for the
\* names that Rename changes.
DefinitionsOK ==
  /\ (Idl /\ stage \in {"map", "convert", "rename", "compile"}) =>
       /\ nodes \in Seq(ResolvedNode)
       /\ ItemsAre(map, nodes, IF stage = "map" THEN at - 1 ELSE Len(nodes))
  /\ DefinitionsAre(stage, at, map, defs)

LEMMA DefinitionsInit ==
  ASSUME Init
  PROVE  DefinitionsOK
<1>1. /\ map = <<>> /\ nodes = text.idl
      /\ Idl /\ stage = "compile" => text.idl = <<>>
      /\ stage \in {"parse", "blocks", "compile"}
  BY DEF Init, Idl
<1>2. DOMAIN map = {}
  BY <1>1
<1>3. DefinitionsAre(stage, at, map, defs)
  BY <1>1, <1>2 DEF DefinitionsAre
<1>4. ItemsAre(<<>>, <<>>, Len(<<>>))
  BY DEF ItemsAre
<1>5. <<>> \in Seq(ResolvedNode)
  BY EmptyIsSeq
<1> QED
  BY <1>1, <1>3, <1>4, <1>5 DEF DefinitionsOK

LEMMA DefinitionsStop ==
  ASSUME DefinitionsOK, NEW result, NEW why, Stop(result, why)
  PROVE  DefinitionsOK'
<1>1. UNCHANGED <<text, stage, at, nodes, map, defs>>
  BY DEF Stop
<1> QED
  BY <1>1 DEF DefinitionsOK, Idl

LEMMA DefinitionsPasses ==
  ASSUME PassesInv, MapOK, DefinitionsOK, Parse \/ ResolveConstants \/ ResolveTypes
  PROVE  DefinitionsOK'
<1>1. stage \in {"parse", "constants", "types"}
  BY DEF Parse, ResolveConstants, ResolveTypes, Running
<1>2. CASE \E result, why : Stop(result, why)
  BY <1>2, DefinitionsStop
<1>3. CASE ~\E result, why : Stop(result, why)
  <2>1. /\ UNCHANGED <<text, map, defs>>
        /\ Advance(Len(nodes), "constants") \/ Advance(Len(nodes), "types") \/ Advance(Len(nodes), "map")
    BY <1>3 DEF Parse, ResolveConstants, ResolveTypes
  <2>2. stage' \in {"parse", "constants", "types", "map"} /\ (stage' = "map" => at' = 1)
    BY <1>1, <2>1 DEF Advance
  <2>3. map = <<>>
    BY <1>1 DEF MapOK
  <2>4. DOMAIN map' = {}
    BY <2>1, <2>3
  <2>5. DefinitionsAre(stage', at', map', defs')
    BY <2>2 DEF DefinitionsAre
  <2>6. \A ns : ItemsAre(map', ns, 1 - 1)
    BY <2>4 DEF ItemsAre
  <2>7. stage' = "map" => nodes' \in Seq(ResolvedNode)
    <3> SUFFICES ASSUME stage' = "map" PROVE nodes' \in Seq(ResolvedNode)
      OBVIOUS
    <3>1. PassesInv'
      BY PassesNext DEF Next
    <3>2. \A i \in DOMAIN nodes' : nodes'[i] \in ResolvedNode
      BY <3>1 DEF PassesInv, NodesOK
    <3>3. nodes' = [i \in DOMAIN text.idl |-> nodes'[i]]
      BY <2>1, <3>1 DEF PassesInv, NodesOK
    <3>4. text.idl \in Seq(WordedNode)
      BY TextType DEF PassesInv
    <3>5. nodes' \in [1..Len(text.idl) -> ResolvedNode] /\ Len(text.idl) \in Nat
      BY <3>2, <3>3, <3>4
    <3> QED
      BY <3>5, IsSeq
  <2> QED
    BY <2>2, <2>5, <2>6, <2>7 DEF DefinitionsOK
<1> QED
  BY <1>2, <1>3

LEMMA DefinitionsBuild ==
  ASSUME PassesInv, MapOK, DefinitionsOK, BuildMap
  PROVE  DefinitionsOK'
<1>1. stage = "map" /\ outcome = ""
  BY DEF BuildMap, Running
<1>2. at \in DOMAIN nodes /\ at \in Nat \ {0}
  BY <1>1 DEF PassesInv, PlacesOK, Passes
<1>3. nodes \in Seq(ResolvedNode) /\ nodes[at].size < at
  <2>1. \A i \in DOMAIN nodes : nodes[i] \in ResolvedNode
    BY <1>1 DEF PassesInv, NodesOK
  <2> QED
    BY <1>2, <2>1, NodesType
<1>4. /\ map' = ByName(map \o Items(nodes, at))
      /\ Advance(Len(nodes), "convert")
      /\ UNCHANGED <<text, nodes, defs>>
  BY DEF BuildMap, build_map
<1>5. DOMAIN nodes = 1..Len(nodes) /\ Len(nodes) \in Nat
  BY NodesType
<1>6. \/ at < Len(nodes) /\ at' = at + 1 /\ stage' = "map"
      \/ at = Len(nodes) /\ at' = 1 /\ stage' = "convert"
  BY <1>1, <1>2, <1>4, <1>5, AdvanceMoves
<1>7. map \in Seq(MapItem)
  BY DEF PassesInv, IdlMap
<1>8. ASSUME Idl PROVE ItemsAre(map', nodes, at)
  <2>1. ItemsAre(map, nodes, at - 1)
    BY <1>1, <1>8 DEF DefinitionsOK
  <2> QED
    BY <1>2, <1>3, <1>4, <1>7, <2>1, ItemsBuild
<1>9. at = (IF stage' = "map" THEN at' - 1 ELSE Len(nodes'))
  BY <1>2, <1>4, <1>6
<1>10. Idl' <=> Idl
  BY <1>4 DEF Idl
<1>11. DefinitionsAre(stage', at', map', defs')
  <2>1. map' \in Seq(MapItem)
    BY <1>2, <1>3, <1>4, <1>7, MapType DEF build_map
  <2>2. \A k \in DOMAIN map' : ~(k < 1)
    BY <2>1
  <2> QED
    BY <1>6, <2>2 DEF DefinitionsAre
<1> QED
  BY <1>3, <1>4, <1>8, <1>9, <1>10, <1>11 DEF DefinitionsOK

LEMMA DefinitionsConvert ==
  ASSUME PassesInv, MapOK, DefinitionsOK, Convert
  PROVE  DefinitionsOK'
<1>1. stage = "convert" /\ outcome = ""
  BY DEF Convert, Running
<1>2. at \in DOMAIN map /\ at \in Nat \ {0}
  BY <1>1 DEF PassesInv, PlacesOK
<1>3. CASE ItemRefusals(map, map[at]) # {}
  BY <1>3, DefinitionsStop DEF Convert
<1>4. CASE ItemRefusals(map, map[at]) = {}
  <2> DEFINE more == Converted(map, map[at])
             top == TopLevel(map)
             last == IF at = Len(map) THEN top ELSE <<>>
  <2>1. /\ defs' = defs \o more \o last
        /\ Advance(Len(map), "rename")
        /\ UNCHANGED <<text, nodes, map>>
    BY <1>4 DEF Convert
  <2>2. IdlMap(map) /\ map \in Seq(MapItem) /\ map[at] \in MapItem /\ defs \in Seq(TypedDefinition)
    BY <1>2 DEF PassesInv, IdlMap
  <2>3. more \in Seq(TypedDefinition) /\ last \in Seq(TypedDefinition)
    BY <2>2, ConvertedType, TopLevelType, EmptyIsSeq
  <2> HIDE DEF more, top
  <2>4. Range(defs) \subseteq Range(defs') /\ Range(more) \subseteq Range(defs')
        /\ Range(last) \subseteq Range(defs')
    <3> HIDE DEF last
    <3> DEFINE both == defs \o more
    <3>1. both \in Seq(TypedDefinition)
      BY <2>2, <2>3, ConcatSeq
    <3>2. HasBoth(both, defs, more)
      BY <2>2, <2>3, ConcatHas
    <3>3. defs' = both \o last
      BY <2>1
    <3> HIDE DEF both
    <3>4. HasBoth(defs', both, last)
      BY <2>3, <3>1, <3>3, ConcatHas
    <3>5. \A all, a, b : HasBoth(all, a, b) => Range(a) \subseteq Range(all) /\ Range(b) \subseteq Range(all)
      BY DEF HasBoth, Range
    <3> QED
      BY <3>2, <3>4, <3>5
  <2>5. DOMAIN map = 1..Len(map) /\ Len(map) \in Nat
    BY <2>2
  <2>6. \/ at < Len(map) /\ at' = at + 1 /\ stage' = "convert"
        \/ at = Len(map) /\ at' = 1 /\ stage' = "rename"
    BY <1>1, <1>2, <2>1, <2>5, AdvanceMoves
  <2>7. ASSUME NEW k \in DOMAIN map, stage' = "convert" => k < at', NEW d \in Range(Converted(map, map[k]))
        PROVE  d \in Range(defs')
    <3>1. k < at \/ k = at
      BY <1>2, <2>5, <2>6, <2>7
    <3>2. CASE k < at
      <4>1. d \in Range(defs)
        BY <1>1, <2>7, <3>2 DEF DefinitionsOK, DefinitionsAre
      <4> QED
        BY <2>4, <4>1
    <3>3. CASE k = at
      BY <2>4, <2>7, <3>3 DEF more
    <3> QED
      BY <3>1, <3>2, <3>3
  <2>8. stage' = "rename" => Range(TopLevel(map)) \subseteq Range(defs')
    BY <2>4, <2>6 DEF top
  <2>9. DefinitionsAre(stage', at', map', defs')
    BY <2>1, <2>6, <2>7, <2>8 DEF DefinitionsAre
  <2>10. Idl => nodes \in Seq(ResolvedNode) /\ ItemsAre(map, nodes, Len(nodes))
    BY <1>1 DEF DefinitionsOK
  <2>11. Idl' <=> Idl
    BY <2>1 DEF Idl
  <2> QED
    BY <2>1, <2>6, <2>9, <2>10, <2>11 DEF DefinitionsOK
<1> QED
  BY <1>3, <1>4

LEMMA DefinitionsRename ==
  ASSUME PassesInv, DefinitionsOK, Rename
  PROVE  DefinitionsOK'
<1>1. /\ stage = "rename" /\ stage' = "compile"
      /\ defs' = [i \in DOMAIN defs |-> Renamed(defs[i])]
      /\ UNCHANGED <<text, nodes, map>>
  BY DEF Rename, Running
<1>2. ASSUME NEW d \in Range(defs), d.name \notin Times PROVE d \in Range(defs')
  <2>1. PICK i \in DOMAIN defs : d = defs[i]
    BY <1>2 DEF Range
  <2>2. Renamed(d) = d
    BY <1>2 DEF Renamed
  <2>3. i \in DOMAIN defs' /\ defs'[i] = d
    BY <1>1, <2>1, <2>2
  <2> QED
    BY <2>3 DEF Range
<1>3. /\ \A k \in DOMAIN map : Range(Converted(map, map[k])) \subseteq Range(defs)
      /\ map # <<>> => Range(TopLevel(map)) \subseteq Range(defs)
  BY <1>1 DEF DefinitionsOK, DefinitionsAre
<1>4. DefinitionsAre(stage', at', map', defs')
  BY <1>1, <1>2, <1>3 DEF DefinitionsAre
<1>5. Idl => nodes \in Seq(ResolvedNode) /\ ItemsAre(map, nodes, Len(nodes))
  BY <1>1 DEF DefinitionsOK
<1>6. Idl' <=> Idl
  BY <1>1 DEF Idl
<1> QED
  BY <1>1, <1>4, <1>5, <1>6 DEF DefinitionsOK

LEMMA DefinitionsBlocks ==
  ASSUME MapOK, DefinitionsOK, ReadBlocks \/ FixupTypes
  PROVE  DefinitionsOK'
<1>1. stage \in {"blocks", "fixup"}
  BY DEF ReadBlocks, FixupTypes, Running
<1>2. CASE \E result, why : Stop(result, why)
  BY <1>2, DefinitionsStop
<1>3. CASE ~\E result, why : Stop(result, why)
  <2>1. UNCHANGED <<text, map>>
    BY <1>1, <1>3 DEF ReadBlocks, FixupTypes
  <2>2. ~Idl /\ map = <<>>
    BY <1>1 DEF MapOK
  <2>3. DOMAIN map' = {} /\ map' = <<>> /\ ~Idl'
    BY <2>1, <2>2 DEF Idl
  <2> QED
    BY <2>3 DEF DefinitionsOK, DefinitionsAre
<1> QED
  BY <1>2, <1>3

LEMMA DefinitionsNext ==
  ASSUME PassesInv, MapOK, DefinitionsOK, [Next]_vars
  PROVE  DefinitionsOK'
<1>1. CASE UNCHANGED vars
  <2>1. UNCHANGED <<text, stage, at, nodes, map, defs>>
    BY <1>1 DEF vars
  <2> QED
    BY <2>1 DEF DefinitionsOK, Idl
<1>2. CASE Compile
  <2>1. UNCHANGED <<text, stage, at, nodes, map, defs>>
    BY <1>2 DEF Compile, Stop
  <2> QED
    BY <2>1 DEF DefinitionsOK, Idl
<1>3. CASE Next /\ ~Compile
  BY <1>3, DefinitionsPasses, DefinitionsBuild, DefinitionsConvert, DefinitionsRename,
     DefinitionsBlocks DEF Next
<1> QED
  BY <1>1, <1>2, <1>3

\* At every step of every build.
LEMMA DefinitionsHold == Spec => []DefinitionsOK
<1>1. Init => DefinitionsOK
  BY DefinitionsInit
<1>2. PassesInv /\ MapOK /\ DefinitionsOK /\ [Next]_vars => DefinitionsOK'
  BY DefinitionsNext
<1> QED
  BY <1>1, <1>2, PassesHold, MapHolds, PTL DEF Spec

\* A constant becomes a definition of its number.
LEMMA ConstantBecomes ==
  ASSUME NEW m, NEW node
  PROVE  LET f == _convert_constant(m, node)
         IN f.name = node.name /\ f.isConstant = TRUE /\ f.value = <<node.value.int>>
<1> DEFINE type == _resolve_typedef(m, node.type).type
           r == Referring(m, type, PlainField(node.name, <<>>))
           value == <<node.value.int>>
           newType == IF IsKind(m, type, {"enum"}) THEN <<"uint32">> ELSE type
           enumType == IF IsKind(m, type, {"enum"}) THEN type ELSE <<>>
           complex == IsKind(m, type, {"struct", "union"})
<1>1. _convert_constant(m, node) = [r EXCEPT !.isConstant = TRUE, !.value = value]
  BY DEF _convert_constant
<1>2. r = [name |-> node.name, type |-> newType, isComplex |-> complex, enumType |-> enumType,
           isArray |-> FALSE, arrayLength |-> <<>>, arrayUpperBound |-> <<>>,
           isConstant |-> FALSE, value |-> <<>>]
  BY ReferringMakes
<1> HIDE DEF r, value, newType, enumType, complex
<1>3. /\ _convert_constant(m, node).name = node.name
      /\ _convert_constant(m, node).isConstant = TRUE
      /\ _convert_constant(m, node).value = value
  BY <1>1, <1>2
<1> QED
  BY <1>3 DEF value

\* A definition that holds constants alone, this one among them.
HasConstant(ds, scope, name, n) ==
  \E i \in DOMAIN ds : \E k \in DOMAIN ds[i].definitions :
    /\ ds[i].name = scope /\ IsConstantModule(ds[i])
    /\ ds[i].definitions[k].name = name
    /\ ds[i].definitions[k].value = <<n>>

\* Constants that are converted make a definition of them.
LEMMA ConstantsMake ==
  ASSUME NEW m, NEW own, NEW k \in DOMAIN own, NEW scope, NEW ds,
         Aggregate(scope, "module", [x \in DOMAIN own |-> _convert_constant(m, own[x])]) \in Range(ds)
  PROVE  HasConstant(ds, scope, own[k].name, own[k].value.int)
<1> DEFINE fields == [x \in DOMAIN own |-> _convert_constant(m, own[x])]
           d == Aggregate(scope, "module", fields)
<1>1. /\ DOMAIN fields = DOMAIN own /\ \A x \in DOMAIN fields : fields[x].isConstant = TRUE
      /\ fields[k].name = own[k].name /\ fields[k].value = <<own[k].value.int>>
  BY ConstantBecomes
<1>2. d \in Range(ds)
  OBVIOUS
<1> HIDE DEF fields
<1>3. d.name = scope /\ d.definitions = fields
  BY DEF Aggregate
<1> HIDE DEF d
<1>4. fields # <<>>
  BY <1>1
<1>5. IsConstantModule(d)
  BY <1>1, <1>3, <1>4 DEF IsConstantModule
<1>6. PICK i \in DOMAIN ds : ds[i] = d
  BY <1>2 DEF Range
<1>7. k \in DOMAIN ds[i].definitions
  BY <1>1, <1>3, <1>6
<1> QED
  BY <1>1, <1>3, <1>5, <1>6, <1>7 DEF HasConstant

\* The only declaration of a name has an item of the map, its own.
LEMMA OwnItem ==
  ASSUME PassesInv, DefinitionsOK, Idl, stage = "compile", NEW j \in DOMAIN text.idl,
         DeclaredOnce(FullName(text.idl[j]))
  PROVE  \E k \in DOMAIN map : /\ map[k].name = FullName(text.idl[j])
                               /\ \E x \in DOMAIN Items(nodes, j) : map[k] = Items(nodes, j)[x]
<1> DEFINE name == FullName(text.idl[j])
<1>1. nodes \in Seq(ResolvedNode) /\ ItemsAre(map, nodes, Len(nodes))
  BY DEF DefinitionsOK
<1>2. /\ DOMAIN nodes = 1..Len(nodes) /\ DOMAIN nodes = DOMAIN text.idl
      /\ \A i \in DOMAIN text.idl : Alike(text.idl[i], nodes[i])
  BY NodesType DEF PassesInv, NodesOK
<1>3. FullName(nodes[j]) = name
  BY <1>2 DEF Alike, FullName
<1> HIDE DEF name
<1>4. PICK k \in DOMAIN map : map[k].name = name
  <2>1. j \in 1..Len(nodes)
    BY <1>2
  <2> QED
    BY <1>1, <1>3, <2>1 DEF ItemsAre
<1>5. PICK i \in 1..Len(nodes) : \E x \in DOMAIN Items(nodes, i) : map[k] = Items(nodes, i)[x]
  BY <1>1 DEF ItemsAre
<1>6. Enters(nodes[i], name)
  BY <1>1, <1>2, <1>4, <1>5, EntersItself
<1>7. Enters(text.idl[i], name)
  BY <1>2, <1>6, AlikeEnters
<1>8. i \in Declaring(name) /\ j \in Declaring(name)
  BY <1>2, <1>7 DEF Declaring, Enters, name
<1>9. i = j
  BY <1>8 DEF DeclaredOnce, name
<1> QED
  BY <1>4, <1>5, <1>9 DEF name

\* A constant outside all modules is kept with its number.
LEMMA TopKept ==
  ASSUME PassesInv, DefinitionsOK, Idl, stage = "compile", NEW i \in DOMAIN text.idl,
         text.idl[i].kind = "const", text.idl[i].scope = <<>>, DeclaredOnce(FullName(text.idl[i]))
  PROVE  HasConstant(defs, <<>>, text.idl[i].name, nodes[i].value.int)
<1> DEFINE S == {j \in DOMAIN map : map[j].node.kind = "const" /\ Len(map[j].name) = 1}
           items == Kept(map, S)
           own == [x \in DOMAIN items |-> items[x].node]
<1>1. nodes \in Seq(ResolvedNode) /\ i \in DOMAIN nodes /\ Alike(text.idl[i], nodes[i])
  BY NodesType DEF DefinitionsOK, PassesInv, NodesOK
<1>2. nodes[i].kind = "const" /\ nodes[i].name = text.idl[i].name
  BY <1>1 DEF Alike
<1>3. PICK k \in DOMAIN map : map[k].name = FullName(text.idl[i]) /\ map[k].node = nodes[i]
  <2>1. PICK k \in DOMAIN map :
          /\ map[k].name = FullName(text.idl[i])
          /\ \E x \in DOMAIN Items(nodes, i) : map[k] = Items(nodes, i)[x]
    BY OwnItem
  <2>2. Items(nodes, i) = <<Item(nodes[i], <<>>)>>
    BY <1>1, <1>2, ItemsHead
  <2>3. map[k] = Item(nodes[i], <<>>)
    BY <2>1, <2>2
  <2>4. map[k].node = nodes[i]
    BY <2>3 DEF Item
  <2> QED
    BY <2>1, <2>4
<1>4. k \in S
  <2>1. \A x : Len(Append(<<>>, x)) = 1
    OBVIOUS
  <2>2. Len(map[k].name) = 1
    BY <1>3, <2>1 DEF FullName
  <2> QED
    BY <1>2, <1>3, <2>2
<1>5. map \in Seq(MapItem) /\ S \subseteq DOMAIN map
  BY DEF PassesInv, IdlMap
<1>6. TopLevel(map) =
        IF items = <<>> THEN <<>>
        ELSE <<Aggregate(<<>>, "module", [x \in DOMAIN items |-> _convert_constant(map, items[x].node)])>>
  BY DEF TopLevel
<1> HIDE DEF S
<1>7. /\ Len(items) = Cardinality(S) /\ items \in Seq(MapItem)
      /\ items # <<>>
      /\ \A y \in 1..Cardinality(S) : items[y] = map[Nth(S, y)]
  BY <1>4, <1>5, KeptType
<1> DEFINE r == Rank(S, k)
<1>8. r \in 1..Cardinality(S) /\ Nth(S, r) = k
  <2>1. Places(S)
    BY <1>5, PlacesInSeq
  <2> QED
    BY <1>4, <2>1, RankRange, RankNth
<1> HIDE DEF items, r
<1>9. r \in DOMAIN items /\ items[r].node = nodes[i]
  BY <1>3, <1>7, <1>8
<1>10. DOMAIN own = DOMAIN items /\ \A x \in DOMAIN items : own[x] = items[x].node
  OBVIOUS
<1>11. [x \in DOMAIN items |-> _convert_constant(map, items[x].node)]
         = [x \in DOMAIN own |-> _convert_constant(map, own[x])]
  BY <1>10
<1> HIDE DEF own
<1> DEFINE fields == [x \in DOMAIN own |-> _convert_constant(map, own[x])]
           d == Aggregate(<<>>, "module", fields)
<1>12. d \in Range(defs)
  <2>1. TopLevel(map) = <<d>>
    BY <1>6, <1>7, <1>11
  <2>2. d.name = <<>>
    BY DEF Aggregate
  <2>3. <<>> \notin Times
    BY DEF Times
  <2> HIDE DEF d
  <2>4. d \in Range(TopLevel(map))
    BY <2>1 DEF Range
  <2>5. map # <<>>
    BY <1>3
  <2> QED
    BY <2>2, <2>3, <2>4, <2>5 DEF DefinitionsOK, DefinitionsAre
<1>13. HasConstant(defs, <<>>, own[r].name, own[r].value.int)
  <2>1. r \in DOMAIN own
    BY <1>9, <1>10
  <2> QED
    BY <1>12, <2>1, ConstantsMake
<1> QED
  BY <1>2, <1>9, <1>10, <1>13

\* A constant of a module is kept in the definition of the module.
LEMMA OwnKept ==
  ASSUME PassesInv, DefinitionsOK, Idl, stage = "compile", NEW i \in DOMAIN text.idl,
         text.idl[i].kind = "const", text.idl[i].scope # <<>>, DeclaredOnce(text.idl[i].scope),
         text.idl[i].scope \notin Times
  PROVE  HasConstant(defs, text.idl[i].scope, text.idl[i].name, nodes[i].value.int)
<1> DEFINE scope == text.idl[i].scope
<1>1. /\ nodes \in Seq(ResolvedNode) /\ DOMAIN nodes = DOMAIN text.idl
      /\ \A j \in DOMAIN text.idl : Alike(text.idl[j], nodes[j])
  BY NodesType DEF DefinitionsOK, PassesInv, NodesOK
<1>2. nodes[i].kind = "const" /\ nodes[i].name = text.idl[i].name /\ nodes[i].scope = scope
  BY <1>1 DEF Alike
<1>3. PICK j \in DOMAIN text.idl : Around(text.idl, i, j)
  BY TextConstants DEF PassesInv
<1>4. /\ text.idl[j].kind = "module" /\ FullName(text.idl[j]) = scope
      /\ i \in (j - text.idl[j].size)..(j - 1)
  BY <1>3 DEF Around
<1>5. /\ nodes[j].kind = "module" /\ FullName(nodes[j]) = scope
      /\ nodes[j].size = text.idl[j].size /\ j \in DOMAIN nodes
  BY <1>1, <1>4 DEF Alike, FullName
<1> DEFINE S == Own(nodes, j, j - nodes[j].size)
           own == Kept(nodes, S)
<1>6. PICK k \in DOMAIN map : map[k].name = scope /\ map[k] = Item(nodes[j], own)
  <2>1. PICK k \in DOMAIN map :
          /\ map[k].name = FullName(text.idl[j])
          /\ \E x \in DOMAIN Items(nodes, j) : map[k] = Items(nodes, j)[x]
    BY <1>4, OwnItem
  <2>2. Items(nodes, j) = <<Item(nodes[j], own)>>
    BY <1>1, <1>5, ItemsHead
  <2> HIDE DEF own
  <2> QED
    BY <1>4, <2>1, <2>2
<1>7. i \in S
  BY <1>2, <1>4, <1>5 DEF Own
<1>8. S \subseteq DOMAIN nodes
  <2>1. nodes[j].size < j /\ j \in Nat /\ DOMAIN nodes = 1..Len(nodes) /\ Len(nodes) \in Nat
    BY <1>5, NodesType
  <2>2. nodes[j].size \in Nat
    <3>1. nodes[j] \in ResolvedNode
      BY <1>1, <1>5
    <3> QED
      BY <3>1, ResolvedTags
  <2> QED
    BY <1>5, <2>1, <2>2 DEF Own
<1> HIDE DEF S
<1>9. /\ Len(own) = Cardinality(S) /\ own \in Seq(ResolvedNode) /\ own # <<>>
      /\ \A y \in 1..Cardinality(S) : own[y] = nodes[Nth(S, y)]
  BY <1>1, <1>7, <1>8, KeptType
<1> DEFINE r == Rank(S, i)
<1>10. r \in 1..Cardinality(S) /\ Nth(S, r) = i
  <2>1. Places(S)
    BY <1>1, <1>8, PlacesInSeq
  <2> QED
    BY <1>7, <2>1, RankRange, RankNth
<1> HIDE DEF own, r, scope
<1>11. r \in DOMAIN own /\ own[r] = nodes[i]
  BY <1>9, <1>10
<1> DEFINE item == map[k]
           fields == [x \in DOMAIN own |-> _convert_constant(map, own[x])]
           d == Aggregate(scope, "module", fields)
<1>12. item.name = scope /\ item.node = nodes[j] /\ item.constants = own
  BY <1>6 DEF Item
<1>13. d \in Range(defs)
  <2>1. Converted(map, item) = <<d>>
    <3>1. fields # <<>>
      BY <1>11
    <3>2. item.node.kind = "module"
      BY <1>5, <1>12
    <3>3. [x \in DOMAIN item.constants |-> _convert_constant(map, item.constants[x])] = fields
      BY <1>12
    <3> HIDE DEF fields, item
    <3> QED
      BY <1>12, <3>1, <3>2, <3>3 DEF Converted
  <2>2. d.name = scope
    BY DEF Aggregate
  <2>3. scope \notin Times
    BY DEF scope
  <2> HIDE DEF d
  <2>4. d \in Range(Converted(map, map[k]))
    BY <2>1 DEF Range
  <2> QED
    BY <2>2, <2>3, <2>4 DEF DefinitionsOK, DefinitionsAre
<1>14. HasConstant(defs, scope, own[r].name, own[r].value.int)
  BY <1>11, <1>13, ConstantsMake
<1> QED
  BY <1>2, <1>11, <1>14 DEF scope

\* For every text whose constants are told apart by the parser's keys: if it is
\* accepted, each constant that the rules give a number is in the definition of
\* its module, or in that of the constants outside all modules, with that number,
\* wherever the constants that it is written with are declared, before it or
\* behind it, in its module or another.  Left out are names that the text
\* declares more than once and the modules whose fields Rename renames.
THEOREM ConstantsKeptHolds == Spec => []ConstantsKept
<1>1. ASSUME PassesInv, ConstantsOK, DefinitionsOK, Ready => stage = "compile"
      PROVE  ConstantsKept
  <2> SUFFICES ASSUME Idl, Ready, KeysUnique, NEW d \in Of(Decls, {"const"}),
                      ~IsFailure(Total(Known, d.value, d.scope)),
                      DeclaredOnce(IF d.scope = <<>> THEN FullName(d) ELSE d.scope),
                      d.scope \notin Times
               PROVE  HasConstant(defs, d.scope, d.name, Total(Known, d.value, d.scope).int)
    BY DEF ConstantsKept, HasConstant
  <2>1. PICK i \in DOMAIN text.idl : d = text.idl[i] /\ text.idl[i].kind = "const"
    BY DEF Of, Decls
  <2> DEFINE v == Total(Known, d.value, d.scope)
  <2>2. v \in NumberValue
    <3>1. d \in DeclarationText /\ Keyed(Known)
      BY <1>1, <2>1, KnownOK DEF Decls
    <3>2. d.value \in ValueText /\ d.scope \in Name
      BY <3>1 DEF DeclarationText
    <3>3. Worth(Known) \in [Known -> Outcome]
      BY <3>1, WorthFixed DEF Keyed
    <3> DEFINE value == d.value
               scope == d.scope
               w == Worth(Known)
    <3>4. v = Summed(Known, value, scope, w)
      BY DEF Total
    <3>5. value \in ValueText /\ scope \in Name /\ w \in [Known -> Outcome]
      BY <3>2, <3>3
    <3>6. ~IsFailure(v)
      OBVIOUS
    <3> HIDE DEF v, value, scope, w
    <3>7. v \in Outcome
      BY <3>4, <3>5, WorthsType, AddedNumbers
    <3> QED
      BY <3>6, <3>7, OutcomeTags
  <2>3. nodes[i].value = v
    <3>1. ConstantsAre(Known, Decls, stage, at, nodes, constants)
      BY <1>1 DEF ConstantsOK
    <3>2. stage \in Later
      BY <1>1 DEF Later
    <3> QED
      BY <2>1, <2>2, <3>1, <3>2 DEF ConstantsAre, Decls
  <2> HIDE DEF v
  <2>4. CASE d.scope = <<>>
    <3>1. HasConstant(defs, <<>>, text.idl[i].name, nodes[i].value.int)
      BY <1>1, <2>1, <2>4, TopKept
    <3> QED
      BY <2>1, <2>3, <2>4, <3>1 DEF v
  <2>5. CASE d.scope # <<>>
    <3>1. HasConstant(defs, text.idl[i].scope, text.idl[i].name, nodes[i].value.int)
      BY <1>1, <2>1, <2>5, OwnKept
    <3> QED
      BY <2>1, <2>3, <3>1 DEF v
  <2> QED
    BY <2>4, <2>5
<1> QED
  BY <1>1, PassesHold, ConstantsHold, DefinitionsHold, ReadyAtEnd, PTL

-----------------------------------------------------------------------------
(* Constants that go in a circle.                                          *)

\* What a sum fails with is its first failure.
LEMMA AddedFirst ==
  ASSUME NEW values \in Seq(Outcome), IsFailure(Added(values))
  PROVE  \E i \in DOMAIN values :
           /\ Added(values) = values[i] /\ IsFailure(values[i])
           /\ \A j \in DOMAIN values : j < i => ~IsFailure(values[j])
<1> DEFINE S == {i \in DOMAIN values : IsFailure(values[i])}
<1>1. Failures(values) = Kept(values, S)
  BY DEF Failures
<1>2. S \subseteq DOMAIN values /\ DOMAIN values \subseteq Int
  OBVIOUS
<1>3. /\ Kept(values, S) = <<>> <=> S = {}
      /\ \A k \in 1..Cardinality(S) : Nth(S, k) \in S /\ Kept(values, S)[k] = values[Nth(S, k)]
      /\ Kept(values, S) \in Seq(Outcome) /\ Len(Kept(values, S)) = Cardinality(S)
  BY <1>2, KeptType
<1>4. Places(S)
  BY <1>2, PlacesInSeq
<1>5. \A i \in DOMAIN values : IsFailure(values[i]) <=> i \in S
  OBVIOUS
<1> HIDE DEF S
<1>6. S # {}
  <2> SUFFICES ASSUME S = {} PROVE FALSE
    OBVIOUS
  <2>1. \A i \in DOMAIN values : values[i] \in NumberValue
    BY <1>5, OutcomeTags
  <2>2. Added(values) \in NumberValue
    BY <2>1, AddedNumbers
  <2> QED
    BY <2>2, FailureType
<1>7. 1 \in 1..Cardinality(S)
  BY <1>3, <1>6
<1> DEFINE first == Nth(S, 1)
<1>8. first \in S /\ Rank(S, first) = 1 /\ Added(values) = values[first]
  <2>1. Added(values) = Kept(values, S)[1]
    BY <1>1, <1>3, <1>6 DEF Added
  <2> QED
    BY <1>3, <1>4, <1>7, <2>1, NthRank
<1> HIDE DEF first
<1>9. ASSUME NEW j \in S, j < first PROVE FALSE
  <2>1. Rank(S, j) < Rank(S, first) /\ Rank(S, j) \in 1..Cardinality(S)
    BY <1>4, <1>8, <1>9, RankIncreases, RankRange
  <2> QED
    BY <1>3, <1>8, <2>1
<1> QED
  BY <1>2, <1>5, <1>8, <1>9

Circle == Failure("circular")

\* What is known at last is settled: no round changes it any more.
Settled(K, w, v) == \A c \in K : w[c] # Circle => v[c] = w[c]

LEMMA CircleTags ==
  Circle \in Outcome /\ Circle \notin NumberValue /\ Circle # Failure("text") /\ Circle # Failure("unknown")
  /\ IsFailure(Circle)
BY UnknownIsOutcome, FailureType DEF Circle, Failure

LEMMA WorthOfSettled ==
  ASSUME NEW K, NEW item \in Atom, NEW scope \in Name, NEW w \in [K -> Outcome],
         NEW v \in [K -> Outcome], Settled(K, w, v), WorthOf(K, item, scope, w) # Circle
  PROVE  WorthOf(K, item, scope, v) = WorthOf(K, item, scope, w)
<1>1. CASE item.tag = "int"
  BY <1>1, WorthOfType
<1>2. CASE item.tag = "str"
  <2>1. \/ \A u : WorthOf(K, item, scope, u) = Failure("unknown")
        \/ \E c \in K, i \in 0..Len(scope) :
             /\ c.full = SubSeq(scope, 1, i) \o item.str
             /\ \A u : WorthOf(K, item, scope, u) = u[c]
    BY <1>2, WorthOfName
  <2> QED
    BY <2>1 DEF Settled
<1> QED
  BY <1>1, <1>2, AtomTags

\* A sum that is settled stays so: what it fails with is settled with the
\* items before it.
LEMMA SummedSettled ==
  ASSUME NEW K, NEW t \in ValueText, NEW scope \in Name, NEW w \in [K -> Outcome],
         NEW v \in [K -> Outcome], Settled(K, w, v), Summed(K, t, scope, w) # Circle
  PROVE  Summed(K, t, scope, v) = Summed(K, t, scope, w)
<1> DEFINE before == Worths(K, t, scope, w)
           after == Worths(K, t, scope, v)
<1>1. /\ before \in Seq(Outcome) /\ DOMAIN before = DOMAIN SumItems(t)
      /\ \A i \in DOMAIN SumItems(t) :
           SumItems(t)[i] \in Atom /\ before[i] = WorthOf(K, SumItems(t)[i], scope, w)
      /\ Summed(K, t, scope, w) = Added(before)
  BY WorthsType
<1>2. /\ after \in Seq(Outcome) /\ DOMAIN after = DOMAIN SumItems(t)
      /\ \A i \in DOMAIN SumItems(t) : after[i] = WorthOf(K, SumItems(t)[i], scope, v)
      /\ Summed(K, t, scope, v) = Added(after)
  BY WorthsType
<1> HIDE DEF before, after
<1>3. \A i \in DOMAIN before : before[i] # Circle => after[i] = before[i]
  <2> TAKE i \in DOMAIN before
  <2> SUFFICES ASSUME before[i] # Circle PROVE after[i] = before[i]
    OBVIOUS
  <2>1. SumItems(t)[i] \in Atom /\ WorthOf(K, SumItems(t)[i], scope, w) # Circle
    BY <1>1
  <2>2. WorthOf(K, SumItems(t)[i], scope, v) = WorthOf(K, SumItems(t)[i], scope, w)
    BY <2>1, WorthOfSettled
  <2> QED
    BY <1>1, <1>2, <2>2
<1>4. /\ Len(before) \in Nat /\ DOMAIN before = 1..Len(before)
      /\ Len(after) \in Nat /\ DOMAIN after = 1..Len(after) /\ DOMAIN after = DOMAIN before
      /\ \A i \in DOMAIN before : before[i] \in Outcome
  BY <1>1, <1>2
<1>5. CASE ~IsFailure(Added(before))
  <2>1. \A i \in DOMAIN before : before[i] \in NumberValue
    BY <1>1, <1>5, AddedNumbers
  <2>2. \A i \in DOMAIN before : after[i] = before[i]
    BY <1>3, <2>1, CircleTags
  <2>3. after = before
    BY <1>1, <1>2, <1>4, <2>2
  <2> QED
    BY <1>1, <1>2, <2>3
<1>6. CASE IsFailure(Added(before))
  <2>1. PICK i \in DOMAIN before :
          /\ Added(before) = before[i] /\ IsFailure(before[i])
          /\ \A j \in DOMAIN before : j < i => ~IsFailure(before[j])
    BY <1>1, <1>6, AddedFirst
  <2>2. after[i] = before[i]
    BY <1>1, <1>3, <2>1
  <2>3. IsFailure(Added(after))
    <3>1. ~(\A k \in DOMAIN after : after[k] \in NumberValue)
      BY <1>4, <2>1, <2>2, FailureType
    <3> QED
      BY <1>2, <3>1, AddedNumbers
  <2>4. PICK k \in DOMAIN after :
          /\ Added(after) = after[k] /\ IsFailure(after[k])
          /\ \A j \in DOMAIN after : j < k => ~IsFailure(after[j])
    BY <1>2, <2>3, AddedFirst
  <2>5. ~(i < k)
    BY <1>4, <2>1, <2>2, <2>4
  <2>6. ~(k < i)
    <3> SUFFICES ASSUME k < i PROVE FALSE
      OBVIOUS
    <3>1. ~IsFailure(before[k]) /\ k \in DOMAIN before
      BY <1>4, <2>1
    <3>2. after[k] = before[k]
      BY <1>3, <3>1, CircleTags
    <3> QED
      BY <2>4, <3>1, <3>2
  <2>7. k = i
    BY <1>4, <2>5, <2>6
  <2> QED
    BY <1>1, <1>2, <2>1, <2>2, <2>4, <2>7
<1> QED
  BY <1>5, <1>6

\* After as many rounds as there are constants all are settled: what a constant
\* is worth is what its text says, with names worth what they are at last.
LEMMA WorthSettled ==
  ASSUME NEW K, ConstantSet(K), NEW c \in K
  PROVE  Worth(K)[c] = IF c.of.value.tag = "str" THEN Failure("text")
                       ELSE Total(K, c.of.value, c.of.scope)
<1> DEFINE N == Cardinality(K)
<1>1. PICK f : /\ f \in [Nat -> Valuations(K)] /\ Worth(K) = f[N]
               /\ \A n \in Nat, e \in K : f[n][e] = Valued(K, n, f[n - 1], e)
  BY WorthSteps
<1>2. \A n \in Nat : f[n] \in [K -> Outcome]
  BY <1>1 DEF Valuations
<1>3. N \in Nat /\ IsFiniteSet(K)
  BY FS_CardinalityType DEF ConstantSet
<1>4. ASSUME NEW n \in Nat, NEW e \in K
      PROVE  f[n + 1][e] = IF e.of.value.tag = "str" THEN Failure("text")
                           ELSE Summed(K, e.of.value, e.of.scope, f[n])
  <2>1. n + 1 \in Nat /\ (n + 1) - 1 = n /\ n + 1 # 0 /\ n + 1 > 0
    OBVIOUS
  <2>2. f[n + 1][e] = Valued(K, n + 1, f[n], e)
    BY <1>1, <2>1
  <2> QED
    BY <2>1, <2>2 DEF Valued
<1>5. \A e \in K : f[0][e] = Circle
  BY <1>1 DEF Valued, Circle
<1> DEFINE S == {n \in Nat : Settled(K, f[n], f[n + 1])}
<1>6. 0 \in S
  BY <1>5 DEF Settled
<1>7. ASSUME NEW n \in Nat, n \in S PROVE n + 1 \in S
  <2> SUFFICES ASSUME NEW e \in K, f[n + 1][e] # Circle PROVE f[n + 2][e] = f[n + 1][e]
    BY DEF Settled
  <2>1. f[n + 2][e] = IF e.of.value.tag = "str" THEN Failure("text")
                      ELSE Summed(K, e.of.value, e.of.scope, f[n + 1])
    <3>1. n + 1 \in Nat /\ (n + 1) + 1 = n + 2
      OBVIOUS
    <3> QED
      BY <1>4, <3>1
  <2>2. f[n] \in [K -> Outcome] /\ f[n + 1] \in [K -> Outcome] /\ Settled(K, f[n], f[n + 1])
    BY <1>2, <1>7
  <2>3. e.of.value \in ValueText /\ e.of.scope \in Name
    BY DEF ConstantSet
  <2> QED
    BY <1>4, <2>1, <2>2, <2>3, SummedSettled
<1> HIDE DEF S
<1>8. \A n \in Nat : Settled(K, f[n], f[n + 1])
  BY <1>6, <1>7, Induct DEF S
<1> DEFINE C(n) == {e \in K : f[n][e] = Circle}
           Done(n) == f[n + 1] = f[n]
           T == {n \in Nat : Done(n) \/ Cardinality(C(n)) + n <= N}
<1>9. \A n \in Nat : C(n) \subseteq K /\ IsFiniteSet(C(n)) /\ Cardinality(C(n)) \in Nat
  <2> TAKE n \in Nat
  <2>1. C(n) \in SUBSET K
    OBVIOUS
  <2> HIDE DEF C
  <2> QED
    BY <1>3, <2>1, FS_Subset, FS_CardinalityType
<1>10. ASSUME NEW n \in Nat PROVE C(n + 1) \subseteq C(n) /\ (C(n + 1) = C(n) => Done(n))
  <2>1. Settled(K, f[n], f[n + 1]) /\ f[n] \in [K -> Outcome] /\ f[n + 1] \in [K -> Outcome]
    BY <1>2, <1>8
  <2>2. C(n + 1) \subseteq C(n)
    BY <2>1 DEF Settled
  <2>3. ASSUME C(n + 1) = C(n) PROVE Done(n)
    <3>1. \A e \in K : f[n + 1][e] = f[n][e]
      <4> TAKE e \in K
      <4>1. CASE f[n][e] # Circle
        BY <2>1, <4>1 DEF Settled
      <4>2. CASE f[n][e] = Circle
        <5>1. e \in C(n)
          BY <4>2
        <5>2. e \in C(n + 1)
          BY <2>3, <5>1
        <5> QED
          BY <4>2, <5>2
      <4> QED
        BY <4>1, <4>2
    <3> QED
      BY <2>1, <3>1
  <2> QED
    BY <2>2, <2>3
<1>11. 0 \in T
  <2>1. C(0) = K
    BY <1>5
  <2> QED
    BY <1>3, <2>1
<1>12. ASSUME NEW n \in Nat, n \in T PROVE n + 1 \in T
  <2>1. CASE Done(n)
    <3>1. \A e \in K : f[n + 2][e] = f[n + 1][e]
      <4>1. n + 1 \in Nat /\ (n + 1) + 1 = n + 2
        OBVIOUS
      <4> QED
        BY <1>4, <2>1, <4>1
    <3>2. f[n + 1] \in [K -> Outcome] /\ f[n + 2] \in [K -> Outcome]
      BY <1>2
    <3>3. f[n + 2] = f[n + 1]
      BY <3>1, <3>2
    <3> QED
      BY <3>3
  <2>2. CASE ~Done(n)
    <3>1. C(n + 1) \subseteq C(n) /\ C(n + 1) # C(n) /\ n + 1 \in Nat
      BY <1>10, <2>2
    <3>2. Cardinality(C(n)) + n <= N
      BY <1>12, <2>2
    <3> HIDE DEF C, Done
    <3>3. Cardinality(C(n + 1)) < Cardinality(C(n))
      <4>1. Cardinality(C(n + 1)) <= Cardinality(C(n))
            /\ (Cardinality(C(n + 1)) = Cardinality(C(n)) => C(n + 1) = C(n))
        BY <1>9, <3>1, FS_Subset
      <4> QED
        BY <1>9, <3>1, <4>1
    <3>4. Cardinality(C(n + 1)) + (n + 1) <= N
      BY <1>3, <1>9, <3>1, <3>2, <3>3
    <3> QED
      BY <3>1, <3>4
  <2> QED
    BY <2>1, <2>2
<1> HIDE DEF T, C
<1>13. N \in T
  BY <1>3, <1>11, <1>12, Induct
<1>14. Done(N)
  <2> SUFFICES ASSUME Cardinality(C(N)) + N <= N PROVE Done(N)
    BY <1>13 DEF T
  <2>1. C(N) = {}
    BY <1>3, <1>9, FS_EmptySet
  <2>2. C(N + 1) = {}
    BY <1>3, <1>10, <2>1
  <2> QED
    BY <1>3, <1>10, <2>1, <2>2
<1>15. f[N + 1][c] = IF c.of.value.tag = "str" THEN Failure("text")
                     ELSE Summed(K, c.of.value, c.of.scope, f[N])
  BY <1>3, <1>4
<1> QED
  BY <1>1, <1>14, <1>15 DEF Total

\* A constant in a circle is written with one, if names are not empty.
LEMMA CircleHasItem ==
  ASSUME NEW K, Keyed(K), NEW t \in ValueText, NEW scope \in Name, <<>> \notin NamesIn(t),
         Total(K, t, scope) = Circle
  PROVE  \E i \in DOMAIN SumItems(t) :
           /\ SumItems(t)[i] \in Atom /\ SumItems(t)[i].tag = "str"
           /\ Meant(K)[SumItems(t)[i]] = Circle
           /\ \E d \in K : Worth(K)[d] = Circle
<1> DEFINE w == Worth(K)
           values == Worths(K, t, scope, w)
<1>1. w \in [K -> Outcome]
  BY WorthFixed DEF Keyed
<1>2. Total(K, t, scope) = Summed(K, t, scope, w)
  BY DEF Total
<1> HIDE DEF w
<1>3. /\ values \in Seq(Outcome) /\ DOMAIN values = DOMAIN SumItems(t)
      /\ \A i \in DOMAIN SumItems(t) :
           SumItems(t)[i] \in Atom /\ values[i] = WorthOf(K, SumItems(t)[i], scope, w)
      /\ Added(values) = Circle
  BY <1>1, <1>2, WorthsType
<1> HIDE DEF values
<1>4. PICK i \in DOMAIN values : values[i] = Circle
  BY <1>3, AddedFirst, CircleTags
<1> DEFINE item == SumItems(t)[i]
<1>5. item \in Atom /\ WorthOf(K, item, scope, w) = Circle
  BY <1>3, <1>4
<1>6. item.tag = "str" => item.str # <<>>
  BY <1>3, <1>4, ItemNamed
<1> HIDE DEF item
<1>7. item.tag = "str"
  <2>1. item.tag = "int" => WorthOf(K, item, scope, w) = item /\ item \in NumberValue
    BY <1>1, <1>5, WorthOfType, AtomTags
  <2> QED
    BY <1>5, <2>1, AtomTags, CircleTags
<1>8. PICK d \in K : LastPart(d.full) = LastPart(item.str) /\ WorthOf(K, item, scope, w) = w[d]
  BY <1>1, <1>5, <1>6, <1>7, NameIsConstant, CircleTags
<1>9. Meant(K)[item] = Circle
  BY <1>5, <1>6, <1>7, <1>8, MeantIs DEF w
<1> QED
  BY <1>3, <1>4, <1>5, <1>7, <1>8, <1>9 DEF item, w

\* What is in one of the sequences is in what is flattened.
LEMMA FlattenHas ==
  ASSUME NEW X, NEW ss \in Seq(Seq(X)), NEW i \in 1..Len(ss), NEW k \in DOMAIN ss[i]
  PROVE  \E j \in DOMAIN FlattenSeq(ss) : FlattenSeq(ss)[j] = ss[i][k]
<1> DEFINE x == ss[i][k]
<1>1. Len(ss) \in Nat /\ Len(ss) # 0
  OBVIOUS
<1>2. PICK f : /\ f \in [1..Len(ss) -> Seq(X)] /\ f[1] = ss[1] /\ FlattenSeq(ss) = f[Len(ss)]
               /\ \A n \in 1..Len(ss) : n # 1 => f[n] = f[n - 1] \o ss[n]
  BY <1>1, FlattenSteps
<1>3. \A n \in 1..Len(ss) : ss[n] \in Seq(X)
  OBVIOUS
<1> DEFINE Has(n) == (n + 1 \in 1..Len(ss) /\ i <= n + 1) =>
                       \E j \in DOMAIN f[n + 1] : f[n + 1][j] = x
           S == {n \in Nat : Has(n)}
<1>4. 0 \in S
  <2>1. i <= 0 + 1 => i = 1 /\ f[0 + 1] = ss[i]
    BY <1>2
  <2> QED
    BY <2>1
<1>5. ASSUME NEW n \in Nat, n \in S PROVE n + 1 \in S
  <2> SUFFICES ASSUME n + 2 \in 1..Len(ss), i <= n + 2
               PROVE  \E j \in DOMAIN f[n + 2] : f[n + 2][j] = x
    <3>1. (n + 1) + 1 = n + 2 /\ n + 1 \in Nat
      OBVIOUS
    <3> QED
      BY <3>1
  <2>1. n + 2 # 1 /\ (n + 2) - 1 = n + 1 /\ n + 1 \in 1..Len(ss)
    BY <1>1
  <2>2. f[n + 2] = f[n + 1] \o ss[n + 2] /\ f[n + 1] \in Seq(X) /\ ss[n + 2] \in Seq(X)
    BY <1>2, <1>3, <2>1
  <2>3. HasBoth(f[n + 2], f[n + 1], ss[n + 2])
    BY <2>2, ConcatHas
  <2>4. CASE i = n + 2
    <3>1. k \in DOMAIN ss[n + 2] /\ ss[n + 2][k] = x
      BY <2>4
    <3> QED
      BY <2>3, <3>1 DEF HasBoth
  <2>5. CASE i <= n + 1
    <3>1. PICK j \in DOMAIN f[n + 1] : f[n + 1][j] = x
      BY <1>5, <2>1, <2>5
    <3> QED
      BY <2>3, <3>1 DEF HasBoth
  <2>6. i = n + 2 \/ i <= n + 1
    OBVIOUS
  <2> QED
    BY <2>4, <2>5, <2>6
<1> HIDE DEF S
<1>6. \A n \in Nat : n \in S
  BY <1>4, <1>5, Induct DEF S
<1>7. Len(ss) - 1 \in Nat /\ (Len(ss) - 1) + 1 = Len(ss) /\ Len(ss) \in 1..Len(ss) /\ i <= Len(ss)
  BY <1>1
<1>8. Has(Len(ss) - 1)
  BY <1>6, <1>7 DEF S
<1> QED
  BY <1>2, <1>7, <1>8

\* A list that is still to be evaluated and that a circle goes through.
Turning(K, value) ==
  value.tag = "list" /\ \E i \in DOMAIN ItemsOf(value) : Meant(K)[ItemsOf(value)[i]] = Circle

\* A table that has no number for what is in a circle.
TableTurns(K, table) ==
  \A c \in K : (c.key \in DOMAIN table /\ Worth(K)[c] = Circle) => Turning(K, table[c.key])

\* A sum with a name in a circle waits, and goes on waiting.
LEMMA SumTurns ==
  ASSUME NEW K, Keyed(K), NEW table, TableMeant(K, table), TableTurns(K, table),
         NEW items \in Seq(Atom), NEW i \in DOMAIN items, Meant(K)[items[i]] = Circle
  PROVE  Turning(K, const_sum(table, items))
<1> DEFINE values == [n \in DOMAIN items |-> Looked(table, items[n])]
           deferred ==
             \E n \in DOMAIN items :
               items[n].tag = "str" /\ (items[n].str \notin DOMAIN table \/ values[n].tag = "list")
           m == Meant(K)
           a == items[i]
<1>1. a \in Atom /\ Len(items) \in Nat /\ DOMAIN items = 1..Len(items)
      /\ \A n \in 1..Len(items) : items[n] \in Atom
  OBVIOUS
<1>2. a.tag = "str"
  BY <1>1, MeantIs, AtomTags, CircleTags
<1>3. /\ a.str \notin DOMAIN table \/ values[i].tag = "list"
      /\ \E k \in DOMAIN ItemsOf(values[i]) : m[ItemsOf(values[i])[k]] = Circle
  <2>1. values[i] = Looked(table, a)
    OBVIOUS
  <2> HIDE DEF values
  <2>2. CASE a.str \notin DOMAIN table
    <3>1. values[i] = a /\ ItemsOf(a) = <<a>>
      BY <1>1, <2>1, <2>2, AtomTags DEF Looked, ItemsOf
    <3>2. DOMAIN <<a>> = {1} /\ <<a>>[1] = a /\ m[a] = Circle
      OBVIOUS
    <3> HIDE DEF a, m
    <3> QED
      BY <2>2, <3>1, <3>2
  <2>3. CASE a.str \in DOMAIN table
    <3>1. PICK c \in K : c.key = a.str
      BY <2>3 DEF TableMeant
    <3>2. Worth(K)[c] = Circle
      BY <1>1, <1>2, <3>1, MeantIs
    <3>3. values[i] = table[c.key]
      BY <1>2, <2>1, <2>3, <3>1 DEF Looked
    <3>4. Turning(K, table[c.key])
      BY <2>3, <3>1, <3>2 DEF TableTurns
    <3> QED
      BY <3>3, <3>4 DEF Turning
  <2> QED
    BY <2>2, <2>3
<1>4. deferred
  BY <1>2, <1>3
<1>5. \A n \in 1..Len(items) : values[n] \in Value /\ ItemsOf(values[n]) \in Seq(Atom)
  <2> TAKE n \in 1..Len(items)
  <2>1. values[n] = Looked(table, items[n])
    BY <1>1
  <2>2. values[n] \in Value
    BY <1>1, <2>1, LookedType DEF TableMeant
  <2> QED
    BY <2>2, ItemsOfType
<1>6. const_sum(table, items) = ListValue(values)
  BY <1>4 DEF const_sum
<1> DEFINE ss == [n \in DOMAIN values |-> ItemsOf(values[n])]
<1>7. DOMAIN values = 1..Len(items)
  BY <1>1
<1>8. ListValue(values) = [tag |-> "list", items |-> FlattenSeq(ss)]
  BY DEF ListValue
<1> HIDE DEF values, deferred
<1>9. ss \in Seq(Seq(Atom)) /\ Len(ss) = Len(items) /\ ss[i] = ItemsOf(values[i])
  <2>1. ss \in [1..Len(items) -> Seq(Atom)]
    BY <1>5, <1>7
  <2>2. ss[i] = ItemsOf(values[i])
    BY <1>1, <1>7
  <2> HIDE DEF ss
  <2> QED
    BY <1>1, <2>1, <2>2, IsSeq
<1> HIDE DEF ss
<1>10. PICK k \in DOMAIN ss[i] : m[ss[i][k]] = Circle
  BY <1>3, <1>9
<1>11. \E j \in DOMAIN FlattenSeq(ss) : FlattenSeq(ss)[j] = ss[i][k]
  BY <1>1, <1>9, FlattenHas
<1>12. ItemsOf(const_sum(table, items)) = FlattenSeq(ss) /\ const_sum(table, items).tag = "list"
  BY <1>6, <1>8 DEF ItemsOf
<1> QED
  BY <1>10, <1>11, <1>12 DEF Turning

\* What the parser makes of a value with one is to be evaluated; a text stays.
LEMMA ParsedTurns ==
  ASSUME NEW K, Keyed(K), NEW table, TableMeant(K, table), TableTurns(K, table),
         NEW t \in ValueText, NEW i \in DOMAIN SumItems(t), Meant(K)[SumItems(t)[i]] = Circle,
         t.tag # "str"
  PROVE  Turning(K, const_value(table, t))
<1>1. CASE t.tag = "sum"
  <2>1. SumItems(t) = t.items /\ t.items \in Seq(Atom) /\ const_value(table, t) = const_sum(table, t.items)
    BY <1>1, SumItemsType DEF SumItems, const_value
  <2> DEFINE items == t.items
  <2>2. /\ items \in Seq(Atom) /\ const_value(table, t) = const_sum(table, items)
        /\ i \in DOMAIN items /\ Meant(K)[items[i]] = Circle
    BY <2>1
  <2> HIDE DEF items
  <2> QED
    BY <2>2, SumTurns
<1>2. CASE t.tag # "sum"
  <2>1. t \in Atom /\ SumItems(t) = <<t>>
    BY <1>2, SumItemsType
  <2>2. SumItems(t)[i] = t
    <3>1. DOMAIN <<t>> = {1} /\ <<t>>[1] = t
      OBVIOUS
    <3> QED
      BY <2>1, <3>1
  <2>3. t.tag = "int" /\ Meant(K)[t] = t /\ t \in NumberValue
    BY <2>1, MeantIs, AtomTags
  <2> QED
    BY <2>2, <2>3, CircleTags
<1> QED
  BY <1>1, <1>2

\* No number comes out of a circle.
LEMMA EvalTurns ==
  ASSUME NEW K, Keyed(K), NEW table, TableMeant(K, table), TableTurns(K, table),
         NEW expr \in Value, Turning(K, expr)
  PROVE  _eval_expr(table, expr) \notin NumberValue
<1> DEFINE m == Meant(K)
<1>1. Table(table)
  BY DEF TableMeant
<1>2. PICK f : /\ EvaluatedAll(table, f)
               /\ LET items == ItemsOf(expr)
                      all == f[Cardinality(DOMAIN table)]
                  IN _eval_expr(table, expr) = Added([i \in DOMAIN items |-> all[<<items[i], {}>>]])
  BY <1>1, EvalSteps
<1> DEFINE Never(n) == \A a \in Atom, seen \in SUBSET Name :
                         m[a] = Circle => f[n][<<a, seen>>] \notin NumberValue
           T == {n \in Nat : Never(n)}
<1>3. /\ \A n \in Nat : f[n] \in Evaluations
      /\ \A n \in Nat, p \in Atom \X SUBSET Name : f[n][p] = Evaluated(table, n, f[n - 1], p)
  BY <1>2 DEF EvaluatedAll
\* One list of items, looked up n times, of which one is in a circle.
<1>4. ASSUME NEW n \in Nat, Never(n), NEW items \in Seq(Atom), NEW seen \in SUBSET Name,
             NEW i \in DOMAIN items, m[items[i]] = Circle
      PROVE  Added([k \in DOMAIN items |-> f[n][<<items[k], seen>>]]) \notin NumberValue
  <2> DEFINE values == [k \in DOMAIN items |-> f[n][<<items[k], seen>>]]
  <2>3. values \in Seq(Outcome) /\ DOMAIN values = DOMAIN items
    BY <1>3, EvaluatedSeq
  <2>4. values[i] \notin NumberValue
    <3>1. values[i] = f[n][<<items[i], seen>>] /\ items[i] \in Atom
      OBVIOUS
    <3> QED
      BY <1>4, <3>1
  <2> HIDE DEF values
  <2>5. IsFailure(Added(values))
    BY <2>3, <2>4, AddedNumbers
  <2>6. Added(values) \notin NumberValue
    BY <2>5, FailureType
  <2> QED
    BY <2>6 DEF values
<1>5. ASSUME NEW n \in Nat, n = 0 \/ Never(n - 1) PROVE Never(n)
  <2> SUFFICES ASSUME NEW a \in Atom, NEW seen \in SUBSET Name, m[a] = Circle
               PROVE  f[n][<<a, seen>>] \notin NumberValue
    OBVIOUS
  <2> DEFINE items == ItemsOf(table[a.str])
             looked == seen \cup {a.str}
             sum == Added([i \in DOMAIN items |-> f[n - 1][<<items[i], looked>>]])
  <2>1. f[n][<<a, seen>>] =
          CASE a.tag = "int" -> a
            [] a.tag = "str" /\ a.str \notin DOMAIN table -> Failure("unknown")
            [] a.tag = "str" /\ a.str \in DOMAIN table /\ (a.str \in seen \/ n = 0) ->
                 Failure("circular")
            [] OTHER -> sum
    <3>1. <<a, seen>> \in Atom \X SUBSET Name /\ <<a, seen>>[1] = a /\ <<a, seen>>[2] = seen
      OBVIOUS
    <3>2. f[n][<<a, seen>>] = Evaluated(table, n, f[n - 1], <<a, seen>>)
      BY <1>3, <3>1
    <3> QED
      BY <3>1, <3>2 DEF Evaluated
  <2> HIDE DEF sum
  <2>2. Failure("unknown") \notin NumberValue /\ Failure("circular") \notin NumberValue
    BY UnknownIsOutcome, FailureType
  <2>3. a.tag = "str"
    BY MeantIs, AtomTags, CircleTags
  <2>4. CASE a.str \in DOMAIN table /\ ~(a.str \in seen \/ n = 0)
    <3>1. f[n][<<a, seen>>] = sum
      BY <2>1, <2>3, <2>4
    <3>2. n - 1 \in Nat /\ Never(n - 1)
      BY <1>5, <2>4
    <3>3. PICK c \in K : c.key = a.str
      BY <2>4 DEF TableMeant
    <3>4. Worth(K)[c] = Circle
      BY <2>3, <3>3, MeantIs
    <3>5. PICK i \in DOMAIN items : m[items[i]] = Circle
      BY <2>4, <3>3, <3>4 DEF TableTurns, Turning
    <3>6. items \in Seq(Atom) /\ looked \in SUBSET Name
      <4>1. table[a.str] \in Value /\ a.str \in Name
        BY <1>1, <2>3, <2>4, AtomTags DEF Table
      <4> QED
        BY <4>1, ItemsOfType
    <3> HIDE DEF items, looked, m, Never
    <3>7. sum = Added([k \in DOMAIN items |-> f[n - 1][<<items[k], looked>>]])
      BY DEF sum, items, looked
    <3> QED
      BY <1>4, <3>1, <3>2, <3>5, <3>6, <3>7
  <2> QED
    BY <2>1, <2>2, <2>3, <2>4
<1> HIDE DEF Never
<1>6. 0 \in T
  BY <1>5
<1>7. ASSUME NEW n \in Nat, n \in T PROVE n + 1 \in T
  <2>1. n + 1 \in Nat /\ (n + 1) - 1 = n /\ Never(n)
    BY <1>7
  <2>2. Never(n + 1)
    BY <1>5, <2>1
  <2> QED
    BY <2>1, <2>2
<1> HIDE DEF T
<1>8. \A n \in Nat : Never(n)
  BY <1>6, <1>7, Induct DEF T
<1> DEFINE items == ItemsOf(expr)
           last == Cardinality(DOMAIN table)
<1>9. last \in Nat /\ items \in Seq(Atom) /\ {} \in SUBSET Name
  BY <1>1, FS_CardinalityType, ItemsOfType DEF Table
<1>10. _eval_expr(table, expr) = Added([i \in DOMAIN items |-> f[last][<<items[i], {}>>]])
  BY <1>2
<1>11. PICK i \in DOMAIN items : m[items[i]] = Circle
  BY DEF Turning
<1> HIDE DEF items, last, m
<1> QED
  BY <1>4, <1>8, <1>9, <1>10, <1>11

\* A text that is evaluated is the name of something in the table.
LEMMA EvalText ==
  ASSUME NEW table, Table(table), NEW t \in Atom, t.tag = "str",
         _eval_expr(table, t) \in NumberValue
  PROVE  t.str \in DOMAIN table
<1> SUFFICES ASSUME t.str \notin DOMAIN table PROVE FALSE
  OBVIOUS
<1> DEFINE last == Cardinality(DOMAIN table)
<1>1. ItemsOf(t) = <<t>> /\ t \in Value
  BY AtomTags DEF ItemsOf, Value
<1>2. PICK f : /\ EvaluatedAll(table, f)
               /\ _eval_expr(table, t) = Added([i \in DOMAIN <<t>> |-> f[last][<<<<t>>[i], {}>>]])
  BY <1>1, EvalSteps
<1>3. last \in Nat /\ <<t, {}>> \in Atom \X SUBSET Name
  BY FS_CardinalityType DEF Table
<1>4. f[last][<<t, {}>>] = Failure("unknown")
  <2>1. f[last][<<t, {}>>] = Evaluated(table, last, f[last - 1], <<t, {}>>)
    BY <1>2, <1>3 DEF EvaluatedAll
  <2>2. <<t, {}>>[1] = t
    OBVIOUS
  <2> HIDE DEF last
  <2> QED
    BY <2>1, <2>2 DEF Evaluated
<1> HIDE DEF last
<1> DEFINE values == [i \in DOMAIN <<t>> |-> f[last][<<<<t>>[i], {}>>]]
<1>5. values \in Seq(Outcome) /\ 1 \in DOMAIN values /\ values[1] = Failure("unknown")
  <2>1. DOMAIN <<t>> = 1..1 /\ <<t>>[1] = t
    OBVIOUS
  <2>2. values = [i \in 1..1 |-> Failure("unknown")]
    BY <1>4, <2>1
  <2>3. Failure("unknown") \in Outcome
    BY UnknownIsOutcome
  <2> HIDE DEF values
  <2>4. values \in [1..1 -> Outcome]
    BY <2>2, <2>3
  <2> QED
    BY <2>2, <2>4, IsSeq
<1> HIDE DEF values
<1>6. IsFailure(Added(values))
  <2>1. values[1] \notin NumberValue
    BY <1>5, UnknownIsOutcome, FailureType
  <2> QED
    BY <1>5, <2>1, AddedNumbers
<1>7. Added(values) \notin NumberValue
  BY <1>6, FailureType
<1> QED
  BY <1>2, <1>7 DEF values

\* A number is in no circle, and a text neither.
LEMMA CircleIsSum ==
  ASSUME NEW K, Keyed(K), NEW c \in K, c.of.value \in ValueText, <<>> \notin NamesIn(c.of.value),
         Worth(K)[c] = Circle
  PROVE  /\ c.of.value.tag \notin {"int", "str"}
         /\ \E i \in DOMAIN SumItems(c.of.value) : Meant(K)[SumItems(c.of.value)[i]] = Circle
<1> DEFINE t == c.of.value
           scope == c.of.scope
<1>1. t.tag # "str" /\ Total(K, t, scope) = Circle /\ scope \in Name
  <2>1. ConstantSet(K)
    BY DEF Keyed
  <2>2. Worth(K)[c] = IF t.tag = "str" THEN Failure("text") ELSE Total(K, t, scope)
    BY <2>1, WorthSettled
  <2> QED
    BY <2>1, <2>2, CircleTags DEF ConstantSet
<1>2. t \in ValueText /\ <<>> \notin NamesIn(t)
  OBVIOUS
<1> HIDE DEF t, scope
<1>3. PICK i \in DOMAIN SumItems(t) : /\ SumItems(t)[i].tag = "str"
                                      /\ Meant(K)[SumItems(t)[i]] = Circle
  BY <1>1, <1>2, CircleHasItem
<1>4. t.tag # "int"
  <2> SUFFICES ASSUME t.tag = "int" PROVE FALSE
    OBVIOUS
  <2>1. SumItems(t) = <<t>> /\ DOMAIN <<t>> = {1} /\ <<t>>[1] = t
    BY DEF SumItems
  <2> QED
    BY <1>3, <2>1
<1> QED
  BY <1>1, <1>3, <1>4 DEF t

\* Registering keeps the table without numbers for circles.
LEMMA RegisteredTurns ==
  ASSUME NEW decls \in Seq(DeclarationText), Keyed(AllConstants(decls)),
         NEW i \in DOMAIN decls, NEW node, Alike(decls[i], node),
         NEW table, TableTurns(AllConstants(decls), table),
         LET K == AllConstants(decls)
         IN node.kind = "const" => (Worth(K)[ConstOf(decls[i])] = Circle => Turning(K, node.value))
  PROVE  TableTurns(AllConstants(decls), Registered(table, node))
<1> DEFINE K == AllConstants(decls)
           r == Registered(table, node)
           new == Entries(node)
<1> SUFFICES ASSUME NEW c \in K, c.key \in DOMAIN r, Worth(K)[c] = Circle
             PROVE  Turning(K, r[c.key])
  BY DEF TableTurns
<1>1. /\ DOMAIN r = DOMAIN table \cup DOMAIN new
      /\ \A n \in DOMAIN new : r[n] = new[n]
      /\ \A n \in DOMAIN table \ DOMAIN new : r[n] = table[n]
  BY RegisteredIs
<1>2. \A e, g \in K : e.key = g.key => e = g
  BY DEF Keyed
<1> HIDE DEF r
<1>3. CASE c.key \in DOMAIN new
  <2>1. PICK e \in K :
          /\ e.key = c.key
          /\ \/ node.kind = "const" /\ e = ConstOf(decls[i]) /\ new[c.key] = node.value
             \/ e.of.value \in ValueText /\ e.of.value.tag = "int" /\ new[c.key] = e.of.value
    BY <1>3, EntriesKeyed
  <2>2. e = c
    BY <1>2, <2>1
  <2>3. ~(e.of.value \in ValueText /\ e.of.value.tag = "int")
    <3> SUFFICES ASSUME c.of.value \in ValueText, c.of.value.tag = "int" PROVE FALSE
      BY <2>2
    <3>1. <<>> \notin NamesIn(c.of.value)
      BY DEF NamesIn
    <3> HIDE DEF K
    <3> QED
      BY <3>1, CircleIsSum DEF K
  <2> QED
    BY <1>1, <1>3, <2>1, <2>2, <2>3
<1>4. CASE c.key \notin DOMAIN new
  BY <1>1, <1>4 DEF TableTurns
<1> QED
  BY <1>3, <1>4

-----------------------------------------------------------------------------
(* Circles through the passes.                                             *)

\* A constant that is not evaluated yet: in a circle it waits to be, and a text
\* is what was written.
Unread(K, d, value) ==
  /\ Worth(K)[ConstOf(d)] = Circle => Turning(K, value)
  /\ d.value.tag = "str" => value = d.value

\* One that is evaluated is in none, and a text says another constant's name.
Acceptable(K, d) ==
  /\ Worth(K)[ConstOf(d)] # Circle
  /\ d.value.tag = "str" => \E c \in K : c.key = d.value.str

\* What becomes of circles in the course of the passes.
CirclesAre(K, decls, pass, place, ns, table) ==
  /\ pass \in {"parse", "constants"} => TableTurns(K, table)
  /\ \A i \in DOMAIN decls :
       decls[i].kind = "const" =>
         /\ ((pass = "parse" /\ i < place) \/ (pass = "constants" /\ i >= place)) =>
              Unread(K, decls[i], ns[i].value)
         /\ ((pass = "constants" /\ i < place) \/ pass \in Later) => Acceptable(K, decls[i])

CirclesOK == (Idl /\ KeysUnique) => CirclesAre(Known, Decls, stage, at, nodes, constants)

\* A value that the parser accepts is still to be evaluated.
LEMMA ParsedUnread ==
  ASSUME NEW K, Keyed(K), NEW table, TableMeant(K, table), TableTurns(K, table),
         NEW d \in DeclarationText, ConstOf(d) \in K, <<>> \notin NamesIn(d.value)
  PROVE  Unread(K, d, const_value(table, d.value))
<1> DEFINE t == d.value
           c == ConstOf(d)
<1>1. c.of = d /\ t \in ValueText
  BY ConstantParts DEF DeclarationText
<1>2. ASSUME Worth(K)[c] = Circle PROVE Turning(K, const_value(table, t))
  <2>1. c.of.value \in ValueText /\ <<>> \notin NamesIn(c.of.value) /\ c \in K
    BY <1>1
  <2> HIDE DEF c
  <2>2. /\ c.of.value.tag \notin {"int", "str"}
        /\ \E i \in DOMAIN SumItems(c.of.value) : Meant(K)[SumItems(c.of.value)[i]] = Circle
    BY <1>2, <2>1, CircleIsSum
  <2>3. t.tag # "str" /\ \E i \in DOMAIN SumItems(t) : Meant(K)[SumItems(t)[i]] = Circle
    BY <1>1, <2>2
  <2> HIDE DEF t
  <2> QED
    BY <1>1, <2>3, ParsedTurns
<1>3. t.tag = "str" => const_value(table, t) = t
  BY DEF const_value
<1> QED
  BY <1>2, <1>3 DEF Unread

\* One that is evaluated to a number was none in a circle.
LEMMA EvaluatedAcceptable ==
  ASSUME NEW K, Keyed(K), NEW table, TableMeant(K, table), TableTurns(K, table), NEW d,
         NEW value \in Value, Unread(K, d, value), d.value \in ValueText,
         _eval_expr(table, value) \in NumberValue
  PROVE  Acceptable(K, d)
<1>1. Worth(K)[ConstOf(d)] # Circle
  BY EvalTurns DEF Unread
<1>2. ASSUME d.value.tag = "str" PROVE \E c \in K : c.key = d.value.str
  <2> DEFINE t == d.value
  <2>1. value = t /\ t \in Atom /\ t.tag = "str" /\ Table(table)
    BY <1>2 DEF Unread, TableMeant, ValueText
  <2>2. t.str \in DOMAIN table
    BY <2>1, EvalText
  <2> QED
    BY <2>2 DEF TableMeant
<1> QED
  BY <1>1, <1>2 DEF Acceptable

LEMMA CirclesInit ==
  ASSUME Init
  PROVE  CirclesOK
<1>1. /\ at = 1 /\ constants = <<>> /\ stage \in {"parse", "blocks", "compile"}
  BY DEF Init
<1>2. PassesInv
  BY PassesInit
<1> SUFFICES ASSUME Idl, KeysUnique PROVE CirclesAre(Known, Decls, stage, at, nodes, constants)
  BY DEF CirclesOK
<1>3. TableTurns(Known, constants)
  BY <1>1 DEF TableTurns
<1>4. \A i \in DOMAIN Decls : i \in Nat \ {0}
  <2>1. Decls \in Seq(DeclarationText)
    BY <1>2, KnownOK
  <2> QED
    BY <2>1
<1>5. stage = "parse" \/ DOMAIN Decls = {}
  <2>1. stage # "parse" => Decls = <<>>
    BY DEF Init, Idl, Decls
  <2> QED
    BY <2>1
<1> QED
  BY <1>1, <1>3, <1>4, <1>5 DEF CirclesAre, Later

LEMMA CirclesStop ==
  ASSUME CirclesOK, NEW result, NEW why, Stop(result, why)
  PROVE  CirclesOK'
<1>1. UNCHANGED <<text, stage, at, nodes, constants>>
  BY DEF Stop
<1>2. Known' = Known /\ Decls' = Decls /\ (KeysUnique' <=> KeysUnique) /\ (Idl' <=> Idl)
  BY <1>1, KnownStays
<1> QED
  BY <1>1, <1>2 DEF CirclesOK

LEMMA CirclesParse ==
  ASSUME PassesInv, ConstantsOK, CirclesOK, Parse
  PROVE  CirclesOK'
<1>1. CASE \E result, why : Stop(result, why)
  BY <1>1, CirclesStop
<1>2. CASE ~\E result, why : Stop(result, why)
  <2> DEFINE node == nodes'[at]
  <2>1. /\ stage = "parse" /\ at \in DOMAIN nodes /\ at \in Nat \ {0} /\ text' = text
        /\ DOMAIN nodes = 1..Len(nodes) /\ Len(nodes) \in Nat
        /\ \/ at < Len(nodes) /\ at' = at + 1 /\ stage' = "parse"
           \/ at = Len(nodes) /\ at' = 1 /\ stage' = "constants"
        /\ \A i \in DOMAIN nodes : i # at => nodes'[i] = nodes[i]
        /\ Alike(nodes[at], node) /\ node.value = const_value(constants, nodes[at].value)
        /\ constants' = Registered(constants, node)
    BY <1>2, ParseStep
  <2> HIDE DEF node
  <2>2. Known' = Known /\ Decls' = Decls /\ (KeysUnique' <=> KeysUnique) /\ (Idl' <=> Idl)
    BY <2>1, KnownStays
  <2> SUFFICES ASSUME Idl, KeysUnique
               PROVE  CirclesAre(Known, Decls, stage', at', nodes', constants')
    BY <2>2 DEF CirclesOK
  <2>3. /\ Keyed(Known) /\ Known = AllConstants(Decls) /\ Decls \in Seq(DeclarationText)
        /\ \A i \in DOMAIN Decls : Decls[i] \in DeclarationText /\ <<>> \notin NamesIn(Decls[i].value)
        /\ DOMAIN nodes = DOMAIN Decls
        /\ \A i \in DOMAIN Decls : Alike(Decls[i], nodes[i]) /\ i \in Nat
    BY KnownOK
  <2>4. CirclesAre(Known, Decls, stage, at, nodes, constants) /\ TableTurns(Known, constants)
    BY <2>1 DEF CirclesOK, CirclesAre
  <2>5. TableMeant(Known, constants) /\ nodes[at].value = Decls[at].value
    <3>1. at \in DOMAIN Decls /\ at >= at
      BY <2>1, <2>3
    <3>2. ConstantsAre(Known, Decls, stage, at, nodes, constants)
      BY DEF ConstantsOK
    <3> QED
      BY <2>1, <3>1, <3>2 DEF ConstantsAre
  <2>6. Alike(Decls[at], node) /\ node.kind = Decls[at].kind
    <3>1. Alike(Decls[at], nodes[at])
      BY <2>1, <2>3
    <3> QED
      BY <2>1, <3>1 DEF Alike
  <2>7. Decls[at].kind = "const" => Unread(Known, Decls[at], node.value)
    <3> SUFFICES ASSUME Decls[at].kind = "const" PROVE Unread(Known, Decls[at], node.value)
      OBVIOUS
    <3> DEFINE d == Decls[at]
    <3>1. d \in DeclarationText /\ <<>> \notin NamesIn(d.value) /\ ConstOf(d) \in Known
      BY <2>1, <2>3, KnownForms
    <3>2. node.value = const_value(constants, d.value)
      BY <2>1, <2>5
    <3> HIDE DEF d
    <3>3. Unread(Known, d, const_value(constants, d.value))
      BY <2>3, <2>4, <2>5, <3>1, ParsedUnread
    <3> QED
      BY <3>2, <3>3 DEF d
  <2>8. TableTurns(Known, constants')
    <3>1. node.kind = "const" => (Worth(Known)[ConstOf(Decls[at])] = Circle => Turning(Known, node.value))
      BY <2>6, <2>7 DEF Unread
    <3> QED
      BY <2>1, <2>3, <2>4, <2>6, <3>1, RegisteredTurns
  <2>9. \A i \in DOMAIN Decls :
          i < at \/ i = at => (Decls[i].kind = "const" => Unread(Known, Decls[i], nodes'[i].value))
    <3> TAKE i \in DOMAIN Decls
    <3>1. CASE i = at
      BY <2>7, <3>1 DEF node
    <3>2. CASE i < at
      <4>1. nodes'[i] = nodes[i]
        BY <2>1, <2>3, <3>2
      <4> QED
        BY <2>1, <2>4, <3>2, <4>1 DEF CirclesAre, Later
    <3> QED
      BY <3>1, <3>2
  <2>10. CASE at < Len(nodes) /\ at' = at + 1 /\ stage' = "parse"
    <3>1. \A i \in DOMAIN Decls : i < at' => i < at \/ i = at
      BY <2>1, <2>3, <2>10
    <3> QED
      BY <2>8, <2>9, <2>10, <3>1 DEF CirclesAre, Later
  <2>11. CASE at = Len(nodes) /\ at' = 1 /\ stage' = "constants"
    <3>1. \A i \in DOMAIN Decls : (i < at \/ i = at) /\ ~(i < at')
      BY <2>1, <2>3, <2>11
    <3> QED
      BY <2>8, <2>9, <2>11, <3>1 DEF CirclesAre, Later
  <2> QED
    BY <2>1, <2>10, <2>11
<1> QED
  BY <1>1, <1>2

LEMMA CirclesResolve ==
  ASSUME PassesInv, ConstantsOK, CirclesOK, ResolveConstants
  PROVE  CirclesOK'
<1>1. CASE \E result, why : Stop(result, why)
  BY <1>1, CirclesStop
<1>2. CASE ~\E result, why : Stop(result, why)
  <2> DEFINE node == nodes'[at]
  <2>1. /\ stage = "constants" /\ at \in DOMAIN nodes /\ at \in Nat \ {0} /\ text' = text
        /\ DOMAIN nodes = 1..Len(nodes) /\ Len(nodes) \in Nat
        /\ \/ at < Len(nodes) /\ at' = at + 1 /\ stage' = "constants"
           \/ at = Len(nodes) /\ at' = 1 /\ stage' = "types"
        /\ \A i \in DOMAIN nodes : i # at => nodes'[i] = nodes[i]
        /\ Alike(nodes[at], node) /\ nodes[at].value \in Value
        /\ nodes[at].kind = "const" =>
             /\ node.value = _eval_expr(constants, nodes[at].value) /\ node.value \in NumberValue
             /\ constants' = Registered(constants, node)
        /\ nodes[at].kind # "const" => constants' = constants
    BY <1>2, ResolveStep
  <2> HIDE DEF node
  <2>2. Known' = Known /\ Decls' = Decls /\ (KeysUnique' <=> KeysUnique) /\ (Idl' <=> Idl)
    BY <2>1, KnownStays
  <2> SUFFICES ASSUME Idl, KeysUnique
               PROVE  CirclesAre(Known, Decls, stage', at', nodes', constants')
    BY <2>2 DEF CirclesOK
  <2>3. /\ Keyed(Known) /\ Known = AllConstants(Decls) /\ Decls \in Seq(DeclarationText)
        /\ DOMAIN nodes = DOMAIN Decls
        /\ \A i \in DOMAIN Decls : Decls[i] \in DeclarationText /\ Alike(Decls[i], nodes[i]) /\ i \in Nat
    BY KnownOK
  <2>4. CirclesAre(Known, Decls, stage, at, nodes, constants) /\ TableTurns(Known, constants)
    BY <2>1 DEF CirclesOK, CirclesAre
  <2>5. TableMeant(Known, constants)
    BY <2>1 DEF ConstantsOK, ConstantsAre
  <2>6. Alike(Decls[at], node) /\ Decls[at].kind = nodes[at].kind /\ node.kind = nodes[at].kind
    <3>1. Alike(Decls[at], nodes[at])
      BY <2>1, <2>3
    <3> QED
      BY <2>1, <3>1 DEF Alike
  <2>7. Decls[at].kind = "const" => Acceptable(Known, Decls[at])
    <3> SUFFICES ASSUME Decls[at].kind = "const" PROVE Acceptable(Known, Decls[at])
      OBVIOUS
    <3> DEFINE d == Decls[at]
               value == nodes[at].value
    <3>1. Unread(Known, d, value)
      <4>1. at \in DOMAIN Decls /\ at >= at
        BY <2>1, <2>3
      <4> QED
        BY <2>1, <2>4, <4>1 DEF CirclesAre, Later
    <3>2. value \in Value /\ _eval_expr(constants, value) \in NumberValue
      BY <2>1, <2>6
    <3>3. d.value \in ValueText
      BY <2>1, <2>3 DEF DeclarationText
    <3> HIDE DEF d, value
    <3>4. Acceptable(Known, d)
      BY <2>3, <2>4, <2>5, <3>1, <3>2, <3>3, EvaluatedAcceptable
    <3> QED
      BY <3>4 DEF d
  <2>8. TableTurns(Known, constants')
    <3>1. CASE Decls[at].kind = "const"
      <4>1. Worth(Known)[ConstOf(Decls[at])] = Circle => Turning(Known, node.value)
        BY <2>7, <3>1 DEF Acceptable
      <4> QED
        BY <2>1, <2>3, <2>4, <2>6, <3>1, <4>1, RegisteredTurns
    <3>2. CASE Decls[at].kind # "const"
      BY <2>1, <2>4, <2>6, <3>2
    <3> QED
      BY <3>1, <3>2
  <2>9. \A i \in DOMAIN Decls : (i < at \/ i = at) /\ Decls[i].kind = "const" => Acceptable(Known, Decls[i])
    BY <2>1, <2>4, <2>7 DEF CirclesAre, Later
  <2>10. CASE at < Len(nodes) /\ at' = at + 1 /\ stage' = "constants"
    <3>1. \A i \in DOMAIN Decls : (i >= at' /\ Decls[i].kind = "const") => Unread(Known, Decls[i], nodes'[i].value)
      <4> SUFFICES ASSUME NEW i \in DOMAIN Decls, i >= at', Decls[i].kind = "const"
                   PROVE  Unread(Known, Decls[i], nodes'[i].value)
        OBVIOUS
      <4>1. i # at /\ i >= at /\ i \in DOMAIN nodes
        BY <2>1, <2>3, <2>10
      <4>2. Unread(Known, Decls[i], nodes[i].value)
        BY <2>1, <2>4, <4>1 DEF CirclesAre, Later
      <4> QED
        BY <2>1, <4>1, <4>2
    <3>2. \A i \in DOMAIN Decls : i < at' => i < at \/ i = at
      BY <2>1, <2>3, <2>10
    <3> QED
      BY <2>8, <2>9, <2>10, <3>1, <3>2 DEF CirclesAre, Later
  <2>11. CASE at = Len(nodes) /\ at' = 1 /\ stage' = "types"
    <3>1. \A i \in DOMAIN Decls : i < at \/ i = at
      BY <2>1, <2>3, <2>11
    <3> QED
      BY <2>9, <2>11, <3>1 DEF CirclesAre, Later
  <2> QED
    BY <2>1, <2>10, <2>11
<1> QED
  BY <1>1, <1>2

LEMMA CirclesRest ==
  ASSUME MapOK, CirclesOK, ResolveTypes \/ BuildMap \/ Convert \/ Rename \/ ReadBlocks \/ FixupTypes \/ Compile
  PROVE  CirclesOK'
<1>1. CASE \E result, why : Stop(result, why)
  BY <1>1, CirclesStop
<1>2. CASE ~\E result, why : Stop(result, why)
  <2>1. /\ text' = text /\ stage' \notin {"parse", "constants"}
        /\ Idl /\ stage' \in Later => stage \in Later
    BY <1>2 DEF MapOK, Later, ResolveTypes, BuildMap, Convert, Rename, ReadBlocks, FixupTypes, Compile, Running, Advance
  <2>2. Known' = Known /\ Decls' = Decls /\ (KeysUnique' <=> KeysUnique) /\ (Idl' <=> Idl)
    BY <2>1, KnownStays
  <2> QED
    BY <2>1, <2>2 DEF CirclesOK, CirclesAre
<1> QED
  BY <1>1, <1>2

LEMMA CirclesNext ==
  ASSUME PassesInv, MapOK, ConstantsOK, CirclesOK, [Next]_vars
  PROVE  CirclesOK'
<1>1. CASE UNCHANGED vars
  <2>1. UNCHANGED <<text, stage, at, nodes, constants>>
    BY <1>1 DEF vars
  <2> QED
    BY <2>1, KnownStays DEF CirclesOK
<1>2. CASE Next
  BY <1>2, CirclesParse, CirclesResolve, CirclesRest DEF Next
<1> QED
  BY <1>1, <1>2

\* At every step of every build, what is in a circle has no number.
LEMMA CirclesHold == Spec => []CirclesOK
<1>1. Init => CirclesOK
  BY CirclesInit
<1>2. PassesInv /\ MapOK /\ ConstantsOK /\ CirclesOK /\ [Next]_vars => CirclesOK'
  BY CirclesNext
<1> QED
  BY <1>1, <1>2, PassesHold, MapHolds, ConstantsHold, PTL DEF Spec

\* For every text whose constants are told apart by the parser's keys: if it is
\* accepted, none of its constants needs itself, through however many others,
\* and a text constant says the name of a constant, for which it was taken.
THEOREM CirclesRefusedHolds == Spec => []CirclesRefused
<1>1. ASSUME PassesInv, CirclesOK, Ready => stage = "compile"
      PROVE  CirclesRefused
  <2> SUFFICES ASSUME Idl, Ready, KeysUnique
               PROVE  /\ ~Circular
                      /\ \A c \in Known : c.of.value.tag = "str" =>
                           \E named \in Known : named.key = c.of.value.str
    BY DEF CirclesRefused
  <2>1. /\ Keyed(Known) /\ Known = AllConstants(Decls) /\ Decls \in Seq(DeclarationText)
        /\ \A i \in DOMAIN Decls : Decls[i] \in DeclarationText /\ <<>> \notin NamesIn(Decls[i].value)
    BY <1>1, KnownOK
  <2>2. \A i \in DOMAIN Decls : Decls[i].kind = "const" => Acceptable(Known, Decls[i])
    BY <1>1 DEF CirclesOK, CirclesAre, Later
  <2>3. ASSUME NEW c \in Known
        PROVE  \/ \E i \in DOMAIN Decls : Decls[i].kind = "const" /\ c = ConstOf(Decls[i]) /\ c.of = Decls[i]
               \/ c.of.value \in ValueText /\ c.of.value.tag = "int"
    <3>1. PICK i \in DOMAIN Decls :
            \/ Decls[i].kind = "const" /\ c = ConstOf(Decls[i])
            \/ \E k \in DOMAIN Decls[i].members :
                 \/ c = ShortOf(Decls[i], Enumerators(Decls[i])[k])
                 \/ c = LongOf(Decls[i], Enumerators(Decls[i])[k])
      BY <2>1, KnownForms
    <3>2. CASE Decls[i].kind = "const" /\ c = ConstOf(Decls[i])
      BY <2>1, <3>2, ConstantParts
    <3>3. CASE \E k \in DOMAIN Decls[i].members :
                 \/ c = ShortOf(Decls[i], Enumerators(Decls[i])[k])
                 \/ c = LongOf(Decls[i], Enumerators(Decls[i])[k])
      <4>1. PICK k \in DOMAIN Decls[i].members :
              \/ c = ShortOf(Decls[i], Enumerators(Decls[i])[k])
              \/ c = LongOf(Decls[i], Enumerators(Decls[i])[k])
        BY <3>3
      <4>2. c.of.value \in ValueText /\ c.of.value.tag = "int"
        BY <2>1, <4>1, EnumeratorParts
      <4> QED
        BY <4>2
    <3> QED
      BY <3>1, <3>2, <3>3
  <2>4. ASSUME NEW c \in Known
        PROVE  c.of.value \in ValueText /\ <<>> \notin NamesIn(c.of.value) /\ c.of.scope \in Name
    <3>1. CASE \E i \in DOMAIN Decls : c.of = Decls[i]
      BY <2>1, <3>1 DEF DeclarationText, Keyed, ConstantSet
    <3>2. CASE c.of.value \in ValueText /\ c.of.value.tag = "int"
      BY <2>1, <3>2 DEF NamesIn, Keyed, ConstantSet
    <3> QED
      BY <2>3, <3>1, <3>2
  <2>5. ASSUME NEW c \in Known PROVE Worth(Known)[c] # Circle
    <3>1. CASE \E i \in DOMAIN Decls : Decls[i].kind = "const" /\ c = ConstOf(Decls[i])
      BY <2>2, <3>1 DEF Acceptable
    <3>2. CASE c.of.value.tag = "int"
      BY <2>1, <2>4, <3>2, CircleIsSum
    <3> QED
      BY <2>3, <3>1, <3>2
  <2>6. ~Circular
    <3> SUFFICES ASSUME NEW c \in Known, Total(Known, c.of.value, c.of.scope) = Circle PROVE FALSE
      BY DEF Circular, Circle
    <3> DEFINE t == c.of.value
               scope == c.of.scope
    <3>1. t \in ValueText /\ <<>> \notin NamesIn(t) /\ scope \in Name /\ Total(Known, t, scope) = Circle
      BY <2>4
    <3> HIDE DEF t, scope
    <3>2. \E d \in Known : Worth(Known)[d] = Circle
      BY <2>1, <3>1, CircleHasItem
    <3> QED
      BY <2>5, <3>2
  <2>7. \A c \in Known : c.of.value.tag = "str" => \E named \in Known : named.key = c.of.value.str
    BY <2>2, <2>3 DEF Acceptable
  <2> QED
    BY <2>6, <2>7
<1> QED
  BY <1>1, PassesHold, CirclesHold, ReadyAtEnd, PTL

=============================================================================
