------------------------- MODULE DecodeFactory_proofs -------------------------
(***************************************************************************)
(* The decoder cache for any number of threads, schemas and calls.         *)
(***************************************************************************)
EXTENDS DecodeFactory, FiniteSetTheorems, TLAPS

\* Where a thread is in decoder_for says what it has found out so far.
Progress(t) ==
  /\ pc[t] \in {"get", "build", "mark", "store"} => Answerable(asked[t])
  /\ pc[t] = "mark" => ParseOf[Id(t)] = "none"
  /\ pc[t] = "store" => ParseOf[Id(t)] = "reader"

Inv == TypeOK /\ VerdictsSound /\ \A t \in Threads : Progress(t)

\* A call that began after the verdict finds it, and never comes to build.
Late(t) ==
  /\ pc[t] = "unsupported?" /\ t \notin early => Id(t) \in readers \cup unsupported
  /\ pc[t] = "get" /\ t \notin early => Id(t) \in readers
  /\ pc[t] \in {"build", "mark", "store"} => t \in early

\* The threads that may yet build the schema id, and those that built it and
\* have not given their verdict.
Asking(id) == {t \in early : Id(t) = id /\ pc[t] \in {"unsupported?", "get", "build"}}
Built(id) == {t \in Threads : Id(t) = id /\ pc[t] \in {"mark", "store"}}

\* A build takes a thread out of Asking, and only a call that finds no verdict
\* gets into it: until there is one the threads in Built made all the builds.
Counted(id) ==
  /\ builds[id] + Cardinality(Asking(id)) <= Cardinality(Threads)
  /\ id \notin readers \cup unsupported => builds[id] <= Cardinality(Built(id))

BuildInv ==
  /\ Inv
  /\ \A t \in Threads : Late(t)
  /\ \A id \in Ids : ParseOf[id] # "raises" => Counted(id)

\* A request that reaches the caches names a schema id.
LEMMA AnswerableId ==
  ASSUME TypeOK, NEW t \in Threads, Answerable(asked[t]) PROVE Id(t) \in Ids
<1>1. asked[t] \in Requests
  BY DEF TypeOK
<1>2. asked[t].id \in Ids \cup {NoSchema}
  BY <1>1 DEF Requests
<1> QED
  BY <1>2 DEF Answerable, Id

\* A step of t leaves every other thread where it is.
LEMMA OthersProgress ==
  ASSUME Inv, NEW t \in Threads,
         asked' = asked, \A u \in Threads \ {t} : pc'[u] = pc[u], Progress(t)'
  PROVE  \A u \in Threads : Progress(u)'
BY DEF Inv, Progress, Id, Answerable

LEMMA InitInv == Init => Inv
<1> SUFFICES ASSUME Init PROVE Inv
  OBVIOUS
<1>1. [encoding |-> "cdr", id |-> NoSchema] \in Requests
  BY DEF Requests
<1>2. TypeOK
  <2>1. pc \in [Threads -> Labels] /\ result \in [Threads -> Results]
    BY DEF Init, Results, Labels
  <2>2. asked \in [Threads -> Requests]
    BY <1>1 DEF Init
  <2>3. calls \in [Threads -> Nat] /\ builds \in [Ids -> Nat]
    BY DEF Init
  <2> QED
    BY <2>1, <2>2, <2>3 DEF Init, TypeOK
<1>3. VerdictsSound /\ \A t \in Threads : Progress(t)
  BY DEF Init, VerdictsSound, Progress
<1> QED
  BY <1>2, <1>3 DEF Inv

LEMMA CallInv ==
  ASSUME Inv, NEW t \in Threads, NEW request \in Requests, Call(t, request)
  PROVE  Inv'
<1>1. TypeOK'
  <2>1. pc' \in [Threads -> Labels] /\ result' \in [Threads -> Results]
    BY DEF Inv, TypeOK, Call, Labels, Results
  <2>2. asked' \in [Threads -> Requests]
    BY DEF Inv, TypeOK, Call
  <2>3. calls' \in [Threads -> Nat]
    <3>1. calls \in [Threads -> Nat] /\ calls' = [calls EXCEPT ![t] = @ + 1]
      BY DEF Inv, TypeOK, Call
    <3> QED
      BY <3>1
  <2>4. early' \subseteq Threads
    BY DEF Inv, TypeOK, Call
  <2> QED
    BY <2>1, <2>2, <2>3, <2>4 DEF Inv, TypeOK, Call
<1>2. VerdictsSound'
  BY DEF Inv, VerdictsSound, Call
<1>3. \A u \in Threads : Progress(u)'
  BY DEF Inv, TypeOK, Progress, Call, Id, Answerable
<1> QED
  BY <1>1, <1>2, <1>3 DEF Inv

LEMMA StepInv ==
  ASSUME Inv, NEW t \in Threads, Step(t)
  PROVE  Inv'
<1> USE DEF Inv
<1>1. asked' = asked /\ \A u \in Threads \ {t} : pc'[u] = pc[u]
  BY DEF Step, CheckUnsupported, GetReader, BuildReader, MarkUnsupported, StoreReader,
         Goto, Return, TypeOK
<1>2. CASE CheckUnsupported(t)
  <2>1. TypeOK' /\ VerdictsSound'
    BY <1>2 DEF CheckUnsupported, Goto, Return, TypeOK, VerdictsSound, Labels, Results
  <2>2. Progress(t)'
    BY <1>2 DEF CheckUnsupported, Goto, Return, TypeOK, Progress, Id
  <2> QED
    BY <1>1, <2>1, <2>2, OthersProgress
<1>3. CASE GetReader(t)
  <2>1. TypeOK' /\ VerdictsSound'
    BY <1>3 DEF GetReader, Goto, Return, TypeOK, VerdictsSound, Labels, Results
  <2>2. Progress(t)'
    BY <1>3 DEF GetReader, Goto, Return, TypeOK, Progress, Id
  <2> QED
    BY <1>1, <2>1, <2>2, OthersProgress
<1>4. CASE BuildReader(t)
  <2>1. Id(t) \in Ids /\ ParseOf[Id(t)] \in {"reader", "none", "raises"} /\ Answerable(asked[t])
    BY <1>4, AnswerableId, ParseOfAssumption DEF BuildReader, Progress
  <2>2. TypeOK' /\ VerdictsSound' /\ Progress(t)'
    <3> USE <1>4, <2>1 DEF BuildReader
    <3>1. readers' = readers /\ unsupported' = unsupported /\ calls' = calls /\ early' = early
      OBVIOUS
    <3>2. builds' \in [Ids -> Nat]
      BY DEF TypeOK
    <3>3. CASE ParseOf[Id(t)] = "reader" /\ Goto(t, "store")
      <4>1. TypeOK' /\ VerdictsSound'
        BY <1>1, <3>1, <3>2, <3>3 DEF Goto, TypeOK, VerdictsSound, Labels
      <4> QED
        BY <1>1, <3>3, <4>1 DEF Goto, TypeOK, Progress, Id, Answerable
    <3>4. CASE ParseOf[Id(t)] = "none" /\ Goto(t, "mark")
      <4>1. TypeOK' /\ VerdictsSound'
        BY <1>1, <3>1, <3>2, <3>4 DEF Goto, TypeOK, VerdictsSound, Labels
      <4> QED
        BY <1>1, <3>4, <4>1 DEF Goto, TypeOK, Progress, Id, Answerable
    <3>5. CASE ParseOf[Id(t)] = "raises" /\ Return(t, "exception")
      <4>1. TypeOK' /\ VerdictsSound'
        BY <1>1, <3>1, <3>2, <3>5 DEF Return, TypeOK, VerdictsSound, Labels, Results
      <4> QED
        BY <1>1, <3>5, <4>1 DEF Return, TypeOK, Progress, Id, Answerable
    <3> QED
      BY <3>3, <3>4, <3>5
  <2> QED
    BY <1>1, <2>2, OthersProgress
<1>5. CASE MarkUnsupported(t)
  <2>1. Id(t) \in Ids /\ ParseOf[Id(t)] = "none"
    BY <1>5, AnswerableId DEF MarkUnsupported, Progress
  <2>2. TypeOK' /\ VerdictsSound' /\ Progress(t)'
    BY <1>5, <2>1
       DEF MarkUnsupported, Return, TypeOK, VerdictsSound, Progress, Id, Labels, Results
  <2> QED
    BY <1>1, <2>2, OthersProgress
<1>6. CASE StoreReader(t)
  <2>1. Id(t) \in Ids /\ ParseOf[Id(t)] = "reader"
    BY <1>6, AnswerableId DEF StoreReader, Progress
  <2>2. TypeOK' /\ VerdictsSound' /\ Progress(t)'
    BY <1>6, <2>1
       DEF StoreReader, Return, TypeOK, VerdictsSound, Progress, Id, Labels, Results
  <2> QED
    BY <1>1, <2>2, OthersProgress
<1> QED
  BY <1>2, <1>3, <1>4, <1>5, <1>6 DEF Step

LEMMA NextInv == Inv /\ [Next]_vars => Inv'
<1>1. ASSUME Inv, UNCHANGED vars PROVE Inv'
  BY <1>1 DEF vars, Inv, TypeOK, VerdictsSound, Progress, Id, Answerable
<1> QED
  BY <1>1, CallInv, StepInv DEF Next

THEOREM InvHolds == Spec => []Inv
BY InitInv, NextInv, PTL DEF Spec

\* However calls interleave, a cached verdict is the right one.
THEOREM VerdictsSoundHolds == Spec => []VerdictsSound
<1>1. Inv => VerdictsSound
  BY DEF Inv
<1> QED
  BY <1>1, InvHolds, PTL

\* A verdict, once cached, stays.
THEOREM VerdictsKeptHolds == Spec => VerdictsKept
<1>1. [Next]_vars => [readers \subseteq readers' /\ unsupported \subseteq unsupported']_<<readers, unsupported>>
  BY DEF Next, Step, Call, CheckUnsupported, GetReader, BuildReader, MarkUnsupported,
         StoreReader, vars
<1> QED
  BY <1>1, PTL DEF Spec, VerdictsKept

\* The state is of its types, for any number of threads.
THEOREM FactoryTypeOKHolds == Spec => []TypeOK
<1>1. Inv => TypeOK
  BY DEF Inv
<1> QED
  BY <1>1, InvHolds, PTL

-----------------------------------------------------------------------------
(* The factory implements SchemaService *)

\* The answer of the refinement mapping.
Answer ==
  [t \in Threads |-> IF pc[t] # "idle" THEN "pending"
                     ELSE IF result[t] = "none yet" THEN "idle" ELSE result[t]]

\* A call that returns gives what its request deserves.
LEMMA ReturnReplies ==
  ASSUME Inv, NEW t \in Threads, pc[t] # "idle", Return(t, Deserved(asked[t])),
         Deserved(asked[t]) # "none yet", asked' = asked
  PROVE  Service!Reply(t)
<1>1. pc' = [pc EXCEPT ![t] = "idle"] /\ result' = [result EXCEPT ![t] = Deserved(asked[t])]
  BY DEF Return
<1>2. pc \in [Threads -> Labels] /\ result \in [Threads -> Results]
  BY DEF Inv, TypeOK
<1>3. Answer[t] = "pending"
  BY DEF Answer
<1>4. Answer' = [Answer EXCEPT ![t] = Deserved(asked[t])]
  BY <1>1, <1>2 DEF Answer
<1> QED
  BY <1>3, <1>4 DEF Service!Reply, Answer

\* One that goes on does nothing that can be seen.
LEMMA GotoStutters ==
  ASSUME Inv, NEW t \in Threads, NEW label \in Labels \ {"idle"}, pc[t] # "idle",
         Goto(t, label), asked' = asked
  PROVE  UNCHANGED <<asked, Answer>>
<1>1. pc' = [pc EXCEPT ![t] = label] /\ result' = result
  BY DEF Goto
<1>2. pc \in [Threads -> Labels]
  BY DEF Inv, TypeOK
<1> QED
  BY <1>1, <1>2 DEF Answer

LEMMA CallAsks ==
  ASSUME Inv, NEW t \in Threads, NEW request \in Requests, Call(t, request)
  PROVE  Service!Ask(t, request)
<1>1. pc \in [Threads -> Labels] /\ result \in [Threads -> Results]
  BY DEF Inv, TypeOK
<1>2. Answer[t] # "pending"
  BY <1>1 DEF Answer, Call, Results
<1>3. Answer' = [Answer EXCEPT ![t] = "pending"]
  BY <1>1 DEF Answer, Call
<1> QED
  BY <1>2, <1>3 DEF Service!Ask, Answer, Call

LEMMA StepReplies ==
  ASSUME Inv, NEW t \in Threads, Step(t)
  PROVE  Service!Reply(t) \/ UNCHANGED <<asked, Answer>>
<1> DEFINE id == Id(t)
<1>1. asked' = asked /\ pc[t] # "idle"
  BY DEF Step, CheckUnsupported, GetReader, BuildReader, MarkUnsupported, StoreReader
<1>2. Deserved(asked[t]) # "none yet"
  BY DEF Deserved
<1>3. CASE CheckUnsupported(t)
  <2>1. CASE ~Answerable(asked[t]) \/ id \in unsupported
    <3>1. Deserved(asked[t]) = "None"
      BY <2>1 DEF Deserved, Inv, VerdictsSound, Id
    <3> QED
      BY <1>1, <1>2, <1>3, <2>1, <3>1, ReturnReplies DEF CheckUnsupported
  <2>2. CASE ~(~Answerable(asked[t]) \/ id \in unsupported)
    BY <1>1, <1>3, <2>2, GotoStutters DEF CheckUnsupported, Labels
  <2> QED
    BY <2>1, <2>2
<1>4. CASE GetReader(t)
  <2>1. CASE id \in readers
    <3>1. Deserved(asked[t]) = "decoder"
      BY <1>4, <2>1 DEF Deserved, Inv, VerdictsSound, Id, Progress, GetReader
    <3> QED
      BY <1>1, <1>2, <1>4, <2>1, <3>1, ReturnReplies DEF GetReader
  <2>2. CASE id \notin readers
    BY <1>1, <1>4, <2>2, GotoStutters DEF GetReader, Labels
  <2> QED
    BY <2>1, <2>2
<1>5. CASE BuildReader(t)
  <2>1. CASE Goto(t, "store") \/ Goto(t, "mark")
    BY <1>1, <2>1, GotoStutters DEF Labels
  <2>2. CASE ParseOf[id] = "raises" /\ Return(t, "exception")
    <3>1. Deserved(asked[t]) = "exception"
      BY <1>5, <2>2 DEF Deserved, Inv, Id, Progress, BuildReader
    <3> QED
      BY <1>1, <1>2, <2>2, <3>1, ReturnReplies
  <2> QED
    BY <1>5, <2>1, <2>2 DEF BuildReader
<1>6. CASE MarkUnsupported(t)
  <2>1. Deserved(asked[t]) = "None"
    BY <1>6 DEF Deserved, Inv, Id, Progress, MarkUnsupported
  <2> QED
    BY <1>1, <1>2, <1>6, <2>1, ReturnReplies DEF MarkUnsupported
<1>7. CASE StoreReader(t)
  <2>1. Deserved(asked[t]) = "decoder"
    BY <1>7 DEF Deserved, Inv, Id, Progress, StoreReader
  <2> QED
    BY <1>1, <1>2, <1>7, <2>1, ReturnReplies DEF StoreReader
<1> QED
  BY <1>3, <1>4, <1>5, <1>6, <1>7 DEF Step

\* The caches are invisible: any number of threads that share a factory get what
\* the schemas they ask about deserve, as from a service that caches nothing.
THEOREM ActsAsServiceHolds == Spec => ActsAsService
<1>1. Init => Service!Init
  BY InitInv DEF Init, Service!Init, Inv, TypeOK
<1>2. Inv /\ [Next]_vars => [Service!Next]_(Service!serviceVars)
  <2> SUFFICES ASSUME Inv, [Next]_vars PROVE [Service!Next]_(Service!serviceVars)
    OBVIOUS
  <2>1. CASE UNCHANGED vars
    BY <2>1 DEF vars, Service!serviceVars
  <2>2. ASSUME NEW t \in Threads, Step(t) PROVE [Service!Next]_(Service!serviceVars)
    BY <2>2, StepReplies DEF Service!Next, Service!serviceVars, Answer
  <2>3. ASSUME NEW t \in Threads, NEW request \in Requests, Call(t, request)
        PROVE  [Service!Next]_(Service!serviceVars)
    BY <2>3, CallAsks DEF Service!Next
  <2> QED
    BY <2>1, <2>2, <2>3 DEF Next
<1> QED
  BY <1>1, <1>2, InvHolds, PTL DEF Spec, ActsAsService, Service!Spec

-----------------------------------------------------------------------------
(* What the caches save *)

LEMMA Counting ==
  ASSUME NEW A \in SUBSET Threads, NEW B \in SUBSET Threads
  PROVE  /\ IsFiniteSet(A) /\ Cardinality(A) \in Nat /\ Cardinality(Threads) \in Nat
         /\ A \subseteq B => Cardinality(A) <= Cardinality(B)
         /\ A \cap B = {} => Cardinality(A) + Cardinality(B) <= Cardinality(Threads)
<1>1. IsFiniteSet(A) /\ IsFiniteSet(B)
  BY ThreadsAssumption, FS_Subset
<1>2. /\ Cardinality(A) \in Nat /\ Cardinality(B) \in Nat
      /\ Cardinality(A \cap B) \in Nat /\ Cardinality(Threads) \in Nat
  BY <1>1, ThreadsAssumption, FS_CardinalityType, FS_Intersection
<1>3. ASSUME A \subseteq B PROVE Cardinality(A) <= Cardinality(B)
  BY <1>1, <1>3, FS_Subset
<1>4. ASSUME A \cap B = {} PROVE Cardinality(A) + Cardinality(B) <= Cardinality(Threads)
  <2>1. Cardinality(A \cup B) = Cardinality(A) + Cardinality(B) - Cardinality(A \cap B)
    BY <1>1, FS_Union
  <2>2. Cardinality(A \cap B) = 0
    BY <1>4, FS_EmptySet
  <2>3. Cardinality(A \cup B) <= Cardinality(Threads)
    BY ThreadsAssumption, FS_Subset
  <2> QED
    BY <1>2, <2>1, <2>2, <2>3
<1> QED
  BY <1>1, <1>2, <1>3, <1>4

LEMMA Subsets ==
  ASSUME Inv, NEW id
  PROVE  Asking(id) \in SUBSET Threads /\ Built(id) \in SUBSET Threads
BY DEF Asking, Built, Inv, TypeOK

\* A step that builds nothing and leaves Built(id) keeps the count if it takes
\* nobody into Asking(id), or if id has no verdict.
LEMMA NoBuildCounts ==
  ASSUME Inv, Inv', NEW id \in Ids, Counted(id),
         builds'[id] = builds[id],
         readers \subseteq readers' /\ unsupported \subseteq unsupported',
         Built(id)' = Built(id) \/ id \in readers' \cup unsupported',
         \/ Asking(id)' \subseteq Asking(id)
         \/ Built(id)' = Built(id) /\ id \notin readers \cup unsupported
  PROVE  Counted(id)'
<1>1. /\ Asking(id) \in SUBSET Threads /\ Built(id) \in SUBSET Threads
      /\ Asking(id)' \in SUBSET Threads /\ Built(id)' \in SUBSET Threads
  BY DEF Asking, Built, Inv, TypeOK
<1>2. Asking(id)' \cap Built(id)' = {}
  BY DEF Asking, Built
<1>3. builds[id] \in Nat
  BY DEF Inv, TypeOK
<1> DEFINE a == Cardinality(Asking(id))
           aa == Cardinality(Asking(id)')
           b == Cardinality(Built(id))
           n == Cardinality(Threads)
<1>4. a \in Nat /\ aa \in Nat /\ b \in Nat /\ n \in Nat
  BY <1>1, Counting
<1>5. builds[id] + aa <= n
  <2>1. CASE Asking(id)' \subseteq Asking(id)
    <3>1. aa <= a
      BY <1>1, <2>1, Counting
    <3>2. builds[id] + a <= n
      BY DEF Counted
    <3> HIDE DEF a, aa, n
    <3> QED
      BY <1>3, <1>4, <3>1, <3>2
  <2>2. CASE Built(id)' = Built(id) /\ id \notin readers \cup unsupported
    <3>1. aa + b <= n
      BY <1>1, <1>2, <2>2, Counting
    <3>2. builds[id] <= b
      BY <2>2 DEF Counted
    <3> HIDE DEF aa, b, n
    <3> QED
      BY <1>3, <1>4, <3>1, <3>2
  <2> QED
    BY <2>1, <2>2
<1>6. id \notin readers' \cup unsupported' => builds'[id] <= Cardinality(Built(id)')
  BY DEF Counted
<1> QED
  BY <1>5, <1>6 DEF Counted

\* A build moves its thread from Asking to Built.
LEMMA BuildCounts ==
  ASSUME Inv, Inv', NEW t \in Threads, NEW id \in Ids, Counted(id),
         readers' = readers, unsupported' = unsupported,
         builds'[id] = builds[id] + 1,
         t \in Asking(id), Asking(id)' = Asking(id) \ {t}, Built(id)' = Built(id) \cup {t}
  PROVE  Counted(id)'
<1>1. Asking(id) \in SUBSET Threads /\ Built(id) \in SUBSET Threads
  BY Subsets
<1>2. t \notin Built(id)
  BY DEF Asking, Built
<1>3. builds[id] \in Nat
  BY DEF Inv, TypeOK
<1>4. IsFiniteSet(Asking(id)) /\ IsFiniteSet(Built(id))
  BY <1>1, Counting
<1>5. Cardinality(Asking(id)') = Cardinality(Asking(id)) - 1
  BY <1>4, FS_RemoveElement
<1>6. Cardinality(Built(id)') = Cardinality(Built(id)) + 1
  BY <1>2, <1>4, FS_AddElement
<1>7. /\ Cardinality(Asking(id)) \in Nat /\ Cardinality(Built(id)) \in Nat
      /\ Cardinality(Threads) \in Nat
  BY <1>1, Counting
<1> QED
  BY <1>3, <1>5, <1>6, <1>7 DEF Counted

LEMMA InitBuilds == Init => BuildInv
<1> SUFFICES ASSUME Init PROVE BuildInv
  OBVIOUS
<1>1. Inv
  BY InitInv
<1>2. \A t \in Threads : Late(t)
  BY DEF Init, Late
<1>3. ASSUME NEW id \in Ids PROVE Counted(id)
  <2>1. builds[id] = 0 /\ Asking(id) = {}
    BY DEF Init, Asking
  <2>2. Cardinality(Asking(id)) = 0 /\ Cardinality(Built(id)) \in Nat /\ Cardinality(Threads) \in Nat
    BY <1>1, <2>1, Subsets, Counting, FS_EmptySet
  <2> QED
    BY <2>1, <2>2 DEF Counted
<1> QED
  BY <1>1, <1>2, <1>3 DEF BuildInv

LEMMA CallBuilds ==
  ASSUME BuildInv, Inv', NEW t \in Threads, NEW request \in Requests, Call(t, request)
  PROVE  BuildInv'
<1>1. Inv
  BY DEF BuildInv
<1>2. /\ pc[t] = "idle" /\ pc' = [pc EXCEPT ![t] = "unsupported?"]
      /\ asked' = [asked EXCEPT ![t] = request]
      /\ UNCHANGED <<readers, unsupported, builds>>
      /\ early' = IF request.id \in readers \cup unsupported THEN early \ {t} ELSE early \cup {t}
  BY DEF Call
<1>3. /\ pc \in [Threads -> Labels] /\ asked \in [Threads -> Requests] /\ early \subseteq Threads
  BY <1>1 DEF Inv, TypeOK
<1>4. \A u \in Threads : Late(u)'
  BY <1>2, <1>3 DEF BuildInv, Late, Id
<1>5. ASSUME NEW id \in Ids, ParseOf[id] # "raises" PROVE Counted(id)'
  <2>1. Built(id)' = Built(id)
    BY <1>2, <1>3 DEF Built, Id
  <2>2. Asking(id)' \subseteq Asking(id) \/ id \notin readers \cup unsupported
    <3>1. CASE request.id \in readers \cup unsupported \/ request.id # id
      BY <1>2, <1>3, <3>1 DEF Asking, Id
    <3>2. CASE request.id \notin readers \cup unsupported /\ request.id = id
      BY <3>2
    <3> QED
      BY <3>1, <3>2
  <2>3. Counted(id)
    BY <1>5 DEF BuildInv
  <2> QED
    BY <1>1, <1>2, <2>1, <2>2, <2>3, NoBuildCounts
<1> QED
  BY <1>4, <1>5 DEF BuildInv

LEMMA StepBuilds ==
  ASSUME BuildInv, Inv', NEW t \in Threads, Step(t)
  PROVE  BuildInv'
<1>1. Inv /\ Late(t)
  BY DEF BuildInv
<1>2. pc \in [Threads -> Labels] /\ early \subseteq Threads /\ builds \in [Ids -> Nat]
  BY <1>1 DEF Inv, TypeOK
<1>3. /\ asked' = asked /\ early' = early
      /\ readers \subseteq readers' /\ unsupported \subseteq unsupported'
  BY DEF Step, CheckUnsupported, GetReader, BuildReader, MarkUnsupported, StoreReader
<1>4. /\ pc[t] # "idle"
      /\ \E label \in Labels : pc' = [pc EXCEPT ![t] = label]
  BY DEF Step, CheckUnsupported, GetReader, BuildReader, MarkUnsupported, StoreReader,
         Goto, Return, Labels
<1>5. \A u \in Threads : Late(u)'
  <2>1. ASSUME NEW u \in Threads \ {t} PROVE Late(u)'
    BY <1>2, <1>3, <1>4 DEF BuildInv, Late, Id
  <2>2. Late(t)'
    BY <1>1, <1>2, <1>3
       DEF Step, CheckUnsupported, GetReader, BuildReader, MarkUnsupported, StoreReader,
           Goto, Return, Late, Id
  <2> QED
    BY <2>1, <2>2
<1>6. ASSUME NEW id \in Ids, ParseOf[id] # "raises" PROVE Counted(id)'
  <2>1. Counted(id)
    BY <1>6 DEF BuildInv
  <2>2. CASE CheckUnsupported(t) \/ GetReader(t)
    <3>1. /\ pc[t] \in {"unsupported?", "get"} /\ builds' = builds
          /\ \E label \in {"idle", "get", "build"} : pc' = [pc EXCEPT ![t] = label]
      BY <2>2 DEF CheckUnsupported, GetReader, Goto, Return
    <3>2. Built(id)' = Built(id) /\ Asking(id)' \subseteq Asking(id)
      BY <1>2, <1>3, <3>1 DEF Built, Asking, Id
    <3> QED
      BY <1>1, <1>3, <2>1, <3>1, <3>2, NoBuildCounts
  <2>3. CASE BuildReader(t) /\ Id(t) # id
    <3>1. Built(id)' = Built(id) /\ Asking(id)' \subseteq Asking(id)
      BY <1>2, <1>3, <1>4, <2>3 DEF Built, Asking, Id
    <3>2. builds'[id] = builds[id]
      BY <1>2, <2>3 DEF BuildReader
    <3> QED
      BY <1>1, <1>3, <2>1, <3>1, <3>2, NoBuildCounts
  <2>4. CASE BuildReader(t) /\ Id(t) = id
    <3>1. /\ pc[t] = "build" /\ builds'[id] = builds[id] + 1
          /\ readers' = readers /\ unsupported' = unsupported
          /\ \E label \in {"mark", "store"} : pc' = [pc EXCEPT ![t] = label]
      BY <1>2, <1>6, <2>4 DEF BuildReader, Goto
    <3>2. t \in Asking(id)
      BY <1>1, <2>4, <3>1 DEF Late, Asking
    <3>3. Asking(id)' = Asking(id) \ {t} /\ Built(id)' = Built(id) \cup {t}
      BY <1>2, <1>3, <2>4, <3>1 DEF Built, Asking, Id
    <3> QED
      BY <1>1, <2>1, <3>1, <3>2, <3>3, BuildCounts
  <2>5. CASE MarkUnsupported(t) \/ StoreReader(t)
    <3>1. /\ pc[t] \in {"mark", "store"} /\ builds' = builds /\ pc' = [pc EXCEPT ![t] = "idle"]
          /\ Id(t) \in readers' \cup unsupported'
      BY <2>5 DEF MarkUnsupported, StoreReader, Return
    <3>2. Asking(id)' \subseteq Asking(id)
      BY <1>2, <1>3, <3>1 DEF Asking, Id
    <3>3. Built(id)' = Built(id) \/ id \in readers' \cup unsupported'
      BY <1>2, <1>3, <3>1 DEF Built, Id
    <3> QED
      BY <1>1, <1>3, <2>1, <3>1, <3>2, <3>3, NoBuildCounts
  <2> QED
    BY <2>2, <2>3, <2>4, <2>5 DEF Step
<1> QED
  BY <1>5, <1>6 DEF BuildInv

LEMMA StutterBuilds == ASSUME BuildInv, UNCHANGED vars PROVE BuildInv'
BY DEF vars, BuildInv, Inv, TypeOK, VerdictsSound, Progress, Late, Counted, Asking, Built,
       Id, Answerable

\* However calls interleave, one that begins after its schema has a verdict does
\* not parse it, and a schema that parses costs at most one build per thread.
THEOREM NoLateBuildHolds == Spec => []NoLateBuild
<1>1. BuildInv /\ [Next]_vars => BuildInv'
  <2>1. BuildInv /\ [Next]_vars => Inv'
    BY NextInv DEF BuildInv
  <2> QED
    BY <2>1, CallBuilds, StepBuilds, StutterBuilds DEF Next
<1>2. ASSUME BuildInv PROVE NoLateBuild
  <2>1. \A t \in Threads : pc[t] \in {"build", "store", "mark"} => t \in early
    BY <1>2 DEF BuildInv, Late
  <2>2. ASSUME NEW id \in Ids, ParseOf[id] # "raises"
        PROVE  builds[id] <= Cardinality(Threads)
    <3>1. Inv /\ Counted(id)
      BY <1>2, <2>2 DEF BuildInv
    <3>2. builds[id] \in Nat /\ Cardinality(Asking(id)) \in Nat /\ Cardinality(Threads) \in Nat
      BY <3>1, Subsets, Counting DEF Inv, TypeOK
    <3> QED
      BY <3>1, <3>2 DEF Counted
  <2> QED
    BY <2>1, <2>2 DEF NoLateBuild
<1> QED
  BY <1>1, <1>2, InitBuilds, PTL DEF Spec

=============================================================================
