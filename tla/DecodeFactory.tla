---------------------------- MODULE DecodeFactory ----------------------------
(***************************************************************************)
(* Ros2DecodeFactory, decode_factory.py: threads that read one MCAP file   *)
(* share a factory.  Python may switch threads between any two look-ups or *)
(* stores of decoder_for, so each of them is an action.                    *)
(*                                                                         *)
(* A schema id stands for the schema registered under it in the file.      *)
(* What parsing it comes to is a constant of the schema: a reader, None    *)
(* (an encoding nobody knows, an IDL construct that ends in an             *)
(* AttributeError) or any other exception.                                 *)
(***************************************************************************)
EXTENDS Naturals, FiniteSets

CONSTANTS
  Threads,
  Ids,         \* the schema ids of the file
  ParseOf,     \* what parsing the schema of an id comes to
  MaxCalls     \* a bound on the calls of each thread

ASSUME ThreadsAssumption == IsFiniteSet(Threads)
ASSUME ParseOfAssumption == ParseOf \in [Ids -> {"reader", "none", "raises"}]
ASSUME MaxCallsAssumption == MaxCalls \in Nat

\* decoder_for is also asked about other encodings and about no schema at all.
NoSchema == "no schema"
Requests == [encoding : {"cdr", "other"}, id : Ids \cup {NoSchema}]

VARIABLES
  readers,       \* _readers: the ids that have a reader
  unsupported,   \* _unsupported_schema_ids
  pc,            \* where each thread is in decoder_for
  asked,         \* the arguments of its call
  result,        \* what its last call returned or raised
  calls,         \* how many calls it has made
  builds,        \* history: how often _build_reader ran for each id
  early          \* history: the calls that began before their id had a verdict

vars == <<readers, unsupported, pc, asked, result, calls, builds, early>>

Results == {"none yet", "None", "decoder", "exception"}
Labels == {"idle", "unsupported?", "get", "build", "mark", "store"}

TypeOK ==
  /\ readers \subseteq Ids
  /\ unsupported \subseteq Ids
  /\ pc \in [Threads -> Labels]
  /\ asked \in [Threads -> Requests]
  /\ result \in [Threads -> Results]
  /\ calls \in [Threads -> Nat]
  /\ builds \in [Ids -> Nat]
  /\ early \subseteq Threads

Init ==
  /\ readers = {}
  /\ unsupported = {}
  /\ pc = [t \in Threads |-> "idle"]
  /\ asked = [t \in Threads |-> [encoding |-> "cdr", id |-> NoSchema]]
  /\ result = [t \in Threads |-> "none yet"]
  /\ calls = [t \in Threads |-> 0]
  /\ builds = [id \in Ids |-> 0]
  /\ early = {}

Goto(t, label) == pc' = [pc EXCEPT ![t] = label] /\ UNCHANGED result

Return(t, value) ==
  /\ pc' = [pc EXCEPT ![t] = "idle"]
  /\ result' = [result EXCEPT ![t] = value]

Id(t) == asked[t].id

Answerable(request) == request.encoding = "cdr" /\ request.id # NoSchema

\* A thread calls decoder_for; requests it does not serve go back at once.
Call(t, request) ==
  /\ pc[t] = "idle"
  /\ calls[t] < MaxCalls
  /\ calls' = [calls EXCEPT ![t] = @ + 1]
  /\ asked' = [asked EXCEPT ![t] = request]
  /\ early' = IF request.id \in readers \cup unsupported THEN early \ {t} ELSE early \cup {t}
  /\ pc' = [pc EXCEPT ![t] = "unsupported?"]
  /\ result' = [result EXCEPT ![t] = "none yet"]
  /\ UNCHANGED <<readers, unsupported, builds>>

CheckUnsupported(t) ==
  /\ pc[t] = "unsupported?"
  /\ IF ~Answerable(asked[t]) \/ Id(t) \in unsupported
     THEN Return(t, "None")
     ELSE Goto(t, "get")
  /\ UNCHANGED <<readers, unsupported, asked, calls, builds, early>>

\* Bug: the look-up removes the reader (pop for get).
GetReader_Pops(t) ==
  /\ pc[t] = "get"
  /\ readers' = readers \ {Id(t)}
  /\ IF Id(t) \in readers THEN Return(t, "decoder") ELSE Goto(t, "build")
  /\ UNCHANGED <<unsupported, asked, calls, builds, early>>

GetReader(t) ==
  /\ pc[t] = "get"
  /\ IF Id(t) \in readers THEN Return(t, "decoder") ELSE Goto(t, "build")
  /\ UNCHANGED <<readers, unsupported, asked, calls, builds, early>>

\* Bug: a schema that does not parse is answered with None like an unknown one.
BuildReader_SwallowsErrors(t) ==
  /\ pc[t] = "build"
  /\ builds' = [builds EXCEPT ![Id(t)] = @ + 1]
  /\ Goto(t, IF ParseOf[Id(t)] = "reader" THEN "store" ELSE "mark")
  /\ UNCHANGED <<readers, unsupported, asked, calls, early>>

\* Bug: the parser does not come back from a broken schema.
BuildReader_Hangs(t) ==
  /\ pc[t] = "build"
  /\ ParseOf[Id(t)] # "raises"
  /\ builds' = [builds EXCEPT ![Id(t)] = @ + 1]
  /\ Goto(t, IF ParseOf[Id(t)] = "reader" THEN "store" ELSE "mark")
  /\ UNCHANGED <<readers, unsupported, asked, calls, early>>

\* _build_reader: the exceptions it does not catch leave decoder_for.
BuildReader(t) ==
  /\ pc[t] = "build"
  /\ builds' = [builds EXCEPT ![Id(t)] = @ + 1]
  /\ \/ ParseOf[Id(t)] = "reader" /\ Goto(t, "store")
     \/ ParseOf[Id(t)] = "none" /\ Goto(t, "mark")
     \/ ParseOf[Id(t)] = "raises" /\ Return(t, "exception")
  /\ UNCHANGED <<readers, unsupported, asked, calls, early>>

\* Bug: the negative verdict is forgotten.
MarkUnsupported_Forgotten(t) ==
  /\ pc[t] = "mark"
  /\ Return(t, "None")
  /\ UNCHANGED <<readers, unsupported, asked, calls, builds, early>>

\* Bug: the encoding is remembered as unsupported, not the schema id.
MarkUnsupported_ByEncoding(t) ==
  /\ pc[t] = "mark"
  /\ unsupported' = unsupported \cup {asked[t].encoding}
  /\ Return(t, "None")
  /\ UNCHANGED <<readers, asked, calls, builds, early>>

MarkUnsupported(t) ==
  /\ pc[t] = "mark"
  /\ unsupported' = unsupported \cup {Id(t)}
  /\ Return(t, "None")
  /\ UNCHANGED <<readers, asked, calls, builds, early>>

StoreReader(t) ==
  /\ pc[t] = "store"
  /\ readers' = readers \cup {Id(t)}
  /\ Return(t, "decoder")
  /\ UNCHANGED <<unsupported, asked, calls, builds, early>>

Step(t) ==
  \/ CheckUnsupported(t) \/ GetReader(t) \/ BuildReader(t)
  \/ MarkUnsupported(t) \/ StoreReader(t)

Next == \E t \in Threads : Step(t) \/ \E request \in Requests : Call(t, request)

Spec == Init /\ [][Next]_vars

\* The interpreter gives every thread that is inside a call its turn; nothing
\* makes a thread call.
FairSpec == Spec /\ \A t \in Threads : WF_vars(Step(t))

-----------------------------------------------------------------------------
(* Properties *)

\* A cached verdict is the right one for its schema, and a schema never has
\* both, however calls interleave between the look-ups and the stores.
VerdictsSound ==
  /\ readers \subseteq {id \in Ids : ParseOf[id] = "reader"}
  /\ unsupported \subseteq {id \in Ids : ParseOf[id] = "none"}

\* Once a schema has a verdict, no call that begins afterwards parses it again:
\* what is parsed more than once was asked for by calls that overlapped, or
\* raised.  So a schema that parses costs at most one build per thread.
NoLateBuild ==
  /\ \A t \in Threads : pc[t] \in {"build", "store", "mark"} => t \in early
  /\ \A id \in Ids : ParseOf[id] # "raises" => builds[id] <= Cardinality(Threads)

\* A verdict is never withdrawn.
VerdictsKept ==
  [][readers \subseteq readers' /\ unsupported \subseteq unsupported']_<<readers, unsupported>>

\* Every call comes back.
CallsReturn == \A t \in Threads : pc[t] # "idle" ~> pc[t] = "idle"

\* What a request deserves, by its schema alone.
Deserved(request) ==
  IF ~Answerable(request) \/ ParseOf[request.id] = "none" THEN "None"
  ELSE IF ParseOf[request.id] = "reader" THEN "decoder" ELSE "exception"

Service == INSTANCE SchemaService WITH
  Callers <- Threads,
  asked <- asked,
  answer <- [t \in Threads |->
               IF pc[t] # "idle" THEN "pending"
               ELSE IF result[t] = "none yet" THEN "idle" ELSE result[t]]

\* The caches are invisible: the factory implements a service without any.
ActsAsService == Service!Spec

\* DESIGN.md: "Parse each ros2idl or ros2msg schema once".
ParsedOnce == \A id \in Ids : builds[id] <= 1

=============================================================================
