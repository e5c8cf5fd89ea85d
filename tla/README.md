# Verification of mcap-ros2idl-support

TLA+ models of the package that decodes ROS 2 messages from MCAP files, the TLC
runs that check them on small instances and the theorems TLAPS proves about
them. `PROJECT.json` lists the runs, the theorems, the lines of source each
definition stands for, and the hazards of the code with what covers them.
Paths below are relative to the root of the repository; `cdr/` and so on are
directories of `mcap_ros2idl_support/`.

    tlc -config NativeDecoder.cfg MCNativeDecoder     # a run
    tlapm NativeDecoder_proofs.tla                     # a proof module

## The system

`Ros2DecodeFactory` is handed to the reader of the external `mcap` package. For
each message the reader asks `decoder_for(encoding, schema)`; the first time a
schema id is seen its text is parsed (`ros2idl_parser` over `omgidl_parser`, or
`rosmsg`), a `MessageReader` chooses the root type and compiles all definitions
into *plans*, and the plans become a native `Decoder` written in Rust. The
decoder then walks the plans over each payload. Apart from this the package
offers a writer of messages, low-level CDR reading and writing, and times.

| Component | State | Operations | Called by |
|---|---|---|---|
| `decode_factory.py` | readers by schema id, ids known as unsupported | `decoder_for` | mcap reader, from any thread |
| `src/lib.rs` | immutable plans; per call an offset, an alignment rule and the Rust stack | `Decoder::new`, `read_message` | `MessageReader` |
| `message_reader.py` | the compiled decoder | constructor (plans, indices, root), `read_message` | the factory, users |
| `_python_reader.py` | root, definitions, enum mappings | constructor, `read_message` (now only a reference) | `message_reader.py`, benchmarks |
| `message_writer.py` | root, definitions | `calculate_byte_size`, `write_message` | users |
| `cdr/writer.py` | buffer, offset, origin | numbers, texts, arrays, member headers, `align`, `reset_origin` | `MessageWriter`, users |
| `cdr/reader.py` | view, offset, origin | their counterparts, `seek`, `seek_to`, `clone`, `limit` | Python reader, users |
| `cdr/size_calculator.py` | offset | one method per kind of value | users |
| `cdr/` tables | none | encapsulation kinds, length codes, parameter ids | reader and writer |
| `omgidl_parser/` | a Lark parser per thread; constants of one parse | parse, resolve constants and types, resolve typedefs | `ros2idl_parser` |
| `ros2idl_parser/` | none | renames `::` to `/`, `nanosec` to `nsec` | the factory |
| `rosmsg/` | none | parse lines, qualify type names, md5, stringify | the factory, users |
| `rostime/` | none | conversions and arithmetic of times | users |
| `examples/`, `benchmarks/` | none | read a file, print or time it | users |

What is hard in it, and what makes each part correct:

* **Native decoder.** Every place of the payload is computed from what was read
  before: one wrong alignment shifts everything behind it and nothing raises.
  Counts, text lengths and discriminants come from the payload and steer
  allocation, recursion and loops. Correct means: each read is inside the
  payload, aligned and right behind the one before; allocation and depth are
  bounded whatever the payload says; every walk ends; and what it accepts means
  what it meant to the Python reader that it replaced.
* **Factory.** Python may switch threads between any two look-ups and stores
  of `decoder_for`, and a parse takes long. Two caches are kept apart, a build
  can fail. Correct means that the caches cannot be seen: each call gets what
  its schema deserves.
* **CDR reader and writer.** Two programs that keep the same position by
  separate arithmetic: alignment by an origin that member headers move, long
  and short headers, byte orders, a buffer that grows. Correct means that
  reading back gives what was written, at any mixture of calls, also to
  clones and readers that were limited or sent back; and that the writer always
  has the room it writes to.
* **Message writer.** Two walks over the same definitions, one that sizes, one
  that writes, each with defaults, absent fields and fixed lengths of their own.
  Correct means that they agree and that the decoder of the same schema reads
  what was written.
* **Schema processing.** A text becomes plans in seven passes, each of which
  reads what the ones before left: constants are evaluated in the order of the
  text, names are looked for in scopes, typedefs are followed while arrays are
  collected, definitions are numbered. Correct means that the plans mean what the
  text says by its scoping rules, whatever the order of its declarations, and that
  a text that is refused has a fault.
* **rostime.** Seconds and nanoseconds are carried, borrowed, rounded and compared
  apart. Correct means that any sequence of calls comes to what it amounts to in
  nanoseconds, below zero too: to the nanosecond where only whole numbers are used,
  and as near as doubles are where floats are.

## Modules

| Module | Models | Extends or instantiates |
|---|---|---|
| `CdrAlignment` | alignment arithmetic | |
| `CdrCursor` | abstract: what reading a payload promises | `CdrAlignment` |
| `DecoderPlans` | the plans that Python hands to Rust, and what `Decoder::new` checks | |
| `NativeDecoder` | `src/lib.rs` | `DecoderPlans`, `CdrAlignment`; refines `CdrCursor` |
| `PythonReader` | `_python_reader.py` over `cdr/reader.py`, as a function | `CdrAlignment` |
| `DecoderReference` | the comparison of both readers | `NativeDecoder`, `PythonReader` |
| `MCNativeDecoder` | instances | `DecoderReference` |
| `NativeDecoder_proofs` | theorems: types, reads, allocation, agreement with the Python reader | `DecoderReference`, `Recursion_proofs` |
| `SchemaService` | abstract: what `decoder_for` promises | |
| `DecodeFactory` | `decode_factory.py` | refines `SchemaService` |
| `MCDecodeFactory`, `DecodeFactory_proofs` | instance; theorems | `DecodeFactory` |
| `CdrWriter` | `cdr/writer.py` and the tables it uses | `CdrAlignment` |
| `CdrReader` | `cdr/reader.py` | `CdrWriter` |
| `CdrStream` | writer, size calculator and two readers together | `CdrReader` |
| `MCCdrStream` | instance | `CdrStream` |
| `CdrLayout_proofs` | theorems: the writer's buffer, types, where a call leaves its bytes, sizes | `CdrStream` |
| `CdrRoundTrip_proofs` | theorem: what is written is read back | `CdrLayout_proofs` |
| `MessageCodec` | `message_writer.py`, composed with the decoder | `NativeDecoder` |
| `MCMessageCodec` | schemas and messages | `MessageCodec` |
| `MessageCodec_proofs` | theorems: types, sizes, what is written is read | `MessageCodec`, `NativeDecoder_proofs`, `Recursion_proofs` |
| `MessageDefinitions` | `message_definition/`, which all parsers and readers share | |
| `IdlParser` | `omgidl_parser/parse.py` behind the syntax tree | `MessageDefinitions` |
| `IdlDefinitions` | `omgidl_parser/process.py`, `ros2idl_parser/parse.py` | `IdlParser` |
| `RosMsgParser` | `rosmsg/parse.py` | `MessageDefinitions` |
| `SchemaCompile` | the constructors of both readers; the root of the writer | `DecoderPlans`, `MessageDefinitions` |
| `SchemaBuild` | `_build_reader`: the passes as a state machine | `IdlDefinitions`, `RosMsgParser`, `SchemaCompile` |
| `ScopingRules` | reference: what names and constants of an IDL text mean | `IdlDefinitions` |
| `SchemaMeaning` | the properties of `SchemaBuild` that need the reference | `SchemaBuild`, `ScopingRules` |
| `MCSchemaBuild` | texts | `SchemaMeaning` |
| `SchemaBuild_proofs` | theorems: any definitions, compiled; any text, from parser to plans; constants keep what the rules give, circles are refused | `SchemaMeaning`, `Recursion_proofs` |
| `RosTime` | `rostime/` as operators | |
| `RosClock` | a time that is handed through them | `RosTime` |
| `MCRosClock`, `RosClock_proofs` | instance; theorems | `RosClock` |
| `Recursion_proofs` | lemmas: induction over numbers, functions defined by it | |

### NativeDecoder

`schema`, `payload` are what `Decoder::new` and `read_message` are given;
`offset` and `align8` are the fields of `Reader`. The Rust stack is `stack`,
innermost call first: a `"plan"` frame is a call of `read_plan`, `"field"` of
`read_field` before the count, `"array"` after it, `"elems"` the element loop
(or the single value), `"text"` a string whose length was read, `"nsec"` a time
between its two numbers. An action is one branch of one function and makes at
most one `Reader::take`; an error empties the stack, as `?` does.

The bytes of the payload are not a variable. A number that steers the walk is
chosen from `Words` when it is read and kept in `cells` under its place; all
other bytes do not matter to the walk. So a run starts from no cells and meets
every payload, and `MessageCodec` starts from the cells of an encoder and meets
what that encoder wrote. `spans`, a history variable, holds the reads made.

Abstracted: the Python values that are built, names, enum strings (only that a
field has a mapping, which takes arrays off the bulk path), the order of bytes
within a number. `checked_add` and `checked_mul` cannot fail below 2^64 with a
32-bit count and a payload in memory, so the model has no such branch.

### DecodeFactory

`readers` and `unsupported` are the two caches; `pc`, `asked` and `result`
where each thread is in `decoder_for`, what it was asked and what came of it.
`Call`, `CheckUnsupported`, `GetReader`, `BuildReader`, `MarkUnsupported` and
`StoreReader` are the steps between which the interpreter may switch threads.
What parsing comes to is a constant of the schema id, `ParseOf`: parsers keep no
state between calls (the Lark parser is per thread). `builds` and `early` are
history variables.

### CdrWriter, CdrReader, CdrStream

A writer is `capacity` (the length of its bytearray), `data` (what is written)
and `origin`; calls are composed of `Aligned` and `Put` in the order of the code,
so a call that fails leaves what it wrote before. A byte records the value it
belongs to, its place in it and the byte order, which is all a reader can tell
by decoding it. An array that is written item by item is an action per item. A
reader is a record (`limit`, `offset`, `origin`, what its last call returned or
raised); `CdrReader` has an operator per call. `CdrStream` lets a writer make
calls, logs them, and lets one or two readers make the matching ones; the
calculator's offset is `counted`. A reader that was sent back behind a member
header, or goes on from the middle of a sentinel, leaves `inStep` and is not
followed further: the code promises nothing there.

### MessageCodec

`Calculate` and `WriteMessage` are the two walks of `MessageWriter` over the plans;
`Decode` is the next step of `NativeDecoder` on what was written. A walk is a function
of how deep it may still go, `Sizes(su)[n]` and `Writes(su)[n]`: a definition within
another is what the function makes of it at `n - 1`, and at 0 the interpreter raises
RecursionError (`MaxNesting`; the code has no limit of its own). A loop of a walk is a
list of steps taken one behind the other (`Through`), and no operator is recursive, so
that there can be proofs about them. Values are records that keep what the walks look
at: whether a value is a list, a buffer, bytes, a text (its length in characters and in
bytes), a dict, a number that does not fit, or absent; `Values` is closed under their
parts. `body.lost` holds who cannot follow what the writer did. `"decoder"`: it wrote a
length other than the number of the items (an absent sequence with a default, bytes for
wide items), a union, elements of no size, or nested deeper than the decoder goes.
`"sizer"`: one of the cases in which the two walks are known to differ (see `codec_size`).

### SchemaBuild and the parsers

`text` is the schema; `stage` the pass in progress and `at` the declaration it has
come to, so that an action is one pass over one declaration and a pass may be wrong
by what it has not come to yet. `nodes`, `constants` and `map` are the syntax tree
(as the list of its declarations in the order all passes visit them, a module behind
what it holds), `_Transformer._constants` and `idl_map`; `defs` the definitions made
so far; `outcome` and `cause` how it ended; `schema` and `unionEnums` what
`Decoder::new` is given. `Parse`, `ResolveConstants` and `ResolveTypes` are the three
passes of `parse_idl`, `BuildMap` and `Convert` those of `process.py`, `Rename` is
`parse_ros2idl`; `ReadBlocks` and `FixupTypes` are the two of `rosmsg`; `Compile` is
the constructor of `MessageReader`. `schema` has the form that `NativeDecoder` starts
from: `PlansWellFormed` is what `NativeDecoder!Build` assumes.

A text is given as the list of the declarations of its syntax tree (IDL; `Visited` in
`MCSchemaBuild` puts a tree into that order) or as what the expression for a line finds
in it (ros2msg). What the grammar lets through is `SchemaText` and `TextsAssumption`: a
module is behind what it holds, what stands in modules has its innermost one around it
(`Around`), no name in a value is empty, a ros2msg text has a block, and every word that
may stand for a type is a kind to the decoder, if only an unknown one. Loops of the code that
follow typedefs or fold over lists are recursive functions on numbers, so that there
can be proofs about them. A name is the sequence of its parts, so `::` and `/` are one; where
the code goes by letters (`startswith` in the search for a union's enum) the constant
`Initials` says which words begin with which. A str is a name or a text constant, in
the model as in Python, where the parser confuses them.

`ScopingRules` says what a text means without passes, tables or maps: a name means
the declaration in the innermost scope that has one, a typedef means what its own
type means where it stands, an enumerator also belongs to the scope around its enum.
What constants are worth is found in as many rounds as there are constants: in each
one, those are known whose names were known in the round before, and what is left then
goes in circles.
The properties of `SchemaMeaning` compare the plans with that; those that can be said
without it (`SchemaTypeOK`, `PlansWellFormed`, `RootsAgree`, `FieldsFindTheirBlocks`) stand
in `SchemaBuild`. Where the code is known to do something else, the property names the
condition (`SameName`, `DeclaredOnce`, `KeysUnique`, `TypesUnique`, `Composed`,
`NamesDistinct`, `SoleStruct`, `Unseen`); see "Where the code departs".

### RosTime and RosClock

`RosTime` has an operator for each function that returns a time or a whole number. A
float is the fraction of nanoseconds that it stands for. Arithmetic of floats comes to
any fraction of `Doubles`: it is off by one part in `Precision` (2^53 in the code) of
the largest double on the way, so a time since 1970 that goes through `to_sec` comes
back some hundred nanoseconds off (`Time(1632939128, 123456789)` with 123456717
nanoseconds). It keeps its sign, and whole seconds, which doubles hold, are not
touched.

`RosClock` hands one time (`clock`) through the functions in any order. Beside it goes an
interval of nanoseconds, `least..most`, for what the calls amount to. It is reckoned
from the arguments and `Precision` alone, never from a `Time`: sums and differences
move it, `to_millis` rounds both of its ends, clamping clamps both, a call through
floats widens it by what doubles lose for a time of that size (`Off`). `ClockWithin`
says that the clock is never outside, so that a lost carry or borrow, a comparison by
nanoseconds or a second lost in rounding shows at once: two calls on whole numbers leave
an interval of one. The second by which `from_sec` is late below zero is not
part of what the calls amount to: `least` stays with the true time, and `most` allows
for one second for each such call and no more (`Late`). `add` and `interpolate` may
raise, which leaves the clock as it was; they must if the whole interval is below zero,
and may only if some of it is (`Passed`). Fractions go from 0 to 1.

## Runs

| Run | Checks | Shows |
|---|---|---|
| `native` | `TypeOK` | indices of plans, counts, offsets stay what the code takes them for |
| | `SpansSound` | reads are contiguous, aligned, inside the payload |
| | `LoopsNest` | the loops in progress are at different depths and admitted by the bytes there are |
| | `AgreesWithPython` | what the decoder accepts the Python reader reads alike, byte for byte |
| | `ReadsAsCursor` | refinement of `CdrCursor` |
| | `Terminates` | every walk ends |
| `factory` | `VerdictsSound`, `NoLateBuild`, `VerdictsKept` | caches are right, never lose an entry, and save all builds but overlapping ones |
| | `CallsReturn`, `ActsAsService` | each call returns, with what its schema deserves |
| `stream` | `RoomSuffices` | the buffer always has room |
| | `RoundTrip` | readers get back what was written and stand where the writer stood |
| | `SizeAgrees` | the calculator agrees with the writer under XCDR1 |
| `codec` | `WrittenIsRead` | the decoder reads each byte written, no padding, and stops at the end |
| | `SizesAgree` | the sizing walk agrees with the writing one |
| `schema` | `PlansMeanText` | every field decodes as the text says: type, enum, length, cases |
| | `ConstantsKept` | constants come out with their values in any order of the text |
| | `RefusedForCause` | what is refused has a fault |
| | `CirclesRefused`, `ArraysRefused` | constants in a circle are refused, and arrays that are composed |
| | `RootsAgree`, `PlansWellFormed` | decoder, Python reader and writer start from one definition; no plan is missing |
| | `FieldsFindTheirBlocks` | a ros2msg type without a package is found in that of its block, in any order |
| | `UnionsNamed` | a discriminator has the names of an enum or of constants near it that fit its cases; of the one enum of its own module if nothing else is near and it fits, else none |
| `ros_clock` | `ClockNormal`, `ClockWithin` | no carry is lost over any sequence of calls; floats lose what doubles do, and a second below zero at the most |

Six runs show a disagreement between the code and what the repository says of
it (quoted in `PROJECT.json`, `findings`):

* `native_consumes`: "Every supported element consumes at least one byte" is not
  so for a type that holds only an empty fixed array.
* `native_errors`: a 64-bit discriminant above the range of `i64` raises
  OverflowError, where malformed payloads are said to raise ValueError.
* `parsed_once`: a schema whose parsing raises is parsed again for every message.
* `empty_arrays`: an empty array given as bytes or a typed buffer is padded, given
  as a list it is not, and the reader expects it is not.
* `codec_size`: `calculate_byte_size` differs from what is written for texts that
  are not ASCII, empty sequences of wide items, and default texts. The buffer
  grows, so what is written is right all the same.
* `ros2_texts`: the factory has ros2msg schemas read as ROS 1 texts: bounded strings
  and arrays, `wstring` and `builtin_interfaces` without its block make it raise.

### Bounds

* `native`: twenty-two schemas, chosen so that every branch of the decoder is taken
  and combined: bulk and item-wise arrays, sequences in sequences, types that
  contain themselves, empty types, unions in arrays and with defaults, unknown
  kinds. Payloads of 3 to 28 bytes reach both alignments of eight-byte numbers, and
  leave every kind of read cut short. Numbers are -1, 0, 1, 2, 3 and 9; 9 is above
  `MaxSigned = 7`, which stands for `i64::MAX`, and more than most payloads hold.
  `MaxDepth = 2` for 128: what happens at the limit does not depend on where it
  is, and the theorem about it holds for every limit. `RecursionLimit = 4` for the
  1000 frames of the interpreter, deeper than that as there. Plain kinds with both
  eight-byte alignments and a kind and a header that are refused.
* `factory`: two threads, three calls each, a schema of each outcome. Two threads
  are enough for every overlap of one look-up with another's store; safety is
  proved for any number.
* `stream`: kinds 2 (XCDR1, big-endian) and 17 (XCDR2, little-endian), a buffer of
  no size, numbers of one and eight bytes, members on both sides of each limit of
  the headers, three writer calls and one move of a reader. Three calls are a
  header that moves the origin, something that is aligned by it, and something
  behind; `MaxWord = 70000` stands for 2^32 - 1.
* `schema`: eight families of texts. Two constants that may need each other or an
  enumerator, an enum and a user, in all 24 orders, in one module, in two or in none;
  one type name in any of three scopes, used from each of them, directly and through a
  typedef; all chains of three typedefs of the three forms with four ends; unions
  with an enum of their own module that has all their cases or not, with constants, with
  an enum of a module that begins alike or not, and with none of these; up to
  three declarations before or in place of the root; two declarations of any kinds with
  one name, in both orders, alone or with a user; ros2msg blocks in all orders and
  repeated; and single texts at the edges: none at all, a negative length, a name given
  to a struct and an enum in every order. A forward reference, a shadowed name, a circle
  and a composition each need two or three declarations; a third scope tells the
  innermost from the outermost.
* `ros_clock`: `Kilo = 2`, a second of 8 nanoseconds (TLC's integers have 32 bits),
  eight spans on both sides of zero and of a second, four fractions, an interval that
  stays within 32 nanoseconds of zero. `Precision = 128`, so that the same few spans
  hold times which doubles leave as they are (`Off` is 0 up to a second) and times
  which they do not; `Horizon` is room for several such calls and a late second. The
  theorems hold for every even `Kilo`, 1000 among them, every `Precision`, 2^53 among
  them, and every span.
* `codec`: fourteen schemas that pair each branch of the walks with a neighbour whose
  alignment shows a wrong position, nest to the decoder's limit (`MaxDepth = 2`) and
  beyond it, or contain themselves, and messages of each kind of value. `MaxNesting = 5`
  is deeper than any message of the run but one that goes on for ever. The theorems hold for
  every schema, message and limit.

No symmetry is declared: the instances are small without.

### Fairness and deadlock

`NativeDecoder!FairSpec` is weak fairness of the next step: a decoder call is a
sequential function under the GIL, it goes on while it can. `DecodeFactory!FairSpec`
is weak fairness of each thread's steps inside a call (the interpreter switches
between runnable threads) and none of `Call`: nobody must call. The stream, the
codec, the schema and the clock have no fairness and no liveness (each step of a
schema moves `at` or `stage` on, so it ends by its shape). All systems stop when their work is done,
so `CHECK_DEADLOCK FALSE` (not the clock); that no walk stops half way is `Terminates` and
`CallsReturn`.

## Proofs

All for every value of the constants, from the `ASSUME`s of the modules, which say
no more than the types of the constants; TLC evaluates them in each run.

* **Types of the decoder** (`TypeOKHolds`). `TypeOK` is not inductive: that the
  plan on top of the stack exists follows from `Decoder::new` having checked every
  target. `TypeInv` says so of each frame (`GoodFrame`): a `"plan"` frame and a
  field of kind complex name a plan of the schema. One lemma for each group of
  actions; `Continue` and `Raise`, by which all of them move the stack, have
  lemmas of their own.
* **Reads** (`ReadsSound`, `DecoderIsACursor`, `ReadsAsCursorHolds`). `StepShape`
  abstracts a step to: it reads or does not, and it goes on, ends or raises. Every
  action has that shape (`NextShape`); `SpansSound` and the refinement to `CdrCursor`
  follow from the shape alone, with the arithmetic of alignment in `PaddingBound`
  and `AppendContiguous`.
* **Allocation** (`LoopsNestHolds`). The invariant `NestInv` adds to `LoopsNest` that
  depths do not grow from the top of the stack to its bottom, and what each kind
  of frame was admitted with; `NestContinue` shows it for any replacement of the
  top frame by frames at its depth or one below.
* **The Python reader** (`AgreesWithPythonHolds`). The decoder walks in many steps, the
  Python reader is a function, so the invariant (`AgreeInv`) says of each state what
  the Python reader would make of the rest: `Rest(g, fr, s)` is where it stands when,
  from the state `s`, it has read what the call `fr` has left to read, and to do so for
  one call in progress after the other (`Todo`), from where the decoder stands (`Here`),
  comes to what the Python reader makes of the whole payload. Numbers that were not read
  yet are not known to the decoder, so this is said for every `c` that extends `cells`.
  One lemma for each action shows that the calls which replace the innermost one read
  what it had left (`Goes`), and `Resume` that the rest of the stack goes on from there.
  What the loops of the Python reader come to is shown for lists of steps (`LoopSplits`,
  `LoopFirst`), its nesting by levels (`LevelsRead`). Where the decoder
  raises there is nothing to show. Nothing is assumed of the interpreter but that it
  nests deeper than `MaxDepth` (`RecursionAssumption`).
* **Factory** (`FactoryTypeOKHolds`, `VerdictsSoundHolds`, `VerdictsKeptHolds`).
  `Progress(t)`: a thread that is about to store or to mark asked for a schema that
  parses, or does not.
* **Builds of the factory** (`NoLateBuildHolds`). The bound on builds is not inductive.
  `BuildInv` counts the threads whose call began before the schema had its verdict and
  may still build it (`Asking`), and those that built it and have not given theirs
  (`Built`). The builds of a schema and the threads still asking are never more than
  the threads, and until there is a verdict the threads in `Built` made all the builds. The only assumption is that threads are finitely many (`ThreadsAssumption`).
* **The factory implements its service** (`ActsAsServiceHolds`). A step that ends a
  call is the service's answer, the others are stutters; that the answer is the one
  the schema deserves is `VerdictsSound` where a cache answers, `Progress` where a
  build did. The theorem is of `Spec`, so the safety part; that calls return is TLC's.
* **Writer** (`RoomHolds`). `RoomInv` is `TypeOK /\ RoomSuffices`, and is inductive:
  `Sound(w)` of the record that a call passes on is kept by `Aligned` and `Put`, each
  time with the room that `Aligned` made for the bytes `Put` writes.
* **Types of the stream** (`StreamTypeOKHolds`). `StreamInv` adds to the types that an
  array that is still being written is the last call of the log and nobody reads yet,
  and of each reader that it is not before the data nor ahead of the log. A call that
  raises half way has to leave no items behind: the one case where it would have, an
  array whose length did not fit, was met by this proof.
* **Where a call leaves its bytes** (`Laid`, in `CdrLayout_proofs`). One lemma for each
  call of the writer: under which origin and from where on its bytes lie, with the
  length in front, the padding and, in an array written item by item, what is left to
  write. A reading is later compared with that and never with the writer's steps.
* **Sizes** (`SizeAgreesHolds`). Between the items of an array the calculator is ahead
  of the writer by the items that are left; `SizeInv` says by how much. An array of n
  items that are each aligned takes as much as n items behind one alignment, because
  behind an item of its width nothing is padded.
* **Round trip** (`RoundTripHolds`). `LayoutInv`: the calls of the log lie in the data
  one behind the other, each under the origin that the last call before it left that
  moves origins. `FollowInv`: a reader in step stands where its next call lies, with
  that origin, and so does each place it may be sent back to. It is not enough to
  stand *at* that place: behind half a sentinel (see `Answers`) a reader is two bytes before it,
  and goes on rightly where the next call aligns by four or eight (`Placed`). Then one
  lemma for each call of the reader says what it returns from bytes that are laid so
  (`CallWhole`), the whole of it if the limit allows, else a part of it or an error
  (`Answered`).
* **Schemas** (`CompiledIsWellFormed`, `FieldsGoToTheirTypes`, `RootIsThePythonRoot`).
  Numbers of plans are
  ranks of positions among the first ones of their names. `RankUnique` and `NthRank`
  say that `Rank` counts a finite set of positions without gaps, by its least and
  greatest elements; so each index is a plan (`IndexInRange`), and it is the plan of
  its name (`IndexFindsName`), which of equal names holds the last. So the target of
  a field is not only some plan but that of the definition its type names.
* **Types of the passes** (`SchemaTypeOKHolds`, `PlansWellFormedHolds`). The inductive
  invariant is `PassesInv`. `PlacesOK`: each pass has a declaration, item or definition
  to look at, so that an empty list is never entered. `NodesOK`: the declarations before
  `at` have the form that the pass leaves, those behind it still the form that the one
  before left (`ParsedNode`, `ResolvedNode`); only a pass that found no failure goes
  on, which is why lengths and bounds are numbers when they are converted. Beside them
  the tables, the definitions (`TypedDefinition`: kinds that the decoder has a name for)
  and that a schema is what `Compiled` makes of definitions that compile. One lemma for
  each action over one for what it does with a declaration. What the recursive functions
  (`Evaluation`, the chain of `_resolve_typedef`, folds) return is of its type by
  induction over a set of numbers (`Induct`).
* **Fields of ros2msg texts** (`FieldsFindTheirBlocksHolds`). `BlocksOK`: `fixup_types`
  replaces names one definition after the other while it looks into all of them, but it
  changes no name of a definition, so what a type matches is the same before and after
  (`MatchesByName`). A match is the name that the line has, in the package of the block
  (`MatchForms`), and plans of distinct names are numbered in the order of the
  definitions (`DistinctPlaces`).
* **Roots** (`RootsAgreeHolds`). `MapOK`: every item of `idl_map` has a name that some
  declaration enters (a struct enters as a struct, an enum and its members as none), a
  struct that was visited still has its name there, and a struct that was converted has
  its name among the definitions, with fields that are no constants. So a name that one
  struct alone declares comes out as a struct that is no constant module, and the reader
  takes it, whatever is defined before it (`SoleStructKept`, `WantedRoot`). All that a
  ros2msg text defines are structs, so without the wanted name the first data definition
  is the root, for the writer as well (`UnwantedRoot`). To state this it had to be said
  what the wanted name may stand for: of a struct and an enum of one name the map keeps
  the last (`SoleStruct`).
* **Constants** (`ConstantsKeptHolds`). The parser knows constants by a flat table and
  evaluates them in two passes, the rules by scopes and in rounds; the two meet in
  `Meant`: where the keys of the table are unique, constants whose names end alike are
  one declaration (`SameLast`), so what the rules find in any scope for a name is what
  its last part alone stands for (`ItemMeant`); a constant that is known in one round
  keeps its value in the later ones, so a constant is worth what the sum comes to that
  it is written with (`WorthFixed`). `ConstantsOK`, the invariant of the passes
  over the values, does not say what the table holds but what it means: `TableMeant`, that
  an entry never means another number than the rules give; of each declaration, that its
  value, a number or a sum that is still to be resolved, still means its number
  (`StillMeans`) and, once resolved, is it. A sum that waits for a name may be evaluated
  in any order with that. `DefinitionsOK` then says which items are in the map, name by
  name, the last of equal ones (`ItemsAre`), and that each one converted is among the
  definitions, so that a constant of a module is in that of the module (`OwnKept`) and
  one outside in that of the rest (`TopKept`). To state it the property had to be made
  more precise (see `DeclaredOnce` and `Times` below).
* **Circles** (`CirclesRefusedHolds`), the converse. In the rounds of the rules what is
  worth something stays (`Settled`: a sum fails with its first failure, which stays too),
  so each round settles a constant or changes nothing, and after as many rounds as there
  are constants all is settled (`WorthSettled`): a constant without a worth is written
  with one (`CircleHasItem`). `CirclesOK`: such a constant is a list in which such a name
  stands, as a declaration and in the table (`Turning`), for a sum is added up only when
  all its names have numbers (`SumTurns`); by induction over the names that are looked
  up no number comes out of it (`EvalTurns`), so it is never resolved. A text constant is
  still the text when it is resolved, as a name that must be in the table (`EvalText`).
  That a text may say a constant's name came to light here: the property said before that
  texts are refused.
* **Types and sizes of messages** (`CodecTypeCorrect`, `SizesHold`). What a walk does
  with a value is shown for every depth at once: by induction, each level is a function
  from writers to writers that come out further, in order and with nothing taken back
  (`Deeper`, `Grown`). `Agree` says where the sizer stands when the writer has lost
  nobody; each construct of one walk keeps it together with its counterpart in the other
  (`Alike`), item by item against one multiplication for arrays of numbers.
* **What is written is read** (`WrittenIsReadHolds`). The writer walks in one step, the
  decoder in many, so the invariant (`CodecReads`) keeps for the decoder's stack a list
  `ws` of writers: the one that stands where the decoder stands, and for each frame the
  one that had finished what the frame still has to read. `Owes` says what a frame owes
  between two of them: the rest of a definition, an array that was announced, so many
  elements, a text, the second half of a time. `Reading(ws)` adds that the decoder has
  read what the first of them has put, that the last is the body, and that all of them
  still have the decoder with them. One lemma for each group of the decoder's actions
  shows that the step is the one the writer expects and which list it leaves. That no
  length is refused needs that each element takes a byte (`lost` would name the decoder
  else), that no depth is refused that the level of the walk is bound to the depth of
  the frame.
* **Times** (`ClockStaysNormal`, `ClockStaysWithin`). The inductive invariant is both
  properties at once, for neither is kept alone (a sum is what it should be only if its
  nanoseconds are carried, and a comparison only if they are those of a second), and
  that the ends of the interval are numbers. `MovedKeeps` and `PassedKeeps` say when a
  call keeps it, one lemma per action shows that the interval grows with what it is
  reckoned from (`TowardsGrows`, `InMillisGrows`, `SlackGrows`). Below are `DivMod`,
  `DivUnique`, `DivShift` and `DivGrows` about quotient and remainder, `DoublesRound`
  (what is left of an error once it is rounded) and `RoundShift`: whole seconds may be
  taken out of a fraction before rounding, because a second has an even number of
  nanoseconds (`GigaEven`, from `Kilo % 2 = 0`) and `round` goes to the even neighbour.
  What doubles lose is an assumption of the model (`Doubles`), not proved of IEEE 754.

Where an induction over numbers is needed (the items the calculator counts, the steps of
a recursive function) it is over a set of numbers and not a predicate (`NatInduct`,
`Induct`, from a least counterexample), because the library's theorems take the predicate
as a parameter. Of literals the provers do not know that they are in `STRING`; what is
needed of it is `StringsAssumption`, which TLC evaluates with the others.

Only checked by TLC:

* `Terminates` and `CallsReturn`: liveness is out of reach of the prover.
* The other properties of `SchemaMeaning`. `PlansMeanText` needs for types what the proof
  of `ConstantsKept` has for values, with typedefs followed by both sides in different
  orders; `ArraysRefused` the typedefs alone; `RefusedForCause` that what fails has a
  fault; `UnionsNamed` where the first
  definition that fits a union's prefix comes from. `ScopingRules` would
  allow for them: it has no recursive operators.

## Where the code departs

What the models met beside the findings above. Each is outside the properties by a
condition with a name, so that a run shows where the boundary is.

* A sequence of a kind that nobody knows (a `wchar`, say) is accepted by the decoder
  when it is empty (lib.rs:247), while the Python reader refuses it before it looks at
  the length (_python_reader.py:231): the proof of `AgreesWithPython` met this. Fixed
  arrays of length zero are read differently too, as DESIGN.md says (`Comparable`).
* A string constant in IDL raises "Unknown identifier", for its value is looked up as a
  name (parse.py:508); if it says the name of a constant it is taken for that constant,
  and may be in a circle with it. `RefusedForCause` allows for it (`Texty`) and
  `CirclesRefused` states it.
* The table of constants knows no scopes (parse.py:407, 478): of equal names in two
  modules one wins, `a::N` is never found, names that are not in scope are, and
  circles may arise through them (`KeysUnique`, `Undeclared`, `Unseen`).
* A module that is opened twice keeps only the constants of its last opening
  (process.py:72). So it is with a module, or a constant outside all modules, whose name
  the text declares as something else too, behind it: the proof of `ConstantsKept` met
  this (`DeclaredOnce`).
* What parse_ros2idl does to the fields of Time and Duration it does to the constants of
  a module of that name (ros2idl_parser/parse.py:92): `nanosec` becomes `nsec`, which
  `ConstantsKept` leaves out (`Times`).
* Arrays of sequences in one declarator, and array typedefs with a plain typedef
  between them, are accepted as something else (process.py:117, 183; `Composed`).
* A field whose type name is the full name of a type at top level takes that one,
  whatever is nearer (parse.py:580); typedefs and switches with a partly qualified
  name are left as they are (parse.py:606, 622; `SameName`).
* An IDL array whose length comes out below zero is accepted: -1 is a single value to the
  decoder and -2 a sequence (message_reader.py:37), any other raises when it is read.
* Of two declarations of one name the last one stays, in the place of the first
  (process.py:67), also where one is a type and the other a constant or a module: then
  the type is gone, and what refers to it means something else (`TypesUnique`,
  `SoleStruct`). Two array typedefs of one name may so hide an array in an array.
* A typedef of a bounded string or of a sequence of sequences raises AttributeError
  (parse.py:620), which the factory takes for an unsupported schema.
* An enumerator with `@value` always raises (parse.py:455).
* A union's discriminator is named by the first enum or constant module that fits,
  in any module whose path begins with the same letters, whatever the switch
  (_python_reader.py:113); a union the schema is named after is not its root
  (_python_reader.py:61).
* Of two ros2msg blocks with one name and different fields the decoder starts from
  the last, the Python reader from the first (`NamesDistinct`); read as ROS 1,
  constants have no values, `byte` is signed, and `char[]` and `byte[]` are kinds the
  decoder does not know.
* `from_sec`, `from_millis` and `from_micros` of a time below zero that is no whole
  second are a second late, and so is `interpolate` backwards. `ClockWithin` allows for
  that second (`Late` in `RosClock`) and would not notice that it is gone.
* `to_sec` holds a time since 1970 to some hundred nanoseconds, so `from_sec(to_sec(t))`
  is not `t`, and `interpolate` between times that are years apart is as coarse.
* A text constant that is written as a number would do for a length of an array or a
  bound of a string (parse.py:279, `int`); the model has no such texts (`Length`).

## Plan

Done: `NativeDecoder` with `CdrCursor`, `PythonReader`, `DecodeFactory` with
`SchemaService`, `CdrStream`, `MessageCodec`; then `SchemaCompile`, the parsers and
`SchemaBuild` with `ScopingRules`, `RosTime` with `RosClock`; proofs of the safety of
the decoder, of the factory with its refinement, of the stream (buffer, types, sizes,
round trip), of the decoder beside the Python reader, of messages (types, sizes, what
is written is read), of the passes (types, plans, roots, blocks, constants, circles) and
of the clock.

Left, all of it proofs:

1. `PlansMeanText` for types that are no typedefs, from `DefinitionsOK`; then `Links` of
   the rules against the chain of `_resolve_typedef`.
2. `ArraysRefused`, `UnionsNamed` and `RefusedForCause`.

## Not modelled

* Lark's grammar and the regular expressions of the parsers: text to tree. What the
  passes do with the tree is modelled.
* In the IDL parser: floats, annotations and default values, which reach no plan.
* `interpolate` with a fraction below 0 or above 1, and `percent_of`.
* `rosmsg/md5.py`, `rosmsg/stringify.py`, and the texts and dates of `rostime`: text
  to text, without state.
* The CLI and the benchmarks (loops of I/O), and the external `mcap` package.
* A factory that is used for the files of several readers: nothing says what it
  should do.
