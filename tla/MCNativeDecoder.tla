--------------------------- MODULE MCNativeDecoder ---------------------------
(***************************************************************************)
(* Small schemas and payloads for the compiled decoder.                    *)
(***************************************************************************)
EXTENDS DecoderReference, FiniteSets

CONSTANTS MCSizes, MCKinds, MCReserved, MCChoice

Prim(kind, count) == [kind |-> kind, target |-> 0, count |-> count, mapped |-> FALSE]
Enum(count) == [kind |-> "uint32", target |-> 0, count |-> count, mapped |-> TRUE]
Of(target, count) == [kind |-> "complex", target |-> target, count |-> count, mapped |-> FALSE]

Struct(fields) ==
  [union |-> FALSE, switch |-> "", fields |-> fields, cases |-> <<>>, default |-> <<>>]
Switch(kind, cases, default) ==
  [union |-> TRUE, switch |-> kind, fields |-> <<>>, cases |-> cases, default |-> default]
Arm(values, f) == [values |-> values, field |-> f]
Decoder(bytes, plans) == [plans |-> plans, root |-> 1, bytes |-> bytes]

\* Primitives, bytes and strings; bulk arrays of wide numbers; enum arrays.
Flat ==
  { Decoder(TRUE, <<Struct(<<Prim("bool", -1), Prim("uint8", -2), Prim("string", -1)>>)>>),
    Decoder(FALSE, <<Struct(<<Prim("uint8", -2), Prim("float64", -2), Prim("int16", 2)>>)>>),
    Decoder(FALSE, <<Struct(<<Prim("int8", -1), Enum(-2), Prim("duration", -1)>>)>>),
    Decoder(TRUE, <<Struct(<<Prim("uint8", 0), Prim("time", 1), Prim("uint64", 0)>>)>>),
    Decoder(TRUE, <<Struct(<<Prim("uint8", -1), Prim("float64", -1), Prim("int64", 1)>>)>>) }

\* Sequences in sequences, recursive types, empty types, unions in arrays.
Deep ==
  { Decoder(FALSE, <<Struct(<<Of(2, -2), Prim("uint8", -1)>>), Struct(<<Of(3, -2)>>),
                     Struct(<<Prim("string", 1)>>)>>),
    Decoder(FALSE, <<Struct(<<Prim("uint8", -1), Of(1, -2)>>)>>),
    Decoder(FALSE, <<Struct(<<Of(1, 1)>>)>>),
    Decoder(FALSE, <<Struct(<<Of(3, -2), Of(2, 2)>>), Struct(<<>>),
                     Struct(<<Prim("uint8", 0)>>)>>),
    Decoder(FALSE, <<Struct(<<Of(2, -2)>>),
                     Switch("int32", <<Arm({-1, 1}, Prim("uint16", 2)), Arm({1, 2}, Of(3, -1))>>, <<>>),
                     Struct(<<Prim("uint8", -1)>>)>>),
    Decoder(TRUE, <<Switch("uint64", <<Arm({0, 1}, Prim("uint8", -2))>>, <<Prim("bool", 2)>>)>>),
    Decoder(FALSE, <<Switch("bool", <<Arm({1}, Of(2, 2))>>, <<>>), Struct(<<Prim("int16", -1)>>)>>) }

\* What raises at once: text that is wide, lengths below zero, kinds nobody
\* knows, unions that switch on something else than an integer, plans that do
\* not hold together.
Bad ==
  { Decoder(FALSE, <<Struct(<<Prim("wstring", -2)>>)>>),
    Decoder(FALSE, <<Struct(<<Prim("uint8", -1), Prim("wchar", 1)>>)>>),
    Decoder(FALSE, <<Struct(<<Prim("wchar", -2)>>)>>),
    Decoder(FALSE, <<Struct(<<Prim("uint8", -3)>>)>>),
    Decoder(FALSE, <<Switch("float32", <<>>, <<Prim("uint8", -1)>>)>>),
    Decoder(FALSE, <<Switch("time", <<>>, <<Prim("uint8", -1)>>)>>),
    Decoder(FALSE, <<Switch("string", <<>>, <<Prim("uint8", -1)>>)>>),
    Decoder(FALSE, <<Switch("wstring", <<>>, <<Prim("uint8", -1)>>)>>),
    Decoder(FALSE, <<Switch("", <<>>, <<Prim("uint8", -1)>>)>>),
    Decoder(FALSE, <<Struct(<<Of(2, -1)>>)>>) }

MCSchemas ==
  CASE MCChoice = "all" -> Flat \cup Deep \cup Bad
    [] MCChoice = "sound" -> Flat \cup Deep

MCPayloads == [size : MCSizes, reserved : MCReserved, kind : MCKinds]

MCContents == {<<>>}

MCWords == {-1, 0, 1, 2, 3, 9}

=============================================================================
