SPECIFICATION Spec
CONSTANTS
  MCSizes = {3, 4, 6, 9, 12, 17, 28}
  MCKinds = {0, 1, 2, 7}
  MCReserved = {0, 1}
  MCChoice = "sound"
  Schemas <- MCSchemas
  Payloads <- MCPayloads
  Contents <- MCContents
  UnknownKinds = {"", "wchar"}
  Words <- MCWords
  MaxSigned = 7
  MaxDepth = 2
  RecursionLimit = 4
INVARIANTS
  EveryElementConsumes
CHECK_DEADLOCK FALSE
