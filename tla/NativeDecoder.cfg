SPECIFICATION FairSpec
CONSTANTS
  MCSizes = {3, 4, 6, 9, 12, 17, 28}
  MCKinds = {0, 1, 2, 7}
  MCReserved = {0, 1}
  MCChoice = "all"
  Schemas <- MCSchemas
  Payloads <- MCPayloads
  Contents <- MCContents
  UnknownKinds = {"", "wchar"}
  Words <- MCWords
  MaxSigned = 7
  MaxDepth = 2
  RecursionLimit = 4
INVARIANTS
  TypeOK
  SpansSound
  LoopsNest
  AgreesWithPython
PROPERTIES
  ReadsAsCursor
  Terminates
CHECK_DEADLOCK FALSE
