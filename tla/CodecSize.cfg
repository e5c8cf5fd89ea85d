SPECIFICATION CodecSpec
CONSTANTS
  Subjects <- MCSubjects
  Values <- MCValues
  MaxNesting = 5
  Schemas <- MCNoPayloads
  Payloads <- MCNoPayloads
  Contents <- MCNoPayloads
  UnknownKinds = {"", "wchar"}
  Words <- MCWords
  MaxSigned = 7
  MaxDepth = 2
INVARIANTS
  CalculatedIsWritten
CHECK_DEADLOCK FALSE
