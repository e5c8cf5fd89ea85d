SPECIFICATION Spec
CONSTANTS
  Threads = {t1}
  Ids <- MCIds
  ParseOf <- MCParseOf
  t1 = t1
  t2 = t2
  MaxCalls = 3
INVARIANTS
  ParsedOnce
CHECK_DEADLOCK FALSE
