SPECIFICATION FairSpec
CONSTANTS
  Threads <- MCThreads
  Ids <- MCIds
  ParseOf <- MCParseOf
  t1 = t1
  t2 = t2
  MaxCalls = 3
INVARIANTS
  TypeOK
  VerdictsSound
  NoLateBuild
PROPERTIES
  VerdictsKept
  CallsReturn
  ActsAsService
CHECK_DEADLOCK FALSE
