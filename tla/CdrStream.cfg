SPECIFICATION Spec
CONSTANTS
  Kinds = {2, 17}
  Rooms = {0}
  Numbers = {7, 300}
  MaxWord = 70000
  Widths = {1, 8}
  Texts = {2}
  Arrays <- MCArrays
  Members <- MCMembers
  AlignSizes = {0, 8}
  Limits = {0, 5, 10}
  MaxCalls = 3
  MaxMoves = 1
INVARIANTS
  StreamTypeOK
  RoomSuffices
  SizeAgrees
PROPERTIES
  RoundTrip
CHECK_DEADLOCK FALSE
