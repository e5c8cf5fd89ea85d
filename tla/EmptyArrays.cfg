SPECIFICATION Spec
CONSTANTS
  Kinds = {1}
  Rooms = {16}
  Numbers = {7}
  MaxWord = 70000
  Widths = {8}
  Texts = {2}
  Arrays <- MCArrays
  Members <- MCMembers
  AlignSizes = {}
  Limits = {}
  MaxCalls = 2
  MaxMoves = 0
PROPERTIES
  EmptyArraysReadBack
CHECK_DEADLOCK FALSE
