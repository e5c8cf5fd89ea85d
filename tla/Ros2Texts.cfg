SPECIFICATION Spec
CONSTANTS
  Texts <- RosTexts
  UnknownKinds <- MCUnknown
  Initials <- MCInitials
INVARIANT
  Ros2TextsRead
CHECK_DEADLOCK FALSE
