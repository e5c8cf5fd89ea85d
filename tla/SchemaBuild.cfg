SPECIFICATION Spec
CONSTANTS
  Texts <- MCTexts
  UnknownKinds <- MCUnknown
  Initials <- MCInitials
INVARIANTS
  SchemaTypeOK
  PlansWellFormed
  ConstantsKept
  PlansMeanText
  RefusedForCause
  CirclesRefused
  ArraysRefused
  RootsAgree
  FieldsFindTheirBlocks
  UnionsNamed
CHECK_DEADLOCK FALSE
