CONSTANTS
  Requests <- MaybeEmpty
  Stored <- MCStored
  NameCap = 5
  LowCap = 4
  RawCap = 3
  TargetMax = 5
  TargetFirst = 2
  HdrsMax = 2
  HdrsFirst = 1
  FieldsMax = 3
  MaxNumber = 50
  AllocOutcomes = {TRUE}
SPECIFICATION Spec
INVARIANT SeenAsSent
CHECK_DEADLOCK FALSE
