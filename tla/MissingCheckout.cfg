SPECIFICATION Spec
CONSTANTS
  Text <- AnyText
  Specs <- OneSpec
  Layouts <- OneLayout
  MaxFaults = 0
  MaxEdits = 2
INVARIANT ChartFitsTheRepository
CHECK_DEADLOCK FALSE
