SPECIFICATION Spec
CONSTANTS
  Text <- AnyText
  Specs <- MCSpecs
  Layouts <- MCLayouts
  MaxFaults = 2
  MaxEdits = 3
INVARIANTS TypeOK OneKindOfSource
PROPERTIES SpokesAreTold ArgoFollowsPattern WritesEnd
CHECK_DEADLOCK FALSE
