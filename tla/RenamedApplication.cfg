SPECIFICATION FairSpec
CONSTANTS
  Names = {a, b}
  Healths = {ok}
  Chosen = {}
  MaxFaults = 0
  MaxEdits = 2
  MaxHours = 0
PROPERTIES ApplicationsReported
CHECK_DEADLOCK FALSE
