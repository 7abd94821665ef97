SPECIFICATION FairSpec
CONSTANTS
  Specs = {s1, s2}
  Configs = {c1, c2}
  DefaultConfig = c1
  Starts = {"fresh", "gitops", "legacy"}
  Slips = {"disowned"}
  MaxFaults = 1
  MaxEdits = 1
PROPERTIES Converges
CHECK_DEADLOCK FALSE
