SPECIFICATION Spec
CONSTANTS
  Specs = {s1}
  Configs = {c1, c2}
  DefaultConfig = c1
  Starts = {"fresh", "gitops", "legacy"}
  Slips = {"argo", "deleted"}
  MaxFaults = 1
  MaxEdits = 1
INVARIANTS TypeOK OneInstallation DefaultKeptInUse
PROPERTIES BundleBeforeArgoCD
CHECK_DEADLOCK FALSE
