SPECIFICATION Spec
CONSTANTS
  acm = acm
  web = web
  c1 = c1
  HubApps = {acm}
  AcmApp = acm
  Clusters = {c1}
  Slips = {"defaults", "app", "hub", "search", "clusters", "unpruned", "late"}
  MaxFaults = 1
  MaxEdits = 2
INVARIANT TypeOK
INVARIANT SpokesClearedBeforeHub
INVARIANT ClustersDetachedBeforeHub
INVARIANT NothingLeftBehind
PROPERTY PhaseAdvances
PROPERTY SpokeChildrenFirst
CHECK_DEADLOCK FALSE
