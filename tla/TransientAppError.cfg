SPECIFICATION Spec
CONSTANTS
  acm = acm
  web = web
  c1 = c1
  HubApps = {web}
  AcmApp = acm
  Clusters = {}
  Slips = {"app"}
  MaxFaults = 1
  MaxEdits = 0
INVARIANT TopLevelApplicationRemoved
CHECK_DEADLOCK FALSE
