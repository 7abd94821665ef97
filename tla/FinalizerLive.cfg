SPECIFICATION FairSpec
CONSTANTS
  acm = acm
  web = web
  c1 = c1
  HubApps = {acm, web}
  AcmApp = acm
  Clusters = {c1}
  Slips = {}
  MaxFaults = 1
  MaxEdits = 2
PROPERTY ImplementsPhasedDeletion DeletionCompletes
CHECK_DEADLOCK FALSE
