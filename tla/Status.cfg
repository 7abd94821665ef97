SPECIFICATION FairSpec
CONSTANTS
  Names = {a, b}
  Healths = {ok, bad}
  Chosen = {uuid}
  MaxFaults = 1
  MaxEdits = 1
  MaxHours = 1
INVARIANTS TypeOK RecordedWasSent SentOnce OneUser
PROPERTIES BitsKept Settles HealthReported
CHECK_DEADLOCK FALSE
