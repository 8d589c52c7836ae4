\* Three contacts in chunks of two, one worker, nothing fails.
CONSTANTS
  Contacts = {1, 2, 3}
  Workers = {w1}
  Clients = {r1}
  Crons = {}
  ChunkSize = 2
  Channel = "SMS"
  UnitCost = 1
  Parts = 1
  Segments <- MCAll
  Reachable = {1, 2, 3}
  EstimatedCost = 3
  Credits = {3}
  QuietHours = {}
  QuietDelay = 1
  EvaluateDelay = 0
  CancelMargin = 1
  SamplePct = 50
  ABKinds = {FALSE}
  Operations = {"send"}
  Dates = {}
  MaxTime = 0
  Leavers = {}
  OthersSpend = FALSE
  MaxRequests = 1
  MaxFaults = 0
  MaxCrashes = 0
  MaxFailures = 0
SPECIFICATION Spec
INVARIANTS NotLeftSending
CHECK_DEADLOCK FALSE
