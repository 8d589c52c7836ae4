\* A campaign is scheduled for the first of two instants of quiet hours.
CONSTANTS
  Contacts = {1}
  Workers = {w1}
  Clients = {r1}
  Crons = {}
  ChunkSize = 2
  Channel = "SMS"
  UnitCost = 1
  Parts = 1
  Segments <- MCAll
  Reachable = {1}
  EstimatedCost = 3
  Credits = {3}
  QuietHours = {1, 2}
  QuietDelay = 1
  EvaluateDelay = 0
  CancelMargin = 1
  SamplePct = 50
  ABKinds = {FALSE}
  Operations = {"send"}
  Dates = {1}
  MaxTime = 2
  Leavers = {}
  OthersSpend = FALSE
  MaxRequests = 1
  MaxFaults = 0
  MaxCrashes = 0
  MaxFailures = 0
SPECIFICATION Spec
PROPERTIES QuietHoursRespected
CHECK_DEADLOCK FALSE
