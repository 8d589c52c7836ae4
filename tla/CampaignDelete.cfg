\* A campaign is deleted while it is sent.
CONSTANTS
  Contacts = {1}
  Workers = {w1}
  Clients = {r1}
  Crons = {}
  ChunkSize = 2
  Channel = "SMS"
  UnitCost = 1
  Parts = 1
  Segments <- MCAll
  Reachable = {1}
  EstimatedCost = 3
  Credits = {3}
  QuietHours = {}
  QuietDelay = 1
  EvaluateDelay = 0
  CancelMargin = 1
  SamplePct = 50
  ABKinds = {FALSE}
  Operations = {"send", "delete"}
  Dates = {1}
  MaxTime = 1
  Leavers = {}
  OthersSpend = FALSE
  MaxRequests = 2
  MaxFaults = 0
  MaxCrashes = 0
  MaxFailures = 0
SPECIFICATION Spec
PROPERTIES SentStays
CHECK_DEADLOCK FALSE
