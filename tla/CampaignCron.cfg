\* A scheduled campaign that costs 2, of an account that has 10, when its date comes.
CONSTANTS
  Contacts = {1}
  Workers = {w1}
  Clients = {}
  Crons = {k1}
  ChunkSize = 2
  Channel = "SMS"
  UnitCost = 1
  Parts = 1
  Segments <- MCAll
  Reachable = {1}
  EstimatedCost = 2
  Credits = {10}
  QuietHours = {}
  QuietDelay = 1
  EvaluateDelay = 0
  CancelMargin = 1
  SamplePct = 50
  ABKinds = {FALSE}
  Operations = {}
  Dates = {1}
  MaxTime = 1
  Leavers = {}
  OthersSpend = FALSE
  MaxRequests = 0
  MaxFaults = 0
  MaxCrashes = 0
  MaxFailures = 0
SPECIFICATION Spec
INVARIANTS FailedOnlyWhenBroke
CHECK_DEADLOCK FALSE
