\* One campaign sent at once in one chunk, plain or A/B, by one worker that may
\* die once.
CONSTANTS
  Contacts = {1, 2, 3}
  Workers = {w1}
  Clients = {r1}
  Crons = {}
  ChunkSize = 3
  Channel = "SMS"
  UnitCost = 1
  Parts = 1
  Segments <- MCAll
  Reachable = {1, 2, 3}
  EstimatedCost = 3
  Credits = {3}
  QuietHours = {}
  QuietDelay = 1
  EvaluateDelay = 0
  CancelMargin = 1
  SamplePct = 50
  ABKinds = {TRUE, FALSE}
  Operations = {"send"}
  Dates = {}
  MaxTime = 0
  Leavers = {3}
  OthersSpend = FALSE
  MaxRequests = 1
  MaxFaults = 0
  MaxCrashes = 1
  MaxFailures = 1
SPECIFICATION FairSpec
PROPERTIES KeepsPromise Completes
CHECK_DEADLOCK FALSE
