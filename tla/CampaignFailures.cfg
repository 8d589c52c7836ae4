\* One campaign sent at once by two workers that may die, with calls that throw.
CONSTANTS
  Contacts = {1, 2}
  Workers = {w1, w2}
  Clients = {r1}
  Crons = {}
  ChunkSize = 2
  Channel = "SMS"
  UnitCost = 1
  Parts = 1
  Segments <- MCAll
  Reachable = {1, 2}
  EstimatedCost = 3
  Credits = {3}
  QuietHours = {}
  QuietDelay = 1
  EvaluateDelay = 0
  CancelMargin = 1
  SamplePct = 50
  ABKinds = {TRUE, FALSE}
  Operations = {"send"}
  Dates = {}
  MaxTime = 0
  Leavers = {}
  OthersSpend = FALSE
  MaxRequests = 1
  MaxFaults = 1
  MaxCrashes = 1
  MaxFailures = 2
SPECIFICATION Spec
INVARIANTS SendInv HandedAgainOnlyAfterDeath PaidOnceAndOnlyForSent
SYMMETRY WorkerSymmetry
CHECK_DEADLOCK FALSE
