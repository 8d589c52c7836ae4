\* One campaign sent at once, plain or A/B, by two workers and in chunks of two
\* rows; nothing fails.
CONSTANTS
  Contacts = {1, 2, 3}
  Workers = {w1, w2}
  Clients = {r1}
  Crons = {}
  ChunkSize = 2
  Channel = "SMS"
  UnitCost = 1
  Parts = 1
  Segments <- MCAll
  Reachable = {1, 2, 3}
  EstimatedCost = 3
  Credits = {3}
  QuietHours = {}
  QuietDelay = 1
  EvaluateDelay = 0
  CancelMargin = 1
  SamplePct = 50
  ABKinds = {TRUE, FALSE}
  Operations = {"send"}
  Dates = {}
  MaxTime = 0
  Leavers = {3}
  OthersSpend = TRUE
  MaxRequests = 1
  MaxFaults = 0
  MaxCrashes = 0
  MaxFailures = 0
SPECIFICATION Spec
INVARIANTS TypeOK HandedOnce PaidOnceAndOnlyForSent SentIsPaid CountersMatchRows SentMeansDrained RemainderGetsWinner
SYMMETRY WorkerSymmetry
CHECK_DEADLOCK FALSE
