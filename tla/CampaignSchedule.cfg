\* A campaign that is drafted or scheduled, every operation of the API, the
\* trigger and the cron; calls may throw.  Its only contact has no usable address:
\* what happens to sends is the other runs' matter.
CONSTANTS
  Contacts = {1}
  Workers = {w1}
  Clients = {r1}
  Crons = {k1}
  ChunkSize = 2
  Channel = "EMAIL"
  UnitCost = 1
  Parts = 1
  Segments <- MCAll
  Reachable = {}
  EstimatedCost = 2
  Credits = {1, 2}
  QuietHours = {0}
  QuietDelay = 1
  EvaluateDelay = 0
  CancelMargin = 1
  SamplePct = 50
  ABKinds = {TRUE, FALSE}
  Operations = {"send", "cancel", "cancelScheduled", "delete", "saveDraft", "update", "evaluate"}
  Dates = {0, 1}
  MaxTime = 1
  Leavers = {}
  OthersSpend = FALSE
  MaxRequests = 1
  MaxFaults = 1
  MaxCrashes = 1
  MaxFailures = 1
SPECIFICATION FairSpec
INVARIANT FailedOnlyWhenBroke
PROPERTY PickedUp
CHECK_DEADLOCK FALSE
