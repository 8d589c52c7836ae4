CONSTANTS
  Contacts = {1, 2, 3}
  None = None
  EmailOf <- MCEmailOf
  PhoneOf <- MCPhoneOf
  Tags = {"new", "vip"}
  Executions = {1, 2, 3}
  Workers = 1
  Backends = {b1}
  Runs = {1, 2}
  Clients = {r1}
  Files = {1, 2}
  Lanes = {d1, d2}
  BatchSize = 2
  Attempts = 3
  UnitCost = 1
  CardAmount = 2
  Callers = {a1, a2}
  Keys = {1, 2, 3, 4}
  MaxKeys = 2
  MaxTo = 2
  ApiCost = 1
  MaxDay = 1
  Worlds <- MCWaitWorlds
SPECIFICATION Spec
INVARIANTS ContinuationIsScheduled
CHECK_DEADLOCK FALSE
