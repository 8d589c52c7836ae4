\* One payment; two requests, a webhook and two crons; errors and deaths.
CONSTANTS
  Payments = {p1}
  NoPayment = none
  Clients = {c1, c2}
  Webhooks = {n1}
  Reconcilers = {k1, k2}
  MaxErrors = 1
  MaxDeaths = 1
SPECIFICATION FairSpec
INVARIANTS TypeOK SettledOnce SettledOnlyIfPaid CompletedIsCredited IInv
PROPERTIES Settles KeepsLedger
CHECK_DEADLOCK FALSE
