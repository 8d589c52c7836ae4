\* One payment, confirmed while the webhook arrives.
CONSTANTS
  Payments = {p1}
  NoPayment = none
  Clients = {c1}
  Webhooks = {n1}
  Reconcilers = {}
  MaxErrors = 0
  MaxDeaths = 0
SPECIFICATION Spec
INVARIANTS CreditedOnce
CHECK_DEADLOCK FALSE
