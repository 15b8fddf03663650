SPECIFICATION FairSpec
CONSTANTS
  Webhooks = {a, b, c}
  None = None
  Hands = {h1}
  MaxEvents = 1
  MaxAttempts = 2
  Limit = 2
  MaxActs = 1
INVARIANTS OnlyCommittedIsSent BudgetHolds
PROPERTY DeliveriesSettle
CHECK_DEADLOCK FALSE
