SPECIFICATION MCSpec
CONSTANTS
  c1 = c1
  d1 = d1
  support = support
  Consumers = {c1}
  MaxAttempts = 2
  MaxGeneration = 1
  Outcomes = {"complained"}
  Idempotent = TRUE
  NoDelivery = NoDelivery
INVARIANT DuplicateRiskShown
PROPERTIES KeepsPromise NoSendAfterWindow OutboundSettles InboundSettles
\* Every job and every mail can be settled, and the sender silent.
CHECK_DEADLOCK FALSE
