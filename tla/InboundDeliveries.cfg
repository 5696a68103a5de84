SPECIFICATION Spec
CONSTANTS
  d1 = d1
  d2 = d2
  support = support
  sales = sales
  c1 = c1
  c2 = c2
  Deliveries = {d1, d2}
  NoDelivery = NoDelivery
  Inboxes = {support, sales}
  InboxOf <- OneInbox
  Consumers = {c1, c2}
  MaxAttempts = 1
  MaxGeneration = 0
  Attachments = 0
  Chunk = 1
  EmitFails = FALSE
SYMMETRY Interchangeable
INVARIANT NothingLost
\* Every mail can be settled and the sender silent.
CHECK_DEADLOCK FALSE
