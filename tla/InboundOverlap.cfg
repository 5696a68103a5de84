SPECIFICATION Spec
CONSTANTS
  d1 = d1
  d2 = d2
  support = support
  sales = sales
  c1 = c1
  c2 = c2
  Deliveries = {d1}
  NoDelivery = NoDelivery
  Inboxes = {support, sales}
  InboxOf <- OneDelivery
  Consumers = {c1, c2}
  MaxAttempts = 2
  MaxGeneration = 1
  Attachments = 2
  Chunk = 1
  EmitFails = TRUE
SYMMETRY Interchangeable
INVARIANTS TypeOK AttachmentsStored NoticedBeforeClosed
PROPERTY KeepsIntake
\* Every mail can be settled and the sender silent.
CHECK_DEADLOCK FALSE
