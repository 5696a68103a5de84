SPECIFICATION Spec
CONSTANTS
  c1 = c1
  c2 = c2
  Tickets = {1, 2}
  Existing = {2}
  Page = 1
  MaxAttempts = 2
  MaxEdits = 2
  Consumers = {c1, c2}
  OldMessage = FALSE
SYMMETRY Interchangeable
INVARIANTS TypeOK CompletedMeansRefreshed CursorSkipsNothing
\* Every edit can be refreshed and the queue empty.
CHECK_DEADLOCK FALSE
