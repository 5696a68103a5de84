SPECIFICATION Spec
CONSTANTS
  c1 = c1
  c2 = c2
  Consumers = {c1, c2}
  MaxAttempts = 2
  MaxGeneration = 1
  Outcomes = {"delivered", "complained"}
  Idempotent = FALSE
SYMMETRY Interchangeable
INVARIANT TypeOK
INVARIANT AtMostOneHandOff
INVARIANT SentWasHandedOff
CHECK_DEADLOCK FALSE
