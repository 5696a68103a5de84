SPECIFICATION MCSpec
CONSTANTS
  da = da
  db = db
  f1 = f1
  f2 = f2
  c1 = c1
  Tickets = {1, 2}
  Existing = {1, 2}
  Page = 1
  MaxAttempts = 2
  MaxEdits = 1
  Consumers = {c1}
  OldMessage = TRUE
  Deliveries = {w1}
  HookAttempts = 3
  DisableAfter = 1
  MaxCrashes = 1
  NoDelivery = NoDelivery
  Posts = {1, 2, 3}
  DraftOf <- DraftOfPost
  FilesOf <- FilesOfPost
  Files = {f1, f2}
  PageSize = 1
  LastTime = 1
  NoPost = NoPost
INVARIANTS SettlingTypeOK RepliesIntact
PROPERTIES Settles WorkSettles
\* Every edit can be refreshed, every delivery and reply settled.
CHECK_DEADLOCK FALSE
