SPECIFICATION MCSpec
CONSTANTS
  a = a
  b = b
  x = x
  y = y
  z = z
  m1 = m1
  m2 = m2
  t1 = t1
  Subject = a
  Other = b
  Fresh = {n}
  Merges <- AskedMerges
  HomeOf <- HomeAtFirst
  Email = x
  Sender <- SenderOf
  Filed <- FiledIn
  Tickets = {t1, t2}
  NoTicket = NoTicket
  Passes = {p1, p2}
  PageSize = 1
  MaxAttempts = 1
  MaxRequests = 2
  Nobody = Nobody
  ReplyJobs = {j1, j2}
  Senders = {p1, p2}
  Clicks = {k1, k2}
  Ratings = {1, 3}
  LastCustomer = 2
  NoSurvey = NoSurvey
SYMMETRY MCSymmetry
INVARIANTS ErasureComplete OneSurvey
PROPERTY StoppedStaysStopped
\* The task can be done, the mail settled, every ticket gone and every visit over.
CHECK_DEADLOCK FALSE
