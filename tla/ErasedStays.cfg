SPECIFICATION ErasureSpec
CONSTANTS
  a = a
  b = b
  x = x
  y = y
  z = z
  m1 = m1
  m2 = m2
  t1 = t1
  Subject = a
  Other = b
  Fresh = {n}
  Merges <- AskedMerges
  HomeOf <- HomeAtFirst
  Email = x
  Sender <- SenderOf
  Filed <- FiledIn
  Tickets = {t1, t2}
  NoTicket = NoTicket
  Passes = {p1, p2}
  PageSize = 1
  MaxAttempts = 1
  MaxRequests = 2
  Nobody = Nobody
SYMMETRY MCSymmetry
INVARIANT ErasedStaysErased
CHECK_DEADLOCK FALSE
