SPECIFICATION MCSpec
CONSTANTS
  a1 = a1
  a2 = a2
  r1 = r1
  r2 = r2
  xAddr = xAddr
  yAddr = yAddr
  zAddr = zAddr
  vOrg = vOrg
  wOrg = wOrg
  sup = sup
  supTag = supTag
  SUP = SUP
  c1 = c1
  c2 = c2
  p1 = p1
  p2 = p2
  Uploads = {a1, a2}
  Puts = {p1, p2}
  Replies = {r1, r2}
  Wanted <- WantedFiles
  NoRow = NoRow
  NoMessage = NoMessage
  Workspaces = {vOrg}
  Backups = {p1, p2}
  OwnerOf <- OwnerOfBackup
  LastTable = 2
  MaxRow <- LastRow
  ChunkRows = 1
  MaxQueries = 1
  None = None
  Spellings = {sup, supTag, SUP}
  Mailbox <- MailboxOf
  Bare <- BareOf
  Owners = {vOrg, wOrg}
  Resolutions = {p1, p2}
  NoInbox = NoInbox
  Articles = {k1, k2}
  Slugs = {s1, s2}
  Edits = {p1, p2}
  NoArticle = NoArticle
  Deleted = Deleted
  Checks = {p1, p2}
  Dns = {"no_mx"}
  NoReport = NoReport
  Contacts = {c1, c2}
  Addresses = {xAddr, yAddr, zAddr, free}
  Calls = {p1, p2, k3}
  Book <- AddressBook
  NoOne = NoOne
  Threads = {t1, t2}
  Customers = {xAddr, yAddr}
  Subject = xAddr
  Nowhere = Nowhere
SYMMETRY MCSymmetry
INVARIANTS
  UpkeepTypeOK FilesWhole ExportsWhole
  MailRouted SeenBeforeOverwritten AccusedWhenTrue AddressesKept
\* Uploads, exports and calls are used up.
CHECK_DEADLOCK FALSE
