SPECIFICATION OverlapSpec
CONSTANTS
  b1 = b1
  wOrg = wOrg
  Workspaces = {wOrg}
  Backups = {b1}
  OwnerOf <- OwnerOfExport
  LastTable = 1
  MaxRow <- ThreeRows
  ChunkRows = 2
  MaxQueries = 2
  None = None
INVARIANT CompleteCopy
\* The export is over.
CHECK_DEADLOCK FALSE
