SPECIFICATION TwoFilesSpec
CONSTANTS
  c1 = c1
  w = w
  f = f
  g = g
  i1 = i1
  i2 = i2
  link = link
  fresh = fresh
  attic = attic
  nobody = nobody
  nothing = nothing
  Calls = {c1}
  Writers = {}
  Paths = {f, g}
  Attic = attic
  Inodes <- MCInodes
  NoInode = nothing
  NoOne = nobody
  MaxLen = 1
  Kind <- MCKind
  LinkTo <- MCLinkTo
  Request <- MCRequest
  Algorithm <- MCZero
  Rounds = 1
  Verify <- MCVerify
  Backfill <- MCBackfill
  FlockAttempts = 2
  Spare = {fresh}
  Careless = FALSE
INVARIANTS
  NoDataReleased
CHECK_DEADLOCK FALSE
