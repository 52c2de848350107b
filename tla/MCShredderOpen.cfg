SPECIFICATION TwoFilesSpec
CONSTANTS
  c1 = c1
  w = w
  f = f
  g = g
  i1 = i1
  i2 = i2
  link = link
  fresh = fresh
  attic = attic
  nobody = nobody
  nothing = nothing
  Calls = {c1}
  Writers = {w}
  Paths = {f, g}
  Attic = attic
  Inodes <- MCInodes
  NoInode = nothing
  NoOne = nobody
  MaxLen = 2
  Kind <- MCKind
  LinkTo <- MCLinkTo
  Request <- MCRequest
  Algorithm <- MCDod
  Rounds = 1
  Verify <- MCVerify
  Backfill <- MCBackfill
  FlockAttempts = 2
  Spare = {link, fresh}
  Careless = TRUE
INVARIANTS
  SpoilingIsReported
PROPERTIES
  SweptFileIsStable
  BystanderUntouched
CHECK_DEADLOCK FALSE
