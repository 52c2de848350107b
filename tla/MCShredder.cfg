SPECIFICATION Spec
CONSTANTS
  c1 = c1
  c2 = c2
  f = f
  i1 = i1
  attic = attic
  nobody = nobody
  nothing = nothing
  Calls = {c1, c2}
  Writers = {}
  Paths = {f}
  Attic = attic
  Inodes = {i1}
  NoInode = nothing
  NoOne = nobody
  MaxLen = 2
  Kind <- MCKind
  LinkTo <- MCLinkTo
  Request <- MCRequest
  Algorithm <- MCAlgorithm
  Rounds = 1
  Verify <- MCVerify
  Backfill <- MCBackfill
  FlockAttempts = 2
  Spare = {}
INVARIANTS
  NoDataReleased
  ReadBackHolds
PROPERTIES
  ImplementsErasure
CHECK_DEADLOCK FALSE
