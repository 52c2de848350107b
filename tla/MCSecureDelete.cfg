SPECIFICATION Spec
CONSTANTS
  c1 = c1
  c2 = c2
  w = w
  f = f
  g = g
  i1 = i1
  i2 = i2
  link = link
  fifo = fifo
  fresh = fresh
  attic = attic
  nobody = nobody
  nothing = nothing
  Calls = {c1, c2}
  Writers = {}
  Paths = {f}
  Attic = attic
  Inodes = {i1}
  NoInode = nothing
  NoOne = nobody
  MaxLen = 2
  Kind <- MCKind
  LinkTo <- MCLinkTo
  Request <- MCRequest
  Passes <- MCPasses
  Verify <- MCVerify
  FlockAttempts = 2
  Spare = {}
INVARIANTS
  TypeOK
  NoDataReleased
  OkMeansGone
  LockedWhileTouching
PROPERTIES
  NeverOrphansData
  ImplementsErasure
CHECK_DEADLOCK FALSE
