SPECIFICATION LinkedFileSpec
CONSTANTS
  c1 = c1
  c2 = c2
  f = f
  l = l
  i1 = i1
  link = link
  h1 = h1
  h2 = h2
  attic = attic
  nobody = nobody
  nothing = nothing
  Calls = {c1, c2}
  Handles = {h1, h2}
  Watched = {h1}
  Writers = {}
  Paths = {f, l}
  Attic = attic
  Inodes = {i1, link}
  NoInode = nothing
  NoOne = nobody
  MaxLen = 2
  Kind <- MCKind
  LinkTo <- MCLinkTo
  Request <- MCRequest
  Truncates <- MCTruncates
  Unlinks <- MCUnlinks
  FsyncEach <- MCFsyncEach
  PrePass <- MCPrePass
  Handle <- MCHandle
INVARIANTS
  CancelStopsWriting
  SnapshotCoherent
PROPERTIES
  KeyOutlivesPlaintext
  ImplementsErasure
CHECK_DEADLOCK FALSE
