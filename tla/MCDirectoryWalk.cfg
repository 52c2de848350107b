SPECIFICATION Spec
CONSTANTS
  w1 = w1
  w2 = w2
  root = root
  inner = inner
  x = x
  z = z
  link = link
  none = none
  Walks = {w1, w2}
  Nodes = {root, inner, x, z, link}
  Root = root
  Kind <- MCKind
  Parent <- MCParent
  Late = {z, link}
  Backfill <- MCNoBackfill
  NoFile = none
INVARIANTS
  EachFileCountedOnce
  PreviewIsWhatIsErased
  UndisturbedCallSucceeds
  NoEntryCutOff
PROPERTIES
  EveryWalkEnds
CHECK_DEADLOCK FALSE
