CONSTANTS
  m1 = m1
  m2 = m2
  Conn = {c1, c2}
  Meta = {m1, m2}
  NoModels = NoModels
  MetaOf <- TwoSnapshots
  None = None
  MaxTroubles = 1
  MaxGestures = 1
SPECIFICATION FairSpec
INVARIANTS
  TabNeverIdle
  OneStream
  ShownModelsMatch
PROPERTIES
  ShownCatchesUp
CHECK_DEADLOCK FALSE
