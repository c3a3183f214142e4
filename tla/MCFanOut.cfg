CONSTANTS
  s1 = s1
  v1 = v1
  Strand = {s1}
  Viewer = {v1}
  TextCap = 1
  RingCap = 1
  StepKeep = 2
  AggKeep = 1
  QueueCap = 8
  ResyncAfter = 1
  Carries = {TRUE}
  MaxChunks = 2
  MaxTicks = 1
  MaxLevels = 1
  MaxDrops = 1
SPECIFICATION FairSpec
INVARIANTS
  TranscriptExact
  EndedStepsExact
  EndIsReal
PROPERTIES
  EveryViewerSeesEnd
CHECK_DEADLOCK FALSE
