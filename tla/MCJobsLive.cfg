CONSTANTS
  load1 = load1
  halt = halt
  Job = {load1, halt}
  KindOf <- MCKindOf
  LeaseId = {}
  NoLease = NoLease
  NoJob = NoJob
  Faults = {}
  MaxRestarts = 1
SPECIFICATION FairSpec
INVARIANTS
  LiveJobHasRunner
PROPERTIES
  EveryJobEnds
  StoppedLoadNeverStarts
  ImplementsLifecycle
CHECK_DEADLOCK FALSE
