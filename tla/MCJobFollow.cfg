CONSTANTS
  load1 = load1
  Job = {load1}
  KindOf <- MCKindOf
  LeaseId = {}
  NoLease = NoLease
  NoJob = NoJob
  Faults = {"log", "row"}
  MaxRestarts = 1
  MaxPieces = 2  MaxCuts = 2
SPECIFICATION FollowFairSpec
INVARIANTS OrphanIsLost LogOnce
PROPERTIES EndedRowNeverRevives  WatchSettles
CHECK_DEADLOCK FALSE
