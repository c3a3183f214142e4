CONSTANTS
  eval1 = eval1  r1 = r1  r2 = r2  u1 = u1  u2 = u2
  Requests <- OneOrTwo
  Job = {eval1}
  KindOf <- MCKindOf
  Url = {u1, u2}
  LeaseId = {r1, r2}
  NoLease = NoLease
  NoJob = NoJob
  Faults = {}
  MaxRestarts = 0
  Cases = 1
SPECIFICATION SuiteLeaseSpec
INVARIANTS
  OneMeasurement
  LeaseExcludesBenchJobs
  UnfinishedRowHasRunner
PROPERTIES
  LeaseIsFreed
CHECK_DEADLOCK FALSE
