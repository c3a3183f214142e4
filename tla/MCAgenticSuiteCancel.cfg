CONSTANTS
  eval1 = eval1  r1 = r1  r2 = r2  u1 = u1  u2 = u2
  Requests <- JustOne
  Job = {eval1}
  KindOf <- MCKindOf
  Url = {u1, u2}
  LeaseId = {r1}
  NoLease = NoLease
  NoJob = NoJob
  Faults = {}
  MaxRestarts = 0
  Cases = 1
SPECIFICATION SuiteFairSpec
PROPERTIES CancelEndsSuite
CHECK_DEADLOCK FALSE
