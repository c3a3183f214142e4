CONSTANTS
  s1 = s1
  s2 = s2
  s3 = s3
  Run = {r1, r2}
  Base = {b1}
  Mode = {"bench-decode", "bench-prefill", "load"}
  Strand = {s1, s2, s3}
  Plan <- Uneven
  TooLong = {1}
  RecentKeep = 1
SPECIFICATION FairSpec
INVARIANTS
  OneRunPerEndpoint
  LeaseFollowsRun
  UnwatchedLoadIsTimed
  NoStrandOutlivesRun
PROPERTIES
  StoppedRunEnds

CHECK_DEADLOCK FALSE
