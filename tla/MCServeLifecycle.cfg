CONSTANTS
  Serve = {s1, s2}
  Stop = {k1}
  Host = host
  Worker = {w1}
  Engine = {vllm}
  Asks <- MCAsks
  NoServe = NoServe
  SaysTp = {vllm}
  Faults = {"slow", "ssh", "rm", "disk", "crash"}
  MaxTroubles = 1
SPECIFICATION Spec
VIEW Relevant
SYMMETRY Interchangeable
INVARIANTS
  StopReachesEveryLoad
  EndedLoadFreesMemory
  OneModelPerNode
  SummaryIsTrue

  
CHECK_DEADLOCK FALSE
