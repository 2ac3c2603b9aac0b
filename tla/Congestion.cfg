INIT Init
NEXT Next
CONSTANTS
  Algos = {"reno", "cubic"}
  Mss = 4
  InitPkts = 4
  InitialRtt = 2
  Start = 100
  Steps = {2, 7}
  MaxTs = 113
  MaxPkts = 6
  Extra = 1
  Bursts = {2}
  AckSizes = {1, 2}
  HsSamples = 2
  HsRounds = 2
  MaxInFlight = 2
  MaxDrainRounds = 1
  FullBwCount = 2
  ProbeLists <- MCProbeLists
  PathSizes = {1, 2, 3, 4}
  HardMaxes = {2, 4}
  BaseSize = 1
  ProbeNumMax = 2
  MaxPaths = 2
  Second = 4
  MaxWord = 63
  RateBursts = {1, 5}
  Rates = {1, 3, 9}
  Drains = {1, 3}
  Gaps = {0, 1, 3, 8}
  Window = 4
  Samples = {1, 2, 3}
  MaxTime = 17
  Spaces = {"hs", "app"}
  MaxTest = 2
  MaxSent = 2
  MaxFrames = 4
  MaxMoves = 1
INVARIANTS
  CongestionSound
  
CHECK_DEADLOCK FALSE
