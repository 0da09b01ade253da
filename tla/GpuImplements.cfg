SPECIFICATION FaultFairSpec
CONSTANTS
  MemSize = 5
  Code <- MixedGuest
  CodeLen = 11
  Entry = 0
  Image <- SmallImage
  InitRsp = 5
  N = 2
  Chunk = 4
  Budgets = {6, 13}
  TotalMod = 64
  HasGpu = TRUE
  MayFallBack = FALSE
  MaxRuns = 1
  MaxFaults = 3
PROPERTY OthersUnharmed
PROPERTY RunReturns
INVARIANT HaltIsReal
