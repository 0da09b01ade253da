SPECIFICATION FairSpec
CONSTANTS
  MemSize = 5
  Code <- ParallelGuest
  CodeLen = 10
  Entry = 0
  Image <- SmallImage
  InitRsp = 5
  N = 2
  Chunk = 3
  Budgets = {9}
  TotalMod = 64
  HasGpu = FALSE
  MayFallBack = FALSE
  MaxRuns = 1
PROPERTY ServedInOwnRam
