SPECIFICATION FairSpec
CONSTANTS
  MemSize = 5
  Code <- SpinGuest
  CodeLen = 12
  Entry = 0
  Image <- SmallImage
  InitRsp = 5
  N = 3
  Chunk = 3
  Budgets = {5, 7}
  TotalMod = 64
  HasGpu = FALSE
  MayFallBack = FALSE
  MaxRuns = 2
PROPERTY ImplementsGuests
PROPERTY StartsFromImage
PROPERTY RunReturns
