SPECIFICATION Spec
CONSTANTS
  MemSize = 5
  Code <- ParallelGuest
  CodeLen = 10
  Entry = 0
  Image <- SmallImage
  InitRsp = 5
  N = 3
  Chunk = 3
  Budgets = {0, 7, 11}
  TotalMod = 64
  HasGpu = TRUE
  MayFallBack = TRUE
  MaxRuns = 3
INVARIANT TypeOK
INVARIANT NoStepBeforeAnswer
INVARIANT NoTrapLeft
INVARIANT HostMatchesDevice
INVARIANT LoopInv
INVARIANT WithinBudget
INVARIANT NoGuestStarved
PROPERTY RamChangesByOwnSteps
PROPERTY FinishedForGood
