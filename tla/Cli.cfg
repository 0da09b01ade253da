SPECIFICATION Spec
CONSTANTS
  Numbers = {0, 1, 2, 4, 6, 7, 16, 17}
  Modulus = 16
  Height = 6
  BenchCount = 5
  MandelCount = 3
  DefaultSteps = 6
  MandelSteps = 9
  GuestSteps = 4
  MaxOpts = 4
CHECK_DEADLOCK FALSE
INVARIANTS
  TypeOK
  
  RowsShared
