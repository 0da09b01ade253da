SPECIFICATION Spec
CONSTANTS
  Guest = {g1, g2}
  HasGpu = TRUE
  MaxVcpus = 2
  MaxObjects = 2
  Nothing = Nothing
INVARIANTS TypeOK DeviceRunsHostIr NoStaleTranslation AtMostOneOrphan
PROPERTY CpuForGood
