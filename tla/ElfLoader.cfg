SPECIFICATION Spec
CONSTANTS
  RamSize = 7
  LoadBase = 2
  Before = 77
  Files <- MCFiles
INVARIANTS
  SectionsFit
  WritesStayInSections
  ImageAsLinked
  CodeIsLoaded
