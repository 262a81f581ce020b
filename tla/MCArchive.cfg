SPECIFICATION ArchiveSpec
CONSTANTS
  Archives <- Solids
  Paths <- SamplePaths
  kMaxSize = 5
INVARIANT
  GivesWhatIsStored
CHECK_DEADLOCK FALSE
