SPECIFICATION Spec
CONSTANTS
  a = a
  b = b
  Ids <- IdSet
  Directories <- TwoDirectories
  FirstDirectory = "data"
  Commands = {"restore", "pitr", "cli"}
  WritersRun = TRUE
  GoOn = TRUE
  MaxMutations = 3
  MaxRestores = 2
CHECK_DEADLOCK FALSE
SYMMETRY IdSymmetry
INVARIANTS TypeOK DirectoryWhole PointInTimeExact
PROPERTY RestoreComplete
