SPECIFICATION Spec
CONSTANTS
  Sync = TRUE
  TornWrites = TRUE
  IOErrors = FALSE
  Damage = {}
  DirFsync = TRUE
  PowerLosses = FALSE
  MaxMutations = 2
CHECK_DEADLOCK FALSE
INVARIANT AckedRecoverable
