SPECIFICATION Spec
CONSTANTS
  Sync = TRUE
  TornWrites = TRUE
  IOErrors = TRUE
  Damage = {"garbled", "badsum"}
  DirFsync = TRUE
  PowerLosses = TRUE
  MaxMutations = 3
CHECK_DEADLOCK FALSE
INVARIANTS TypeOK AckedRecoverableWhenSafe RestartInvisible SequenceUnique RefusedOnlyForDamage
PROPERTIES NothingBeforeTailDropped ImplementsDurableStore
