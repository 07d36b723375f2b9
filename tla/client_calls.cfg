SPECIFICATION FairSpec
CONSTANTS
  Threads = {t1, t2}
  NoThread = NoThread
  Calls = 1
  Retries = 1
CHECK_DEADLOCK FALSE
INVARIANTS TypeOK ExecutionsBounded TurnsAreClean
PROPERTY CallsEnd
