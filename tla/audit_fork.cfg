SPECIFICATION Spec
CONSTANTS
  Threads = {t1, t2}
  NoThread = NoThread
  Faults = {}
  MaxEvents = 2
CHECK_DEADLOCK FALSE
INVARIANT ChainUnbroken
