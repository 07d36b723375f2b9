SPECIFICATION Spec
CONSTANTS
  Threads = {t1, t2}
  NoThread = NoThread
  Calls = 1
  Retries = 1
CHECK_DEADLOCK FALSE
INVARIANT OwnResponse
