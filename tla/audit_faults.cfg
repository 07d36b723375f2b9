SPECIFICATION Spec
CONSTANTS
  Threads = {t1, t2}
  NoThread = NoThread
  Faults = {"torn", "fsync", "power"}
  MaxEvents = 4
SYMMETRY Symmetric
CHECK_DEADLOCK FALSE
INVARIANTS TypeOK ChainRooted HeadIsLast LoggedReadable
