SPECIFICATION Spec
CONSTANTS
  p1 = p1
  p2 = p2
  Processes <- TwoProcesses
  Users = {"u"}
  Tokens = {"t"}
  MaxWrites = 4
  MaxTime = 2
CHECK_DEADLOCK FALSE
SYMMETRY ProcessSymmetry
INVARIANTS TypeOK AcknowledgedKept
PROPERTY WithdrawnRejected
