SPECIFICATION LimiterSpec
CONSTANTS
  Handlers = {t1, t2}
  Keys = {k1, k2}
  NoKey = NoKey
  Capacity = 5
  Rate = 1
  Cost = 2
  MaxTime = 5
SYMMETRY Symmetric
INVARIANTS LimiterTypeOK WindowBound
PROPERTY RefusesOnlyOverLimit
