SPECIFICATION Spec
CONSTANTS
  d1 = d1
  d2 = d2
  d3 = d3
  Ids <- DocumentIds
  Fields <- FieldNames
  Values <- MixedValues
  Names <- IndexNames
SYMMETRY IdSymmetry
INVARIANTS TypeOK LookupMatchesScan UniqueNeverDuplicate
PROPERTY RefusedOnlyForReprs
CHECK_DEADLOCK FALSE
