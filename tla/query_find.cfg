SPECIFICATION Spec
CONSTANTS
  TextOrder <- TheTextOrder
  PartOf <- ThePartOf
  Numerals <- TheNumerals
  Queries <- TheQueries
  Nesting <- TheNesting
  MaxNesting = 3
  Json <- TheJson
  Ids <- TheIds
  Contents <- TheContents
  Paths <- ThePaths
  Values <- TheValues
  Requests <- TheRequests
  MaxUpdated = 1
INVARIANTS TypeOK RowsAsAsked ProjectionFaithful
PROPERTY PathsIndependent
