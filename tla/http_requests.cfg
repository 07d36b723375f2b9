SPECIFICATION FairSpec
CONSTANTS
  h1 = h1
  h2 = h2
  Handlers <- TwoHandlers
  Tokens <- TokenSet
  Tenant <- Tenants
  Role <- Roles
  AuthToken = "alex"
  Plain = "plain"
  MaxFaults = 1
CHECK_DEADLOCK FALSE
INVARIANTS TypeOK StatusTellsTheTruth NoLostUpdate TenantsApart WithdrawnHasNoEffect SecondCallLags
PROPERTY RequestsEnd
