SPECIFICATION Spec
CONSTANTS
  MaxName = 4
  LastWith <- MCLastWith
  PageSize = 2
  Scenarios <- MCScenarios
CHECK_DEADLOCK FALSE
INVARIANTS
  TypeOK
  Authorized
  Durable
  RoundTrip
  Accounted
PROPERTIES
  Finishes
  Reconfigures
