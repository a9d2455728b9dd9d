SPECIFICATION FairSpec
CONSTANTS
  g1 = g1
  g2 = g2
  n1 = n1
  Goroutines <- MCGoroutines
  Names <- MCNames
  Addresses <- MCAddresses
  Scenarios <- MCScenarios
  Nil = Nil
  MaxVersion = 1
PROPERTIES
  CallsReturn
  StaleExpires
  CloseStopsCollectors
