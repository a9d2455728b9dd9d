SPECIFICATION HSpec
CONSTANTS
  g1 = g1
  g2 = g2
  n1 = n1
  Goroutines <- MCGoroutines
  Names <- MCNames
  Addresses <- MCAddresses
  Scenarios <- StaleScenarios
  Nil = Nil
  MaxVersion = 2
INVARIANTS
  DeletedNotServed
