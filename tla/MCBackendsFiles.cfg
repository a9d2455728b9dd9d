SPECIFICATION Spec
CONSTANTS
  Kinds = {"fs"}
  MaxCalls = 3
  MaxBusy = 2
  N = 1
  PurgeTries = 2
  CreateTries = 2
  MaxVersions = 1
PROPERTIES
  CreateKeepsFiles
