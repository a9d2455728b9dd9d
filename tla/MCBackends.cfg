SPECIFICATION FairSpec
CONSTANTS
  Kinds = {"mem", "fs", "efs", "aws", "gcp", "azure", "vault1", "vault2", "fortanix", "entrust", "gemalto"}
  MaxCalls = 3
  MaxBusy = 2
  N = 1
  PurgeTries = 2
  CreateTries = 2
  MaxVersions = 2
INVARIANTS
  TypeOK
  CreatedIsStored
  HonestAnswers
PROPERTIES
  KeysStay
  CallsReturn
