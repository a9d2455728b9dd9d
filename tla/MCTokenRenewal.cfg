SPECIFICATION FairSpec
CONSTANTS
  Kinds = {"vault", "gemalto", "entrust"}
  TTLs = {2, 10, 35}
  Delay = 3
  Pause = 1
  Retry = 2
INVARIANTS
  TypeOK
  NeverExpired
PROPERTIES
  Settles
