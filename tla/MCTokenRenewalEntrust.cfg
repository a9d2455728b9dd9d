SPECIFICATION FairSpec
CONSTANTS
  Kinds = {"entrust"}
  TTLs = {2, 35}
  Delay = 3
  Pause = 1
  Retry = 2
PROPERTIES
  RenewsUntilDone
