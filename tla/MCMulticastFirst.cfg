SPECIFICATION Spec
CONSTANTS
  s1 = s1
  s2 = s2
  s3 = s3
  l1 = l1
  Subscribers <- MCSubscribers
  Loggers <- MCLoggers
  Nil = Nil
INVARIANTS
  NoNilDereference
