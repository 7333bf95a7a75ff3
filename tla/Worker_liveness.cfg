SPECIFICATION FairSpec
CONSTANTS
  JobIds = {j1}
  Keys = {k1}
  Owners = {o1, o2, o3}
  NoOwner = NoOwner
  NoKey = NoKey
  MaxAttempts = 3
  LeaseTime = 2
  BackoffMax = 1
  Workers = {w1}
  Concurrency = 1
  LeaseSafety = 1
PROPERTY JobsEnd
