SPECIFICATION MCSpec
CONSTANTS
  JobIds = {j1, j2}
  Keys = {k1, k2}
  Owners = {o1, o2, o3}
  NoOwner = NoOwner
  NoKey = NoKey
  MaxAttempts = 2
  LeaseTime = 2
  BackoffMax = 1
  Workers = {w1, w2}
  Concurrency = 1
  LeaseSafety = 1
  w1 = w1
  w2 = w2
  j1 = j1
  j2 = j2
  k1 = k1
  k2 = k2
  o1 = o1
  o2 = o2
  o3 = o3
SYMMETRY Symmetric
INVARIANT StoppedWorkerIsSettled SlotsRespected
PROPERTY ExecutesOneAtATime
