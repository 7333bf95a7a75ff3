SPECIFICATION MCSpec
CONSTANTS
  Items = {i1}
  Keys = {i1}
  JobIds = {j1, j2}
  Runs = {r1, r2}
  Owners = {o1, o2}
  NoOwner = NoOwner
  NoKey = NoKey
  MaxAttempts = 2
  LeaseTime = 1
  BackoffMax = 0
  MaxUploads = 2
  LateCommits = TRUE
  i1 = i1
  j1 = j1
  j2 = j2
  r1 = r1
  r2 = r2
  o1 = o1
  o2 = o2
  o3 = o3
CHECK_DEADLOCK FALSE
INVARIANT OneRunPerItem FirstUploadHasJob
PROPERTY LateResultsChangeNothing FirstUploadEnds
