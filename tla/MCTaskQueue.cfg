CONSTANTS
  a = a
  b = b
  c = c
  d = d
  Ids <- MCIds
  Jobs <- MCJobs
  MaxQueued = 3
  big = big
  small = small
  d1 = d1
  d2 = d2
  j1 = j1
  Models = {big, small}
  Downloads = {d1, d2}
  LoadJobs = {j1}
  ModelOf <- MCModelOf
  NoTask = NoTask
  MaxFailures = 1
SPECIFICATION MCSpec
INVARIANTS
  OwnershipIsExact
  DownloadIsOwned
PROPERTIES
  JobsAreUnits
  QueueDrains
  ImplementsSerialExecutor
  NoModelIsLost
  PendingEnds
CHECK_DEADLOCK FALSE
