CONSTANTS
  p = p
  q = q
  x = x
  y = y
  PlainIds <- OnePlain
  Envelopes <- OnePair
  Ids <- MCIds
  Jobs <- MCJobs
  MaxQueued = 2
  MaxFaults = 1
SPECIFICATION FairSpec
PROPERTIES
  ShutdownEnds
