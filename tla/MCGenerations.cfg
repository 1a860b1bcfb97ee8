CONSTANTS
  p = p
  q = q
  x = x
  y = y
  PlainIds <- TwoPlain
  Envelopes <- OnePair
  Ids <- MCIds
  Jobs <- MCJobs
  MaxQueued = 2
  MaxFaults = 2
SPECIFICATION FairSpec
INVARIANTS
  LiveWorkIsShown
  RowsFollowJobs
PROPERTIES
  AnswersAreFinal
  EveryRowEnds
