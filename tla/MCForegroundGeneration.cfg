CONSTANTS
  r1 = r1  r2 = r2  r3 = r3
  Ids = {r1, r2, r3}
  Jobs <- MCJobs
  MaxQueued = 2
  p1 = p1  v1 = v1  e1 = e1  e2 = e2
  Renders = {v1}
  Previews = {p1}
  Exports = {e1, e2}
  MaxActive = 1
  MaxTrouble = 1
  MaxRestarts = 1
SPECIFICATION MCSpec
INVARIANTS RequestsAreSettled RendersAreOwned
PROPERTIES CallerIsAnswered SlotComesFree
CHECK_DEADLOCK FALSE
