SPECIFICATION MCSpec
CONSTANTS
  t1 = t1
  t2 = t2
  t3 = t3
  Actors = {t1, t2, t3}
  Nobody = Nobody
  MaxDepth = 3
  u1 = u1
  u2 = u2
  u3 = u3
  m1 = m1
  m2 = m2
  Large = {u1, u2, u3, m1, m2}
  Mcp = {m1, m2}
  Undeclared = Undeclared
  Declared <- MCDeclared
  Limit = 2
  Slots <- MCSlots
  Disk = 5
INVARIANTS GuardIsOwned AdmissionIsExact
PROPERTIES ImplementsMutex ComesFree EveryRequestLeaves
CHECK_DEADLOCK FALSE
