SPECIFICATION Spec
CONSTANTS
  Ops = {o1, o2}
  NoOp = NoOp
  Absent = Absent
  MaxFaults = 0
INVARIANT CrashStatesRecoverable
