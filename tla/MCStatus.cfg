SPECIFICATION Spec
CONSTANTS
  Roles = {"a", "b"}
  Gates = {"pre"}
  GateOutcomes = {"ok", "wait", "fail"}
  RoleOutcomes = {"ok", "wait", "fail", "half", "late", "lateWait"}
  PostOutcomes = {"ok", "fail"}
  Ops = {"run", "stopped"}
  Probe = TRUE
  Interval = TRUE
  Faults = {"crash", "apiError", "throttle", "panic"}
  MaxEdits = 1
  MaxChanges = 0
  MaxFaults = 1
CHECK_DEADLOCK FALSE
INVARIANT TypeOK FirstInstallQuiet WaitIsNoFault GateHonest
