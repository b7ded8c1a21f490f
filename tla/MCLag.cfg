SPECIFICATION Spec
CONSTANTS
  Roles = {"a"}
  Gates = {"pre"}
  GateOutcomes = {"ok", "wait"}
  RoleOutcomes = {"ok", "half"}
  PostOutcomes = {"ok"}
  Ops = {"run"}
  Probe = FALSE
  Interval = FALSE
  Faults = {"crLag", "stsLag"}
  MaxEdits = 1
  MaxChanges = 0
  MaxFaults = 0
CHECK_DEADLOCK FALSE
INVARIANT GateHonest RestsWhenDone
