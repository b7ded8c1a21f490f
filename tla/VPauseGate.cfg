SPECIFICATION Spec
CONSTANTS
  Roles = {"a"}
  Gates = {}
  GateOutcomes = {"ok"}
  RoleOutcomes = {"ok"}
  PostOutcomes = {"ok"}
  Ops = {"run", "paused"}
  Probe = FALSE
  Interval = TRUE
  Faults = {}
  MaxEdits = 1
  MaxChanges = 0
  MaxFaults = 0
CHECK_DEADLOCK FALSE
INVARIANT GateHonest
