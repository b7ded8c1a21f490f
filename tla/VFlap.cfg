SPECIFICATION FairSpec
CONSTANTS
  Roles = {"a"}
  Gates = {}
  GateOutcomes = {"ok"}
  RoleOutcomes = {"ok", "fail"}
  PostOutcomes = {"ok"}
  Ops = {"run"}
  Probe = FALSE
  Interval = TRUE
  Faults = {}
  MaxEdits = 0
  MaxChanges = 0
  MaxFaults = 0
CHECK_DEADLOCK FALSE
PROPERTY Settles
