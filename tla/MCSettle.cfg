SPECIFICATION FairSpec
CONSTANTS
  Roles = {"a"}
  Gates = {"pre"}
  GateOutcomes = {"ok", "wait"}
  RoleOutcomes = {"ok"}
  PostOutcomes = {"ok"}
  Ops = {"run", "paused"}
  Probe = TRUE
  Interval = TRUE
  Faults = {"apiError"}
  MaxEdits = 2
  MaxChanges = 1
  MaxFaults = 1
CHECK_DEADLOCK FALSE
PROPERTY Settles EventuallyReported EventuallyDeleted
