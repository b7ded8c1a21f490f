SPECIFICATION Spec
CONSTANTS
  Groups = {1}
  Roles = {1}
  RoleOf <- MCRoleOf
  Alias <- NoAlias
  Shipped = {"cm", "sts", "svc"}
  Finalizers = {"cm"}
  DeletePVCs = TRUE
  GracePeriod = 0
  DrainTimeout = 1
  Wedged = {}
  ForeignKeys <- SomeForeignKeys
  Faults = {"crash", "apiError", "lag", "lateStatus", "svcLag", "idleSquat"}
  MaxAge = 1
  MaxEdits = 2
  MaxFaults = 1
INVARIANT TypeOK
PROPERTY LedgerKept OrderedTeardown ForeignKept
