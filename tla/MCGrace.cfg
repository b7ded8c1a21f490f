SPECIFICATION Spec
CONSTANTS
  Groups = {1}
  Roles = {1}
  RoleOf <- MCRoleOf
  Alias <- NoAlias
  Shipped = {"cm", "sts", "svc"}
  Finalizers = {}
  DeletePVCs = TRUE
  GracePeriod = 1
  DrainTimeout = 2
  Wedged = {}
  ForeignKeys <- NoKeys
  Faults = {"crash", "throttle", "apiError"}
  MaxAge = 2
  MaxEdits = 3
  MaxFaults = 2
PROPERTY GraceHonoured DrainHonoured PurgeAfterDrain
