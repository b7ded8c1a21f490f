SPECIFICATION Spec
CONSTANTS
  Groups = {1}
  Roles = {1}
  RoleOf <- MCRoleOf
  Alias <- NoAlias
  Shipped = {"cm", "sts"}
  Finalizers = {}
  DeletePVCs = FALSE
  GracePeriod = 1
  DrainTimeout = 1
  Wedged = {}
  ForeignKeys <- NoKeys
  Faults = {"apiError"}
  MaxAge = 1
  MaxEdits = 3
  MaxFaults = 1
PROPERTY FreshTeardown
