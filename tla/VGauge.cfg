SPECIFICATION Spec
CONSTANTS
  Groups = {1}
  Roles = {1}
  RoleOf <- MCRoleOf
  Alias <- NoAlias
  Shipped = {"cm", "sts"}
  Finalizers = {}
  DeletePVCs = TRUE
  GracePeriod = 1
  DrainTimeout = 1
  Wedged = {}
  ForeignKeys <- NoKeys
  Faults = {}
  MaxAge = 1
  MaxEdits = 2
  MaxFaults = 0
PROPERTY GaugeFollows
