SPECIFICATION FairSpec
CONSTANTS
  Groups = {1, 2}
  Roles = {1}
  RoleOf <- MCRoleOf
  Alias <- MetricsAlias
  Shipped = {"cm", "sts", "svc"}
  Finalizers = {"cm"}
  DeletePVCs = TRUE
  GracePeriod = 1
  DrainTimeout = 1
  Wedged = {1}
  ForeignKeys <- NoKeys
  Faults = {}
  MaxAge = 1
  MaxEdits = 2
  MaxFaults = 0
INVARIANT NoInvisibleOrphan
PROPERTY ConditionHonest LiveSlotsKept EventuallyReclaimed
