SPECIFICATION ObjectsSpec
CONSTANTS
  SecretKeys = {"cookie", "token"}
  SecretWorkers = {1, 2}
  MaxTampers = 2
  Shapes <- MCShapes
  MaxReshapes = 3
  MaxStamps = 1
  Held = {"a"}
  RuleSets = {{}, {"a"}, {"a", "x"}}
  MaxRBACEvents = 3
INVARIANT NoForeignGrant
PROPERTY ValuesWrittenOnce EventuallyFilled
PROPERTY RefusedOnlyAsKnown DataStaysMounted IgnoredIsTruthful OthersWritesKept RolloutSettles
PROPERTY ForeignUntouched PermissionsConverge
