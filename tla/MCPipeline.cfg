SPECIFICATION PipelineSpec
CONSTANTS
  Levels = {"cluster", "role", "group"}
  Priorities = {0, 50}
  StopOptions = {"default", "go"}
  HookErrors <- MCHookErrors
  WaitVerdict <- WaitingErrors
  Throttled <- IsRateLimitError
  Leafs <- LeafErrors
  NGroups = 2
  HealthInterval = 30
  MaxRegistrations = 3
  MaxTroubles = 2
  ClusterName <- MCCluster
  Roles <- MCRoles
  Groups <- MCGroups
  MaxRoleGroupNameLen = 8
  MaxLabelLen = 10
  HashLen = 2
  Domains = {TRUE, FALSE}
  LabelKeys <- MCKeys
  MaxSlots = 2
  Leaves <- MCLeaves
  Letters <- MCLetters
  MaxKeyLen = 2
  MaxValueLen = 3
  ConfigFiles <- MCFiles
  ProductFormats <- MCProductFormats
  Inputs <- MCInputs
  HandlerSidecars <- MCHandlerSidecars
  MaxEdits = 1
  Alphabet <- MCAlphabet
INVARIANTS
  HooksInOrder
  FailureOutranksWaits
  ShortestWaitWins
  ResourceNamesDistinct
  SlotsSeparate
  UserStatementWins
  ReadsBack
  FrameworkMountsKept
  LogsReachAgent
  ImagesOwn
