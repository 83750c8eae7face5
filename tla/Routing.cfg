SPECIFICATION FairSpec
CONSTANTS
  Nodes = {"n1"}
  Policies = {1, 2}
  CustomMarks = {"pool"}
  Place <- MCPlace
  Pods = {"a"}
  Specs <- MCSpecs
  Deployments <- MCDeploymentsLate
  Toggled = {"delete-at", "pool"}
  UserReplicas = 1
  MaxChanges = 3
  MaxWindow = 1
  ScaleBackAfter = 0
  SpareReplicas = 1
  MaxBuffer = 0
INVARIANTS
  TypeOK
  OwnersAgree
  NoLostWakeUp
  StaleNodesCleared
  NeverBelowUser
PROPERTY EventuallyQuiet
