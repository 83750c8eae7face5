SPECIFICATION Spec
CONSTANTS
  Nodes = {"n1"}
  Policies = {1, 2}
  CustomMarks = {"pool"}
  Place <- MCPlace
  Pods = {"a"}
  Specs <- MCSpecs
  Deployments <- MCDeployments
  Toggled = {"delete-at", "pool"}
  UserReplicas = 1
  MaxChanges = 2
  MaxWindow = 1
  ScaleBackAfter = 0
  SpareReplicas = 1
  MaxBuffer = 0
INVARIANT CoveredWhenQuiet
