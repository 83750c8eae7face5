SPECIFICATION FairSpec
CONSTANTS
  n1 = n1
  n2 = n2
  n3 = n3
  Nodes = {n1, n2}
  PodNames = {1, 2}
  UserReplicas = 1
  Hazards = {"late", "unready", "free"}
  MaxWindow = 1
  ScaleBackAfter = 0
  SpareReplicas = 1
  MaxBuffer = 1
PROPERTY DrainProgresses
