SPECIFICATION Spec
CONSTANTS
  n1 = n1
  n2 = n2
  n3 = n3
  Nodes = {n1, n2, n3}
  PodNames = {1, 2, 3, 4}
  UserReplicas = 2
  Hazards = {"late"}
  MaxWindow = 2
  ScaleBackAfter = 1
  SpareReplicas = 1
  MaxBuffer = 0
SYMMETRY NodeSymmetry
PROPERTY SpareKeepsBaseline
