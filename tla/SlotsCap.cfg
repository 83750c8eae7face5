SPECIFICATION Spec
CONSTANTS
  MaxWindow = 1
  ScaleBackAfter = 1
  SpareReplicas = 1
  MaxBuffer = 0
  Workloads = {1, 2, 3}
  WindowCap = 2
  Events = {}
INVARIANTS TypeOK CapRespected RaisedWithinCap
