SPECIFICATION FairSpec
CONSTANTS
  MaxWindow = 0
  ScaleBackAfter = 1
  SpareReplicas = 1
  MaxBuffer = 0
  Workloads = {1, 2}
  WindowCap = 1
  Events = {"lag", "applyFails"}
PROPERTY EveryWorkloadGetsWindow
