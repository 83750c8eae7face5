SPECIFICATION Spec
CONSTANTS
  MaxWindow = 1
  ScaleBackAfter = 1
  SpareReplicas = 1
  MaxBuffer = 0
  UserReplicas = 1
  SkipDownscaling = FALSE
  Overlap = TRUE
  Events = {}
  MaxAtRisk = 1
  MaxReplicas = 3
  MaxFaults = 0
INVARIANT BaselineIsUserValue
