SPECIFICATION FairSpec
CONSTANTS
  MaxWindow = 1
  ScaleBackAfter = 0
  SpareReplicas = 1
  MaxBuffer = 0
  UserReplicas = 1
  SkipDownscaling = FALSE
  Overlap = TRUE
  Events = {"policy"}
  MaxAtRisk = 1
  MaxReplicas = 2
  MaxFaults = 0
INVARIANTS TypeOK NeverBelowUser
PROPERTIES ForcedCoolSticky MaxWindowFailsOpen
