SPECIFICATION FairSpec
CONSTANTS
  MaxWindow = 2
  ScaleBackAfter = 1
  SpareReplicas = 1
  MaxBuffer = 0
  UserReplicas = 1
  SkipDownscaling = FALSE
  Overlap = FALSE
  Events = {"window", "policy", "target", "calm"}
  MaxAtRisk = 2
  MaxReplicas = 3
  MaxFaults = 1
INVARIANTS BaselineIsUserValue RaisedIsTracked
PROPERTIES NoRaiseAfterForcedCool RecordedActionSurvives ImplementsLease CalmRestores
