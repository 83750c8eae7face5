SPECIFICATION FairSpec
CONSTANTS
  MaxWindow = 1
  ScaleBackAfter = 1
  SpareReplicas = 1
  MaxBuffer = 0
  Catalog <- MCCatalog
  Workload = "w"
  KnownKinds = {"Deployment", "HPA"}
  Fields <- MCFields
  User <- MCUser
  Annotations <- MCAnnotations
  Stamp = TRUE
  MaxAtRisk = 1
  MaxFaults = 2
INVARIANTS
  TypeOK
  NeverBelowUser
  RaisedHasAction
  RestoreIsComplete
  CompensationIsComplete
PROPERTIES DeletionCompletes ImplementsLease
CHECK_DEADLOCK FALSE
