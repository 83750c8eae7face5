SPECIFICATION FairSpec
CONSTANTS
  MaxWindow = 1
  ScaleBackAfter = 1
  SpareReplicas = 1
  MaxBuffer = 0
  Catalog <- MCCatalog
  Workload = "w"
  KnownKinds = {"Deployment", "HPA"}
  Fields <- MCFieldsCustom
  User <- MCUserCustom
  Annotations <- MCAnnotationsCustom
  Stamp = TRUE
  MaxAtRisk = 1
  MaxFaults = 0
PROPERTY DeletionCompletes
CHECK_DEADLOCK FALSE
