SPECIFICATION FairSpec
CONSTANTS
  Scanned = {"S3", "HF", "hosts", "git"}
  HostTargets <- Hosted
  PlanOf <- PlanOfHost
  S3Targets <- AnyFault
  HFFaults = {"enumerate", "list", "object"}
  Repositories <- TwoRepositories
  Objects <- SmallObjects
  HFBuckets <- OwnedBuckets
  Inputs <- SmallInputs
  Workers = {"w1", "w2"}
  Limit = 2
  MaxFaults = 1
INVARIANTS NilMeansScanned EachScannedOnce RefusalIsFinal NothingLeftBehind
PROPERTIES ImplementsSource Returns
