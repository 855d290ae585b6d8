SPECIFICATION Spec
CONSTANTS
  Scanned = {"HF"}
  HostTargets <- NoHosts
  PlanOf <- PlanOfHost
  S3Targets <- AnyFault
  HFFaults = {"object"}
  Repositories <- TwoRepositories
  Objects <- SmallObjects
  HFBuckets <- OwnedBuckets
  Inputs <- SmallInputs
  Workers = {"w1", "w2"}
  Limit = 2
  MaxFaults = 1
INVARIANTS FailureReported
