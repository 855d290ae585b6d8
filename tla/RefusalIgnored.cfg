SPECIFICATION Spec
CONSTANTS
  Scanned = {"hosts"}
  HostTargets <- Releases
  PlanOf <- PlanOfHost
  S3Targets <- AnyFault
  HFFaults = {}
  Repositories <- TwoRepositories
  Objects <- SmallObjects
  HFBuckets <- OwnedBuckets
  Inputs <- SmallInputs
  Workers = {"w1", "w2"}
  Limit = 2
  MaxFaults = 1
INVARIANTS StopsAfterRefusal
