SPECIFICATION Spec
CONSTANTS
  Scanned = {"S3"}
  HostTargets <- NoHosts
  PlanOf <- PlanOfHost
  S3Targets <- ABucketFails
  HFFaults = {}
  Repositories <- TwoRepositories
  Objects <- SmallObjects
  HFBuckets <- OwnedBuckets
  Inputs <- SmallInputs
  Workers = {"w1", "w2"}
  Limit = 2
  MaxFaults = 1
INVARIANTS BucketFailuresNotFatal
