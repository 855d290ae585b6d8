SPECIFICATION FairSpec
CONSTANTS
  multi = multi repeated = repeated other = other k1 = k1 k2 = k2
  NoFinding = NoFinding NoWorker = NoWorker
  Findings = {multi, repeated, other}
  Workers = {w1, w2}
  Keys = {k1, k2}
  Kinds <- SomeBad
  Debugged <- InDebug
  Sets <- Combinations
  Truncated = {repeated}
  Verdicts = {"valid", "invalid", "error"}
  QueuedJobs = 1
INVARIANTS NilMeansDelivered NothingLeftRunning VerdictEarned AnswersShared
PROPERTIES StopIsFinal Returns
