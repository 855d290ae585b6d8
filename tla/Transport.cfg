SPECIFICATION FairSpec
CONSTANTS
  Callers = {q1, q2, other}
  Queries = {q1, q2}
  MaxRetries = 1
  MaxBackoff = 1
  Slots = 1
  Waits = {1, 3}
  MaxFaults = 2
INVARIANTS ResponsesIntact
PROPERTIES PausesHonoured Returns
