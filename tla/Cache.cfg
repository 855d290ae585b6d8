SPECIFICATION FairSpec
CONSTANTS
  Callers = {c1, c2, c3}
  Keys = {k1, k2}
  NoCaller = NoCaller
  MaxCalls = 3
INVARIANTS ComputedOnce AnswersRight
PROPERTIES CallsReturn
