SPECIFICATION Spec
CONSTANTS
  a = a b = b slow = slow fast = fast t = t u = u
  Chains = {a, b}
  Rules = {slow, fast}
  Targets = {t, u}
  Rule <- SlowAndFast
  Route <- Redirected
  MaxRequests = 2
  GlobalInterval = 2
  RuleInterval <- SlowInterval
  Timeout = 2
  MaxTime = 7
INVARIANTS BudgetExact RatesHold SlowRuleBlocksNobody TimeoutShared
